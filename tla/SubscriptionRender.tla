------------------------- MODULE SubscriptionRender -------------------------
(***************************************************************************)
(* How a user's Clash subscription is made from a template: the profile,   *)
(* then the transport policy, then the user's own overlay, in the order of *)
(* render_subscription.                                                    *)
(*                                                                         *)
(* A config is what the code reads and rewrites of the YAML: the proxies,  *)
(* the members and type of each proxy group, the routing rules, the DNS    *)
(* fake-IP filters and the routes kept out of the tunnel; and its form:    *)
(* "ok"; "misshapen", a YAML text with good rules whose list of proxies is *)
(* none; or "unparsable". A rule is the sequence of its fields, the text   *)
(* cut at the commas. The credentials put into the text and the test       *)
(* intervals of the groups are left out.                                   *)
(***************************************************************************)
EXTENDS Naturals, Sequences, SequencesExt

CONSTANT Packs   \* RULE_PACKS: name -> [rules, filters, excludes]

(* The proxies and groups the profiles know by name.                       *)
HY2      == "hy2"
TUIC     == "tuic"
VLESS    == "vless"
BACKUP   == "vless-backup"
NODE     == "node-select"
AUTO     == "auto"
GITHUB   == "github"
GPT      == "gpt"
GOOGLE   == "google"
TELEGRAM == "telegram"
DIRECT   == "DIRECT"
REJECT   == "REJECT"

Profiles == {"default", "game", "work", "lowdata", "safe"}

(* Fields that only differ by the blanks around them, and what a reader    *)
(* that strips them sees; and a word that begins like the action DIRECT.   *)
SpacedDirect == " DIRECT"
SpacedMatch  == " MATCH"
DIRECTORY    == "DIRECTORY"

Strip(field) == CASE field = SpacedDirect -> DIRECT
                  [] field = SpacedMatch  -> "MATCH"
                  [] OTHER                -> field

StripAll(r) == [i \in DOMAIN r |-> Strip(r[i])]

(* rule.startswith('MATCH,'): the text as it is, not stripped.             *)
IsMatch(r) == Len(r) >= 2 /\ r[1] = "MATCH"

-----------------------------------------------------------------------------
Dedupe(s) ==
    FoldLeft(LAMBDA out, x : IF Contains(out, x) THEN out ELSE Append(out, x),
             <<>>, s)

ProxyNames(cfg) == cfg.proxies

ProxyGroupMap(cfg) == DOMAIN cfg.groups

(* A named group gets the preferred members that exist, then the members   *)
(* it had that may stay; a group the template does not have is left out.   *)
SetGroupProxies(cfg, g, preferred, groupRefs, direct, type) ==
    LET allowed == ProxyNames(cfg)
                   \cup (IF groupRefs THEN ProxyGroupMap(cfg) \ {g} ELSE {})
                   \cup (IF direct THEN {DIRECT} ELSE {})
        may(p)  == p \in allowed
        members == Dedupe(SelectSeq(preferred, may)
                          \o SelectSeq(cfg.groups[g].members, may))
    IN  IF g \notin ProxyGroupMap(cfg) THEN cfg
        ELSE [cfg EXCEPT !.groups[g] =
                [members |-> members,
                 type |-> IF type = "" THEN @.type ELSE type]]

PrependUniqueRules(cfg, new) ==
    LET other(r) == ~Contains(new, r)
    IN  [cfg EXCEPT !.rules = new \o SelectSeq(@, other)]

(* An empty addition changes nothing.                                      *)
PrependUnique(new, old) == IF new = <<>> THEN old ELSE Dedupe(new \o old)

PrependUniqueFakeIpFilters(cfg, new) == [cfg EXCEPT !.filters = PrependUnique(new, @)]

PrependUniqueTunRouteExcludes(cfg, new) == [cfg EXCEPT !.excludes = PrependUnique(new, @)]

Overlay(cfg, o) ==
    PrependUniqueTunRouteExcludes(
        PrependUniqueFakeIpFilters(PrependUniqueRules(cfg, o.rules), o.filters),
        o.excludes)

ApplyRulePackToClashConfig(cfg, p) == Overlay(cfg, Packs[p])

ApplyRulePackToUserConfig(u, p) ==
    [u EXCEPT !.rules    = PrependUnique(Packs[p].rules, @),
              !.filters  = PrependUnique(Packs[p].filters, @),
              !.excludes = PrependUnique(Packs[p].excludes, @)]

(* Mutant: the proxy goes, the groups still name it.                       *)
RemoveProxyLeavesMembers(cfg, proxy) == [cfg EXCEPT !.proxies = @ \ {proxy}]

RemoveProxyEverywhere(cfg, proxy) ==
    LET other(p) == p # proxy
    IN  [cfg EXCEPT !.proxies = @ \ {proxy},
                    !.groups = [g \in DOMAIN @ |->
                        [@[g] EXCEPT !.members = SelectSeq(@, other)]]]

(* Without a setting of its own a metered user gets no TUIC.               *)
TuicEnabled(u) == IF u.tuic = "unset" THEN ~u.metered ELSE u.tuic = "on"

ApplyUserTransportPolicy(cfg, u) ==
    IF TuicEnabled(u) THEN cfg ELSE RemoveProxyEverywhere(cfg, TUIC)

ApplyUserClashOverrides(cfg, u) == Overlay(cfg, u)

-----------------------------------------------------------------------------
(* The profiles.                                                           *)

ReplaceMatchRule(cfg, action) ==
    LET match == <<"MATCH", action>>
    IN  [cfg EXCEPT !.rules =
            IF \E i \in 1 .. Len(@) : IsMatch(@[i])
            THEN [i \in 1 .. Len(@) |-> IF IsMatch(@[i]) THEN match ELSE @[i]]
            ELSE Append(@, match)]

(* The third field is replaced, which in a logical rule is a part of an    *)
(* operand; the action at the end stays.                                   *)
RewriteRuleAction(r, action) ==
    IF r[1] = "MATCH" THEN <<"MATCH", action>>
    ELSE IF Len(r) >= 3 THEN [r EXCEPT ![3] = action] ELSE r

GameRules == << <<"DOMAIN-SUFFIX", "games", NODE>>,
                <<"DOMAIN-SUFFIX", "game downloads", DIRECT>> >>
WorkRules == << <<"DOMAIN-SUFFIX", "work tools", NODE>> >>

ApplyGameProfile(cfg) ==
    PrependUniqueRules(
        SetGroupProxies(
            SetGroupProxies(cfg, NODE,
                << HY2, TUIC, GPT, GOOGLE, TELEGRAM, AUTO, VLESS, BACKUP, GITHUB, DIRECT >>,
                TRUE, TRUE, ""),
            AUTO, << HY2, TUIC, VLESS, BACKUP >>, FALSE, FALSE, "url-test"),
        GameRules)

ApplyWorkProfile(cfg) ==
    PrependUniqueRules(
        SetGroupProxies(
            SetGroupProxies(cfg, NODE,
                << GITHUB, GPT, GOOGLE, TELEGRAM, AUTO, VLESS, BACKUP, HY2, TUIC, DIRECT >>,
                TRUE, TRUE, ""),
            AUTO, << VLESS, BACKUP, HY2, TUIC >>, FALSE, FALSE, "fallback"),
        WorkRules)

ApplyLowdataProfile(cfg) ==
    ReplaceMatchRule(
        SetGroupProxies(
            SetGroupProxies(cfg, NODE,
                << DIRECT, GPT, GOOGLE, TELEGRAM, AUTO, VLESS, BACKUP, HY2, TUIC, GITHUB >>,
                TRUE, TRUE, ""),
            AUTO, << VLESS, BACKUP, HY2, TUIC >>, FALSE, FALSE, "fallback"),
        DIRECT)

(* What the safe profile leaves alone begins like one of these: a fixed    *)
(* address (there are two), private and LAN addresses, the reject set.     *)
KeptBeginnings ==
    { <<"IP-CIDR", "fixed address", DIRECT, "no-resolve">>,
      <<"RULE-SET", "private", DIRECT>>, <<"RULE-SET", "lancidr", DIRECT>>,
      <<"GEOIP", "LAN", DIRECT>>, <<"RULE-SET", "reject">> }

IsKept(r) == \E k \in KeptBeginnings : IsPrefix(k, r)

(* ',DIRECT' in rule: some field but the first begins with DIRECT, which   *)
(* the action of a rule written ', DIRECT' does not.                       *)
ContainsDirect(r) == \E i \in 2 .. Len(r) : r[i] \in {DIRECT, DIRECTORY}

SafeRule(r) ==
    IF IsKept(r) \/ ~(IsMatch(r) \/ ContainsDirect(r)) THEN r
    ELSE RewriteRuleAction(r, NODE)

ApplySafeProfile(cfg) ==
    LET ordered == SetGroupProxies(
            SetGroupProxies(cfg, NODE,
                << GPT, GOOGLE, TELEGRAM, AUTO, VLESS, BACKUP, HY2, TUIC, DIRECT >>,
                TRUE, TRUE, ""),
            AUTO, << VLESS, BACKUP, HY2, TUIC >>, FALSE, FALSE, "fallback")
        rewritten == [ordered EXCEPT !.rules =
            [i \in 1 .. Len(@) |-> SafeRule(@[i])]]
    IN  ReplaceMatchRule(rewritten, NODE)

ApplySubscriptionProfile(cfg, profile) ==
    CASE profile = "game"    -> ApplyGameProfile(cfg)
      [] profile = "work"    -> ApplyWorkProfile(cfg)
      [] profile = "lowdata" -> ApplyLowdataProfile(cfg)
      [] profile = "safe"    -> ApplySafeProfile(cfg)
      [] OTHER               -> cfg

(* Each of the three steps parses the text it is given; when that, or the  *)
(* rewriting, raises an exception, the step answers with the text as it    *)
(* is. Only the overlay does not need the proxies.                         *)
Raises(cfg, step) ==
    \/ cfg.form = "unparsable"
    \/ cfg.form = "misshapen" /\ step # "overlay"

RenderProfileYaml(cfg, profile) ==
    IF Raises(cfg, "profile") THEN cfg ELSE ApplySubscriptionProfile(cfg, profile)

RenderUserTransportPolicyYaml(cfg, u) ==
    IF Raises(cfg, "policy") THEN cfg ELSE ApplyUserTransportPolicy(cfg, u)

RenderUserClashOverridesYaml(cfg, u) ==
    IF Raises(cfg, "overlay") THEN cfg ELSE ApplyUserClashOverrides(cfg, u)

(* Mutant: the user's overlay goes in before the profile.                  *)
RenderOverlayFirst(cfg, u, profile) ==
    RenderUserTransportPolicyYaml(
        RenderProfileYaml(RenderUserClashOverridesYaml(cfg, u), profile), u)

RenderSubscription(cfg, u, profile) ==
    RenderUserClashOverridesYaml(
        RenderUserTransportPolicyYaml(RenderProfileYaml(cfg, profile), u), u)

=============================================================================
