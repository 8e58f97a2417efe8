--------------------------- MODULE TemplateEdits ----------------------------
(***************************************************************************)
(* The subscription template and the users' overlays under concurrent      *)
(* edits: administrators with several pages open change the common         *)
(* template (add, delete, replace all rules, apply a rule pack, save the   *)
(* whole config), users change their own rules and follow, pin or merge    *)
(* the template, and every subscription is rendered from what is stored.   *)
(*                                                                         *)
(* Every edit of the template carries the revision of the page it was made *)
(* on and is applied under template_lock only to that revision; every edit *)
(* of personal rules carries the revision of the user's record. A revision *)
(* is the SHA-256 of the content, here the content itself (the layout of   *)
(* the YAML text is left out; it can only make more edits conflict).       *)
(* A handler that holds one lock is one step. Pinning takes template_lock  *)
(* and usage_lock one after the other and is two steps. The operator may   *)
(* also edit the template's file by hand, without any lock.                *)
(***************************************************************************)
EXTENDS SubscriptionRender, FiniteSets

CONSTANTS
    Tabs,           \* pages open in administrators' browsers
    UserTabs,       \* pages open in the browsers of the users
    Owner,          \* [UserTabs -> Users]
    Users,
    Seed,           \* the template at the start
    NewUser,        \* a user's record at the start
    Bodies,         \* the configs (but for the rules) an administrator saves
    AdminForms,     \* the rules of the administrators' add form
    UserForms,      \* what users may fill into theirs
    Canonical,      \* canonical spelling of what a user's rule matches
    RawTexts,       \* the rule lists an administrator may type
    HandEdits,      \* what the operator may write into the file by hand
    USER_CLASH_RULE_MAX_COUNT,
    MaxRules,       \* bound: no further rule is added to a template this long
    MaxEdits,       \* bound on the number of edits that are stored
    None

ASSUME TemplateAssumption ==
    /\ Owner \in [UserTabs -> Users]
    /\ USER_CLASH_RULE_MAX_COUNT \in Nat \ {0}
    /\ MaxRules \in Nat /\ MaxEdits \in Nat

VARIABLES
    template,    \* template.yaml
    versions,    \* template_versions.json: snapshots, by content
    users,       \* users.json: what the subscription depends on
    page,        \* what an administrator's page shows and would send
    upage,       \* revision of the record a user's page was made from
    setting,     \* a template choice between its snapshot and its commit
    edits,
    wanted,      \* history: rules stored in the template and not taken out
                 \* by somebody whose page showed them
    uwanted,     \* history: the same for each user's own rules
    repeated     \* history: somebody asked for a rule the page already showed

editVars    == <<template, versions, users>>
historyVars == <<wanted, uwanted, repeated>>
vars == <<template, versions, users, page, upage, setting, edits,
          wanted, uwanted, repeated>>

NoPage == [rev |-> None, draftRev |-> None, base |-> None]

(* A rules page as render_rules makes it: the table and the small forms    *)
(* carry the revision read with the rules; so does the text area with all  *)
(* rules.                                                                  *)
RulesPage(t) == [rev |-> t, draftRev |-> t, base |-> t]

(* The config editor has one form only.                                    *)
ConfigPage(t) == [rev |-> None, draftRev |-> t, base |-> t]

Elems(t) == ToSet(t.rules)

(* Neither page can be made of a text that does not parse: what comes      *)
(* instead has no form that can be sent.                                   *)
Loads(t) == t.form # "unparsable"

Init ==
    /\ template = Seed /\ versions = {}
    /\ users = [u \in Users |-> NewUser]
    /\ page = [t \in Tabs |-> NoPage]
    /\ upage = [v \in UserTabs |-> None]
    /\ setting = [v \in UserTabs |-> None]
    /\ edits = 0
    /\ wanted = Elems(Seed) /\ uwanted = [u \in Users |-> ToSet(NewUser.rules)]
    /\ repeated = FALSE

-----------------------------------------------------------------------------
(* Mutant: the revision sent with the form is not compared.                *)
AnyRevision(expected) == TRUE

ValidateTemplateRevision(expected) == template = expected

(* A stored edit is answered with a fresh page; or the answer is lost, or  *)
(* is an error, because the directory could not be synced after the file   *)
(* was replaced: then the page, or the editor with the draft, still has    *)
(* its old revision and the form may be sent again. A save that fails      *)
(* before it replaces the file changes nothing at all.                     *)
Answered(t, fresh) == page' \in {[page EXCEPT ![t] = fresh], page}

StoreTemplate(new) ==
    /\ edits < MaxEdits /\ edits' = edits + 1
    /\ template' = new
    /\ UNCHANGED <<versions, users, upage, setting, uwanted>>

OpenRules(t) ==
    /\ page' = [page EXCEPT ![t] = IF Loads(template) THEN RulesPage(template) ELSE NoPage]
    /\ UNCHANGED <<editVars, upage, setting, edits, historyVars>>

OpenConfig(t) ==
    /\ page' = [page EXCEPT ![t] = IF Loads(template) THEN ConfigPage(template) ELSE NoPage]
    /\ UNCHANGED <<editVars, upage, setting, edits, historyVars>>

(* The fields are looked at without the blanks around them.                *)
ValidateClashRule(r) ==
    LET parts == StripAll(r)
    IN  /\ Len(parts) >= 2 /\ parts[1] # "" /\ Last(parts) # ""
        /\ IF parts[1] = "MATCH" THEN Len(parts) = 2
           ELSE Len(parts) >= 3 /\ parts[2] # ""

(* Whether the members of the groups exist, and whether a group would be   *)
(* left without any, is not checked.                                       *)
ValidateTemplateConfig(cfg) ==
    cfg.form = "ok" /\ \A r \in Elems(cfg) : ValidateClashRule(r)

SaveTemplateRules(rules) == [template EXCEPT !.rules = rules]

AddTemplateRule(r) == SaveTemplateRules(<<r>> \o template.rules)

DeleteTemplateRule(i) == SaveTemplateRules(RemoveAt(template.rules, i))

(* /admin/rules/add: the rule goes to the front.                           *)
PostAddRule(t, r) ==
    /\ page[t].rev # None /\ ValidateTemplateRevision(page[t].rev)
    /\ Len(template.rules) < MaxRules
    /\ StoreTemplate(AddTemplateRule(r))
    /\ wanted' = wanted \cup {r}
    /\ repeated' = (repeated \/ r \in Elems(page[t].rev))
    /\ Answered(t, RulesPage(template'))

(* /admin/rules/delete: the index and the rule the page showed there. The  *)
(* page has no button for sets, countries and the rule for the rest.       *)
PostDeleteRule(t, i) ==
    /\ page[t].rev # None /\ ValidateTemplateRevision(page[t].rev)
    /\ i <= Len(template.rules)
    /\ template.rules[i] = page[t].rev.rules[i]
    /\ template.rules[i][1] \notin {"RULE-SET", "GEOIP", "MATCH"}
    /\ StoreTemplate(DeleteTemplateRule(i))
    /\ wanted' = wanted \ {page[t].rev.rules[i]}
    /\ UNCHANGED repeated
    /\ Answered(t, RulesPage(template'))

(* /admin/rules/raw: the text replaces all rules.                          *)
PostRawRules(t, rules) ==
    /\ page[t].rev # None /\ ValidateTemplateRevision(page[t].draftRev)
    /\ \A r \in ToSet(rules) : ValidateClashRule(r)
    /\ StoreTemplate(SaveTemplateRules(rules))
    /\ wanted' = (wanted \ Elems(page[t].base)) \cup ToSet(rules)
    /\ repeated' = (repeated \/ Cardinality(ToSet(rules)) < Len(rules))
    /\ Answered(t, RulesPage(template'))

(* /admin/config/save: the editor's JSON replaces the template.            *)
PostConfig(t, body, rules) ==
    /\ page[t].rev = None /\ page[t].draftRev # None
    /\ ValidateTemplateConfig([body EXCEPT !.rules = rules])
    /\ ValidateTemplateRevision(page[t].draftRev)
    /\ StoreTemplate([body EXCEPT !.rules = rules])
    /\ wanted' = (wanted \ Elems(page[t].base)) \cup ToSet(rules)
    /\ repeated' = (repeated \/ Cardinality(ToSet(rules)) < Len(rules))
    /\ Answered(t, ConfigPage(template'))

ApplyRulePackToTemplate(p) == ApplyRulePackToClashConfig(template, p)

(* /admin/rule-pack/apply for the template.                                *)
PostRulePack(t, p) ==
    /\ page[t].rev # None /\ ValidateTemplateRevision(page[t].rev)
    /\ StoreTemplate(ApplyRulePackToTemplate(p))
    /\ wanted' = wanted \cup ToSet(Packs[p].rules)
    /\ UNCHANGED repeated
    /\ Answered(t, RulesPage(template'))

(* A stale small form is answered with a new rules page.                   *)
SmallFormConflict(t) ==
    /\ page[t].rev # None /\ ~ValidateTemplateRevision(page[t].rev)
    /\ page' = [page EXCEPT ![t] = IF Loads(template) THEN RulesPage(template) ELSE NoPage]
    /\ UNCHANGED <<editVars, upage, setting, edits, historyVars>>

(* Mutant: the page made for the conflict offers the draft under the new   *)
(* revision.                                                               *)
DraftConflictRenews(t) ==
    /\ page[t].draftRev # None /\ ~ValidateTemplateRevision(page[t].draftRev)
    /\ page' = [page EXCEPT ![t].rev = IF @ = None THEN None ELSE template,
                            ![t].draftRev = template]
    /\ UNCHANGED <<editVars, upage, setting, edits, historyVars>>

(* A stale draft comes back with the revision it was written for, under a  *)
(* rules table that is new, or in the config editor, which shows it even   *)
(* when the template no longer parses.                                     *)
DraftConflict(t) ==
    /\ page[t].draftRev # None /\ ~ValidateTemplateRevision(page[t].draftRev)
    /\ page' = [page EXCEPT ![t] =
            IF @.rev = None THEN @
            ELSE IF Loads(template) THEN [@ EXCEPT !.rev = template] ELSE NoPage]
    /\ UNCHANGED <<editVars, upage, setting, edits, historyVars>>

(* The operator edits template.yaml with an editor. The rules of the new   *)
(* text are the ones he wants.                                             *)
HandEdit(cfg) ==
    /\ template # cfg
    /\ StoreTemplate(cfg)
    /\ wanted' = Elems(cfg)
    /\ UNCHANGED <<page, repeated>>

-----------------------------------------------------------------------------
(* Users.                                                                  *)

StoreUser(u, cfg) ==
    /\ edits < MaxEdits /\ edits' = edits + 1
    /\ users' = [users EXCEPT ![u] = cfg]
    /\ UNCHANGED <<template, versions, page, wanted, repeated>>

UserAnswered(v) == upage' \in {upage, [upage EXCEPT ![v] = users'[Owner[v]]]}

OpenPanel(v) ==
    /\ upage' = [upage EXCEPT ![v] = users[Owner[v]]]
    /\ UNCHANGED <<editVars, page, setting, edits, historyVars>>

RevisionMatches(u, expected) == users[u] = expected

(* The form's fields are checked and what the rule matches is brought to   *)
(* its canonical spelling.                                                 *)
NormalizeUserPattern(match) ==
    IF match \in DOMAIN Canonical THEN Canonical[match] ELSE match

BuildUserClashRule(form) == [form EXCEPT ![2] = NormalizeUserPattern(@)]

CanAddUserClashRule(u, r, expected) ==
    /\ RevisionMatches(u, expected)
    /\ ~Contains(users[u].rules, r)
    /\ Len(users[u].rules) < USER_CLASH_RULE_MAX_COUNT

CanDeleteUserClashRule(u, i, expected) ==
    /\ RevisionMatches(u, expected)
    /\ i <= Len(users[u].rules) /\ users[u].rules[i] = expected.rules[i]

(* /user/rules/add: an invalid, stale, present or surplus rule changes     *)
(* nothing.                                                                *)
PostUserRuleAdd(v, form) ==
    LET u == Owner[v]
        r == BuildUserClashRule(form)
    IN  /\ ValidateClashRule(r) /\ CanAddUserClashRule(u, r, upage[v])
        /\ StoreUser(u, [users[u] EXCEPT !.rules = <<r>> \o @])
        /\ uwanted' = [uwanted EXCEPT ![u] = @ \cup {r}]
        /\ UNCHANGED setting
        /\ UserAnswered(v)

(* /user/rules/delete.                                                     *)
PostUserRuleDelete(v, i) ==
    LET u == Owner[v]
    IN  /\ CanDeleteUserClashRule(u, i, upage[v])
        /\ StoreUser(u, [users[u] EXCEPT !.rules = RemoveAt(@, i)])
        /\ uwanted' = [uwanted EXCEPT ![u] = @ \ {upage[v].rules[i]}]
        /\ UNCHANGED setting
        /\ UserAnswered(v)

(* A rule pack is merged into the record as it is now, asked for by the    *)
(* user or by an administrator; no revision is sent with it.               *)
ApplyRulePackToUser(u, p) ==
    /\ StoreUser(u, ApplyRulePackToUserConfig(users[u], p))
    /\ uwanted' = [uwanted EXCEPT ![u] = @ \cup ToSet(Packs[p].rules)]
    /\ UNCHANGED <<upage, setting>>

(* /admin/update: the fields of the form that the subscription depends on. *)
AdminUpdate(u, guest, tuic) ==
    /\ StoreUser(u, [users[u] EXCEPT !.metered = guest,
                                     !.tuic = IF tuic THEN "on" ELSE "off"])
    /\ UNCHANGED <<upage, setting, uwanted>>

(* Mutant: only the newest snapshot is kept.                               *)
SnapshotCurrentTemplateKeepsOne(v) ==
    /\ upage[v] # None /\ setting[v] = None /\ edits < MaxEdits
    /\ ValidateTemplateConfig(template)
    /\ versions' = {template} /\ setting' = [setting EXCEPT ![v] = template]
    /\ UNCHANGED <<template, users, page, upage, edits, historyVars>>

(* /user/template-mode pin or merge, first part: the common template is    *)
(* kept as a snapshot, once. The save may fail after the replacement.      *)
SnapshotCurrentTemplate(v) ==
    /\ upage[v] # None /\ setting[v] = None /\ edits < MaxEdits
    /\ ValidateTemplateConfig(template)
    /\ versions' = versions \cup {template}
    /\ setting' \in {setting, [setting EXCEPT ![v] = template]}
    /\ UNCHANGED <<template, users, page, upage, edits, historyVars>>

(* Second part: the user is pinned to that snapshot.                       *)
SetUserTemplateModePinned(v) ==
    LET u == Owner[v]
    IN  /\ setting[v] # None
        /\ StoreUser(u, [users[u] EXCEPT !.mode = "pinned", !.rev = setting[v]])
        /\ setting' = [setting EXCEPT ![v] = None]
        /\ UNCHANGED uwanted
        /\ UserAnswered(v)

SetUserTemplateModeFollow(v) ==
    LET u == Owner[v]
    IN  /\ upage[v] # None /\ setting[v] = None
        /\ StoreUser(u, [users[u] EXCEPT !.mode = "follow", !.rev = None])
        /\ UNCHANGED <<setting, uwanted>>
        /\ UserAnswered(v)

(* The panel is restarted, or the users file cannot be saved: a choice     *)
(* under way ends before its second part.                                  *)
SettingAborted(v) ==
    /\ setting[v] # None
    /\ setting' = [setting EXCEPT ![v] = None]
    /\ UNCHANGED <<editVars, page, upage, edits, historyVars>>

-----------------------------------------------------------------------------
AdminStep(t) ==
    \/ OpenRules(t) \/ OpenConfig(t)
    \/ SmallFormConflict(t) \/ DraftConflict(t)
    \/ \E r \in AdminForms : PostAddRule(t, r)
    \/ \E i \in 1 .. MaxRules : PostDeleteRule(t, i)
    \/ \E rules \in RawTexts : PostRawRules(t, rules)
    \/ \E body \in Bodies, rules \in RawTexts : PostConfig(t, body, rules)
    \/ \E p \in DOMAIN Packs : PostRulePack(t, p)

UserStep(v) ==
    \/ OpenPanel(v)
    \/ \E form \in UserForms : PostUserRuleAdd(v, form)
    \/ \E i \in 1 .. MaxRules : PostUserRuleDelete(v, i)
    \/ SnapshotCurrentTemplate(v) \/ SetUserTemplateModePinned(v)
    \/ SetUserTemplateModeFollow(v) \/ SettingAborted(v)

Next ==
    \/ \E t \in Tabs : AdminStep(t)
    \/ \E v \in UserTabs : UserStep(v)
    \/ \E u \in Users : \/ \E p \in DOMAIN Packs : ApplyRulePackToUser(u, p)
                        \/ \E guest, tuic \in BOOLEAN : AdminUpdate(u, guest, tuic)
    \/ \E cfg \in HandEdits : HandEdit(cfg)

Spec == Init /\ [][Next]_vars

-----------------------------------------------------------------------------
(* What is served.                                                         *)

SelectedTemplate(u) ==
    CASE users[u].mode = "follow" -> template
      [] users[u].mode = "pinned" /\ users[u].rev \in versions -> users[u].rev
      [] OTHER -> None

(* /sub/<user>?profile=<profile>; None is the 503 answer.                  *)
Subscription(u, profile) ==
    IF SelectedTemplate(u) = None THEN None
    ELSE RenderSubscription(SelectedTemplate(u), users[u], profile)

-----------------------------------------------------------------------------
(* Properties.                                                             *)

Distinct(s) == Cardinality(ToSet(s)) = Len(s)

PackRules == UNION {ToSet(Packs[p].rules) : p \in DOMAIN Packs}

IsTemplate(t) ==
    t # None =>
        /\ \A r \in Elems(t) : ValidateClashRule(r)
        /\ \E cfg \in Bodies \cup HandEdits \cup {Seed} :
              t.proxies = cfg.proxies /\ t.groups = cfg.groups /\ t.form = cfg.form
        /\ Len(t.rules) <= MaxRules + Cardinality(PackRules)

(* Every stored template is one that an administrator could have made, no  *)
(* rule is broken, only valid templates are kept as versions, and nobody   *)
(* has more rules of his own than the form allows plus the packs.          *)
TypeOK ==
    /\ IsTemplate(template)
    /\ \A v \in versions : IsTemplate(v) /\ ValidateTemplateConfig(v)
    /\ \A u \in Users :
        /\ users[u].mode \in {"follow", "pinned"} /\ IsTemplate(users[u].rev)
        /\ users[u].tuic \in {"on", "off", "unset"} /\ users[u].metered \in BOOLEAN
        /\ Len(users[u].rules) <= USER_CLASH_RULE_MAX_COUNT + Cardinality(PackRules)
    /\ \A t \in Tabs : IsTemplate(page[t].rev) /\ IsTemplate(page[t].draftRev)
    /\ \A v \in UserTabs : IsTemplate(setting[v])
    /\ edits \in 0 .. MaxEdits

(* No edit is lost: a rule that was stored stays in the template until     *)
(* somebody whose page showed it takes it out, whatever stale pages, kept  *)
(* drafts, lost answers and failed saves lie in between; the same holds of *)
(* each user's own rules.                                                  *)
NoLostEdit ==
    /\ wanted \subseteq Elems(template)
    /\ \A u \in Users : uwanted[u] \subseteq ToSet(users[u].rules)

(* Sending a form again after its answer was lost does not repeat it: no   *)
(* rule is in the template twice unless somebody asked for a rule that his *)
(* page already showed, and never twice among a user's own.                *)
RetriesHarmless ==
    /\ repeated \/ Distinct(template.rules)
    /\ \A u \in Users : Distinct(users[u].rules)

(* A pinned user can always be served: the snapshot is there before the    *)
(* user refers to it and stays, through races of the choice with edits of  *)
(* the template, failed saves and restarts.                                *)
PinnedServed == \A u \in Users : SelectedTemplate(u) # None

(* Whatever the profile, the user's own rules come first, in the user's    *)
(* order, with the actions the user gave them, also in a template whose    *)
(* proxies a hand edit has spoilt (one that does not parse at all is       *)
(* served as it is, and no client can load it).                            *)
PersonalRulesFirst ==
    \A u \in Users, profile \in Profiles :
        LET out == Subscription(u, profile)
        IN  out # None /\ Loads(out) => IsPrefix(users[u].rules, out.rules)

Members(cfg, g) == ToSet(cfg.groups[g].members)

Dangling(cfg) ==
    {<<g, p>> \in UNION {{g} \X Members(cfg, g) : g \in DOMAIN cfg.groups} :
        p \notin cfg.proxies \cup DOMAIN cfg.groups \cup {DIRECT, REJECT}}

(* Where a client finds the action of a rule, without the blanks: after    *)
(* all operands in a logical rule, in the third field otherwise.           *)
ActionOf(r) ==
    LET parts == StripAll(r)
    IN  CASE parts[1] = "MATCH"               -> parts[2]
          [] parts[1] \in {"AND", "OR", "NOT"} -> Last(parts)
          [] OTHER                            -> parts[3]

(* No rendering spoils a usable template, whichever template it is and     *)
(* whatever profile, policy and overlay do to the same groups and rules:   *)
(* no group names a proxy or group that is not there unless it did so in   *)
(* the template, and a group is only left empty when nothing it named in   *)
(* the template is a proxy the user gets (a group of TUIC alone is, for a  *)
(* user who does not get TUIC). TUIC, which cannot be metered by user, is  *)
(* withheld from metered users unless an administrator allowed it. The     *)
(* safe profile keeps no rule direct but the user's own and the private    *)
(* networks, except where its text search misses the action: README.md     *)
(* says "proxies everything except LAN/private traffic", yet a rule with a *)
(* blank before its action and a logical rule stay direct.                 *)
SubscriptionSound ==
    /\ TypeOK
    /\ \A u \in Users, profile \in Profiles :
         LET t   == SelectedTemplate(u)
             out == Subscription(u, profile)
         IN  t # None /\ t.form = "ok" =>
             /\ Dangling(out) \subseteq Dangling(t)
             /\ \A g \in DOMAIN out.groups :
                   Members(out, g) = {} => Members(t, g) \cap out.proxies = {}
             /\ users[u].tuic = "off" \/ (users[u].tuic = "unset" /\ users[u].metered)
                => \A g \in DOMAIN out.groups : TUIC \notin out.proxies \cup Members(out, g)
             /\ profile = "safe" => \A r \in Elems(out) \ ToSet(users[u].rules) :
                   ActionOf(r) = DIRECT =>
                     \/ IsKept(StripAll(r))
                     \/ StripAll(r) # r \/ r[1] \in {"AND", "OR", "NOT"}
=============================================================================
