-------------------------- MODULE MCTemplateEdits ---------------------------
(* TemplateEdits on small instances for TLC.                               *)
EXTENDS TemplateEdits, TLC

CONSTANTS t1, t2, v1, u1, none

MCTabs     == {t1, t2}
MCUserTabs == {v1}
MCUsers    == {u1}
MCOwner    == [v \in MCUserTabs |-> u1]
Symmetric  == Permutations(MCTabs)

Site    == <<"DOMAIN-SUFFIX", "site", DIRECT>>
Vpn     == <<"DOMAIN-SUFFIX", "vpn", DIRECT>>
Lan     == <<"GEOIP", "LAN", DIRECT>>
Rest    == <<"MATCH", DIRECT>>

(* Accepted by the forms, and not what the safe profile looks for: a rule  *)
(* of operands with commas, a blank before the action, and DIRECT at the   *)
(* beginning of what is matched.                                           *)
Logic   == <<"AND", "((DOMAIN", "x)", "(NETWORK", "UDP))", DIRECT>>
Blank   == <<"DOMAIN-SUFFIX", "x", SpacedDirect>>
Keyword == <<"DOMAIN-KEYWORD", DIRECTORY, REJECT>>
Broken  == <<"DOMAIN", "", DIRECT>>

Group(type, members) == [type |-> type, members |-> members]

Plain ==
    [proxies |-> {HY2, TUIC, VLESS},
     groups  |-> (NODE :> Group("select", <<GPT, AUTO, HY2, TUIC, DIRECT>>))
              @@ (AUTO :> Group("fallback", <<HY2, TUIC, VLESS>>))
              @@ (GPT  :> Group("url-test", <<TUIC, VLESS>>)),
     rules |-> <<>>, filters |-> <<"lan">>, excludes |-> <<>>, form |-> "ok"]

(* A template without the automatic group.                                 *)
Small ==
    [proxies |-> {HY2, VLESS},
     groups  |-> (NODE :> Group("select", <<VLESS, DIRECT>>)),
     rules |-> <<>>, filters |-> <<>>, excludes |-> <<>>, form |-> "ok"]

(* One with a group of TUIC alone and with a member that does not exist.   *)
Odd ==
    [proxies |-> {TUIC, VLESS},
     groups  |-> (NODE :> Group("select", <<GOOGLE, "gone", VLESS>>))
              @@ (AUTO :> Group("fallback", <<GOOGLE, "gone">>))
              @@ (GOOGLE :> Group("url-test", <<TUIC>>)),
     rules |-> <<>>, filters |-> <<>>, excludes |-> <<>>, form |-> "ok"]

MCSeed      == [Plain EXCEPT !.rules = <<Lan, Rest>>]
MCBodies    == {Odd}
MCNewUser   == [mode |-> "follow", rev |-> none, rules |-> <<>>, filters |-> <<>>,
                excludes |-> <<>>, tuic |-> "unset", metered |-> TRUE]
MCAdminForms == {Site}
MCUserForms  == {Site, <<"DOMAIN-SUFFIX", "SITE.", DIRECT>>, Broken}
MCCanonical  == ("SITE." :> "site")
MCRawTexts   == {<<Logic, Blank, Keyword, Lan>>, <<Broken>>}
MCHandEdits  == {[MCSeed EXCEPT !.form = "unparsable"], [Small EXCEPT !.form = "misshapen"]}
MCPacks     == ("vpn" :> [rules |-> <<Vpn>>, filters |-> <<"vpn">>, excludes |-> <<"net">>])
=============================================================================
