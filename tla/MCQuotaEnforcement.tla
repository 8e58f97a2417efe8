------------------------- MODULE MCQuotaEnforcement -------------------------
(* QuotaEnforcement on small instances for TLC.                            *)
EXTENDS QuotaEnforcement

AllFaults == {"api", "save", "apply", "kick", "transport", "alerts",
              "crash"}
AllOps    == {"reset", "disable", "pause", "enable"}
=============================================================================
