--------------------------- MODULE MCStaticReload ---------------------------
(* StaticReload on small instances for TLC.                                *)
EXTENDS StaticReload

CONSTANTS limiter, panel, noone, w1, w2, pLocked, pUsers

MCCallers == {limiter, panel}
MCWorkers == {w1, w2}
MCPlans   == {pLocked, pUsers}
AllFaults == {"state", "apply", "systemctl", "schedule", "persist", "crash",
              "service", "reboot"}
NoFaults  == {}
=============================================================================
