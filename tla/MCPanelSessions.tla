--------------------------- MODULE MCPanelSessions ---------------------------
(* An instance of PanelSessions for TLC.                                    *)
EXTENDS PanelSessions, TLC

CONSTANTS w1, w2, c1, c2, u1, u2, admin

MCWorkers == {w1, w2}
MCClients == {c1, c2}
MCUsers == {u1, u2}
MCSymmetry == Permutations(MCWorkers) \cup Permutations(MCClients) \cup Permutations(MCUsers)
=============================================================================
