-------------------------- MODULE MCAuthentication --------------------------
(* Authentication on a small instance for TLC.                             *)
EXTENDS Authentication, TLC

CONSTANTS c1, c2, c3

ThreeClients == {c1, c2, c3}
Symmetric    == Permutations(ThreeClients)
AllFaults    == {"api", "ledger", "kick"}
=============================================================================
