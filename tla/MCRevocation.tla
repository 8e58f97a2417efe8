---------------------------- MODULE MCRevocation ----------------------------
(* Revocation on a small instance for TLC: one request thread and the      *)
(* worker, one failure of any kind.                                        *)
EXTENDS Revocation, TLC

CONSTANTS r1, noone

OneRequest == {r1}

AllFaults == {"prepare", "save", "uncertain", "sync", "purge", "static", "kick",
              "record", "crash", "host"}
=============================================================================
