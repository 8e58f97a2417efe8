---------------------------- MODULE MCAuthService ----------------------------
(* An instance of AuthService for TLC.                                      *)
EXTENDS AuthService

MCConns == 1..4
=============================================================================
