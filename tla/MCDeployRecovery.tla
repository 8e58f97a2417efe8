-------------------------- MODULE MCDeployRecovery --------------------------
(* An instance of DeployRecovery for TLC.                                   *)
EXTENDS DeployRecovery

MCPaths == {"binary", "config"}
MCUnits == {"server", "panel"}
MCActiveUnits == {"server"}
=============================================================================
