---------------------------- MODULE MCServerUnit ----------------------------
(***************************************************************************)
(* Small instances of ServerUnit for TLC.                                  *)
(***************************************************************************)
EXTENDS ServerUnit

CONSTANTS ping, call, once  \* two periodic health checks, one at startup only

BothScripts == {"checkout", "setup"}
AllChecks == {ping, call, once}
PeriodicChecks == {ping, call}
=============================================================================
