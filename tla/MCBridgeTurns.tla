--------------------------- MODULE MCBridgeTurns ---------------------------
(***************************************************************************)
(* BridgeTurns for TLC: a turn, and a legacy call or a second turn.        *)
(***************************************************************************)
EXTENDS BridgeTurns
=============================================================================
