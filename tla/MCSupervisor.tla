---------------------------- MODULE MCSupervisor ----------------------------
(***************************************************************************)
(* Small instances of Supervisor for TLC.                                  *)
(***************************************************************************)
EXTENDS Supervisor, TLC

CONSTANTS a, b, alice, bob

TwoServers == {a, b}
OneServer == {a}
TwoPorts == {8101, 8102}
OnePort == {8101}
BothOperators == {alice, bob}
OneOperator == {alice}
AllKinds == Writes \cup Stops

\* Servers, and operators, are interchangeable; the ports keep their names.
Alike == Permutations(Servers) \cup Permutations(Operators)
=============================================================================
