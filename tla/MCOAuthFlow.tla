---------------------------- MODULE MCOAuthFlow ----------------------------
(***************************************************************************)
(* Small instances of OAuthFlow for TLC.                                   *)
(***************************************************************************)
EXTENDS OAuthFlow, TLC

CONSTANTS alice, bob, url1, url2

BothOwners == {alice, bob}
BothConfigs == {url1, url2}
AliceAtFirst == [owner |-> alice, config |-> url1]

\* Sign-ins that are not begun yet, and operators, are interchangeable.
Alike == Permutations(Flows \ {Earlier}) \cup Permutations(Operators)
=============================================================================
