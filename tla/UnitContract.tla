---------------------------- MODULE UnitContract ----------------------------
(***************************************************************************)
(* The abstract specification of one unit: UnitLifecycle's moves as a      *)
(* machine over one variable.  A raised stop leaves the unit "stopping"    *)
(* and the supervisor may stop it again.                                   *)
(***************************************************************************)
EXTENDS UnitLifecycle

VARIABLE life

Init == life = Fresh

Next == \/ Begins(life, life')
        \/ Moves(life, life')
        \/ Begins_Stop(life, life')
        \/ Ends_Stop(life, life')

Spec == Init /\ [][Next]_life
=============================================================================
