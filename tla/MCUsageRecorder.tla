-------------------------- MODULE MCUsageRecorder --------------------------
(***************************************************************************)
(* UsageRecorder for TLC.  Every server exposes the tools in Real; the     *)
(* others are names nobody ever served.                                    *)
(***************************************************************************)
EXTENDS UsageRecorder

CONSTANTS Real

CatalogOfAll == [s \in Servers |-> Real]
=============================================================================
