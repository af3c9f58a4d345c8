----------------------------- MODULE MCGroupHub -----------------------------
(***************************************************************************)
(* GroupHub for TLC: two servers that may follow one another under one     *)
(* slug.                                                                   *)
(***************************************************************************)
EXTENDS GroupHub

OneSlug == [s \in Servers |-> "slug"]
=============================================================================
