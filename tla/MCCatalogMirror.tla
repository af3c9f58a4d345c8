-------------------------- MODULE MCCatalogMirror --------------------------
(***************************************************************************)
(* CatalogMirror for TLC.                                                  *)
(***************************************************************************)
EXTENDS CatalogMirror
=============================================================================
