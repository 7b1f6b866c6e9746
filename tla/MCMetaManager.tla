--------------------------- MODULE MCMetaManager ---------------------------
(* MetaManager for TLC: the parameters are in Meta.cfg. *)
EXTENDS MetaManager
=============================================================================
