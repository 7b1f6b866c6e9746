--------------------------- MODULE MCStoreMember ---------------------------
(* StoreMember for TLC: the parameters are in Store*.cfg. *)
EXTENDS StoreMember

\* Of two stores, either a new template or a third store.
RollOrScale == {[replicas |-> 2, tmpl |-> 2], [replicas |-> 3, tmpl |-> 1]}
============================================================================
