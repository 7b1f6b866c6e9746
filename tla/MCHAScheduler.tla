--------------------------- MODULE MCHAScheduler ---------------------------
(* HAScheduler for TLC, with model values for the nodes. *)
EXTENDS HAScheduler
CONSTANTS n0, n1, n2
============================================================================
