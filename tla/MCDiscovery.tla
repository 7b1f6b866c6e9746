---------------------------- MODULE MCDiscovery ----------------------------
(* Discovery for TLC, with model values for the pods. *)
EXTENDS Discovery
CONSTANTS pd0, pd1, pd2, store0
============================================================================
