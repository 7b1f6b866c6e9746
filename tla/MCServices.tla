----------------------------- MODULE MCServices -----------------------------
(* Services for TLC: the parameters are in Services.cfg. *)
EXTENDS Services
=============================================================================
