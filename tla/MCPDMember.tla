----------------------------- MODULE MCPDMember -----------------------------
(* Instances of PDMember for TLC. *)
EXTENDS PDMember
=============================================================================
