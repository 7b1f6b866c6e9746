--------------------------- MODULE MCProxyMember ---------------------------
(* ProxyMember for TLC: the parameters are in Proxy*.cfg. *)
EXTENDS ProxyMember
============================================================================
