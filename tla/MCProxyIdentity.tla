--------------------------- MODULE MCProxyIdentity ---------------------------
(* A proxy that is started any number of times and killed a few times. *)
EXTENDS ProxyIdentity
=============================================================================
