------------------------------ MODULE MCUdpMux ------------------------------
(***************************************************************************)
(* Two addresses and two ufrags: an address can move between connections,  *)
(* and a ufrag be taken.  Two connections: a ufrag can be used again.      *)
(***************************************************************************)
EXTENDS UdpMux, TLC

CONSTANTS u1, u2, a1, a2

MCUfrag == {u1, u2}
MCSocketAddr == {a1, a2}
Symmetry == Permutations(MCUfrag) \cup Permutations(MCSocketAddr)
=============================================================================
