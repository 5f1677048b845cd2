--------------------------- MODULE MCDataChannels ---------------------------
(* Four channels and a buffer of one: the third waiting channel is refused. *)
EXTENDS DataChannels
=============================================================================
