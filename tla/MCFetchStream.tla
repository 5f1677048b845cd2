---------------------------- MODULE MCFetchStream ----------------------------
(***************************************************************************)
(* Blobs of no, one, exactly one message's, several messages', the largest *)
(* and an oversized number of bytes; lengths take two digits.              *)
(***************************************************************************)
EXTENDS FetchStream

MCLengths == 0..7
=============================================================================
