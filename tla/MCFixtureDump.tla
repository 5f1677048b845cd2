--------------------------- MODULE MCFixtureDump ---------------------------
(***************************************************************************)
(* Dumps of the two files of FixtureNetwork into one directory, in either  *)
(* order, each interrupted anywhere.                                       *)
(***************************************************************************)
EXTENDS FixtureDump, FixtureNetwork
=============================================================================
