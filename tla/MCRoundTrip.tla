----------------------------- MODULE MCRoundTrip -----------------------------
(***************************************************************************)
(* Texts of up to five characters for addresses of two bytes.  The         *)
(* characters are a digit, a letter in each case, the letter after the     *)
(* last hex letter, a blank, a letter of two bytes, and the two characters *)
(* that only one of the trims strips.  The proxy holds what the publishers *)
(* of the fixture network made, and nothing else.                          *)
(***************************************************************************)
EXTENDS RoundTrip, FixtureNetwork

MCChar == {<<57>>, <<97>>, <<65>>, <<103>>, <<32>>, <<195, 169>>, ByteOrderMark, NextLine}

\* Source::get behind getChunk().
Served(a) ==
  {IF \E c \in Files : new(c) # Failed /\ get(new(c), a) # NoChunk
   THEN get(new(CHOOSE c \in Files : new(c) # Failed /\ get(new(c), a) # NoChunk), a)
   ELSE NoChunk}

\* What address is before anything was typed.
Unset == {<<153, 153>>}
=============================================================================
