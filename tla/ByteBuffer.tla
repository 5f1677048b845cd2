----------------------------- MODULE ByteBuffer -----------------------------
(***************************************************************************)
(* What a reader of exact amounts promises: bytes come out in the order in *)
(* which they went in, each once, and a read gets all it asked for or the  *)
(* stream is over.                                                         *)
(***************************************************************************)
EXTENDS Integers, Sequences

VARIABLES
  held,    \* bytes delivered by the stream and not yet returned
  last     \* what the latest read() returned

vars == <<held, last>>

Init == held = <<>> /\ last = <<>>

\* The stream appends what it delivers.
Deliver ==
  /\ Len(held') >= Len(held)
  /\ SubSeq(held', 1, Len(held)) = held
  /\ UNCHANGED last

\* A read takes what it returns from the front.
Read ==
  \E n \in 0..Len(held) :
    /\ last' = SubSeq(held, 1, n)
    /\ held' = SubSeq(held, n + 1, Len(held))

Next == Deliver \/ Read

Spec == Init /\ [][Next]_vars
=============================================================================
