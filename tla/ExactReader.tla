----------------------------- MODULE ExactReader -----------------------------
(***************************************************************************)
(* exactReader() of web/src/fetch-client.js: a reader that returns exactly *)
(* the number of bytes asked for, from a stream that delivers pieces of    *)
(* any size.  Pieces wait in a queue and are joined when a read is         *)
(* satisfied; a piece that is used in part is replaced by its rest.        *)
(*                                                                         *)
(* The steps are those of one reader; FetchStream, which extends this      *)
(* module, has the stream iterator that delivers and getChunk() that       *)
(* calls.                                                                  *)
(***************************************************************************)
EXTENDS Integers, Sequences, SequencesExt

VARIABLES
  queue,      \* pieces delivered and not used up
  queued,     \* the reader's count of the bytes in the queue
  rpc,        \* "idle", "fill", "copy" or "failed"
  wanted,     \* the size of the current read
  out,        \* bytes copied for the current read
  returned,   \* what all reads returned so far, joined
  last        \* what the latest read returned

reader == <<queue, queued, rpc, wanted, out, returned, last>>

ReaderInit ==
  /\ queue = <<>> /\ queued = 0
  /\ rpc = "idle" /\ wanted = 0 /\ out = <<>>
  /\ returned = <<>> /\ last = <<>>

\* read(n) is called.
Call(n) ==
  /\ rpc = "idle"
  /\ rpc' = "fill"
  /\ wanted' = n
  /\ out' = <<>>
  /\ UNCHANGED <<queue, queued, returned, last>>

\* The condition of the filling loop, negated.
Enough == queued >= wanted

\* The iterator delivers a piece.
Deliver(piece) ==
  /\ rpc = "fill"
  /\ ~Enough
  /\ queue' = Append(queue, piece)
  /\ queued' = queued + Len(piece)
  /\ UNCHANGED <<rpc, wanted, out, returned, last>>

\* The iterator is done, or throws, before the read is satisfied.
EndOfStream ==
  /\ rpc = "fill"
  /\ ~Enough
  /\ rpc' = "failed"
  /\ UNCHANGED <<queue, queued, wanted, out, returned, last>>

\* Enough is queued.
StartCopy ==
  /\ rpc = "fill"
  /\ Enough
  /\ rpc' = "copy"
  /\ UNCHANGED <<queue, queued, wanted, out, returned, last>>

\* Mutant: a piece that is used in part is thrown away.
Rest_dropped(piece, take) == Tail(queue)

\* What is left of the queue once `take` bytes of its first piece are used.
Rest(piece, take) ==
  IF take = Len(piece)
  THEN Tail(queue)
  ELSE [queue EXCEPT ![1] = SubSeq(piece, take + 1, Len(piece))]

\* One turn of the copying loop.
CopyPiece ==
  /\ rpc = "copy"
  /\ Len(out) < wanted
  /\ queue # <<>>
  /\ LET piece == Head(queue)
         take  == Min({Len(piece), wanted - Len(out)})
     IN  /\ out' = out \o SubSeq(piece, 1, take)
         /\ queue' = Rest(piece, take)
  /\ UNCHANGED <<queued, rpc, wanted, returned, last>>

Return ==
  /\ rpc = "copy"
  /\ Len(out) = wanted
  /\ rpc' = "idle"
  /\ queued' = queued - wanted
  /\ last' = out
  /\ returned' = returned \o out
  /\ UNCHANGED <<queue, wanted, out>>

Copying == StartCopy \/ CopyPiece \/ Return

-----------------------------------------------------------------------------
(* Properties. *)

\* The bytes copied for a read that has not returned yet.
Pending == IF rpc = "copy" THEN out ELSE <<>>

\* The queue of pieces implements a plain buffer of bytes.
Buffer == INSTANCE ByteBuffer WITH
  held <- Pending \o FlattenSeq(queue)

\* Every step of the reader is a step of the buffer or invisible to its caller.
ImplementsBuffer == Buffer!Spec
=============================================================================
