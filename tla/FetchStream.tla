----------------------------- MODULE FetchStream -----------------------------
(***************************************************************************)
(* One chunk request: getChunk() of web/src/fetch-client.js with its       *)
(* exactReader() at the browser end of a stream, handle_request() of       *)
(* crates/proxy/src/main.rs with the framing of protocol.rs at the other.  *)
(*                                                                         *)
(* The stream (libp2p-webrtc on the proxy, js-libp2p in the browser) is    *)
(* external and modelled from how the code uses it:                        *)
(*   - bytes arrive in order, in pieces unrelated to how they were sent;   *)
(*   - the proxy's sink takes no further message while it holds a full one *)
(*     unless it is flushed (comment in write_found);                      *)
(*   - dropping a stream on which the client's EOF was not seen sends a    *)
(*     RESET (comment in handle_request), and a RESET discards what the    *)
(*     browser has received but not read;                                  *)
(*   - an EOF of the client that lands while the proxy is writing may tear *)
(*     the transfer down (comment in getChunk);                            *)
(*   - the browser resets a stream whose read buffer overflows.            *)
(* Bytes are numbers; a length is LenBytes digits in base Radix.           *)
(***************************************************************************)
EXTENDS ExactReader

CONSTANTS
  Lengths,              \* sizes of the blob that may be stored
  MAX_RESPONSE_LEN,     \* largest response, in bytes
  MAX_MESSAGE_PAYLOAD,  \* bytes per message
  LenBytes, Radix,      \* the length field (4 bytes in base 256 in the code)
  Missing, SourceError  \* other results of ChunkSource::get

\* What one stands for in each place of the length field, the last one first.
Place[i \in 0..LenBytes] == IF i = 0 THEN 1 ELSE Radix * Place[i - 1]

ASSUME FetchAssumption ==
  /\ LenBytes \in Nat \ {0} /\ Radix \in Nat \ {0, 1}
  /\ MAX_RESPONSE_LEN \in Nat
  /\ LenBytes < MAX_RESPONSE_LEN /\ MAX_RESPONSE_LEN < Place[LenBytes]
  /\ MAX_MESSAGE_PAYLOAD \in Nat \ {0}
  /\ Lengths \subseteq Nat
  /\ Missing \notin Nat /\ SourceError \notin Nat /\ Missing # SourceError

STATUS_OK == 0
STATUS_NOT_FOUND == 1

\* The read buffer is set to twice the largest response.
maxReadBufferLength == 2 * MAX_RESPONSE_LEN

VARIABLES
  stored,   \* what ChunkSource::get finds: a length, Missing or SourceError
  link,     \* "up" or "down": the connection under the stream
  \* proxy
  spc,      \* "read", "lookup", "status", "len", "pieces", "flush", "close",
            \* "notfound", "drain", "done" or "dropped"
  written,  \* bytes of the blob handed to the sink
  sink,     \* bytes in the sink, not yet on their way
  \* wire
  up,       \* towards the proxy: "request" and "FIN"
  down,     \* towards the browser: bytes
  tail,     \* what follows the bytes: "none", "FIN" or "RESET"
  \* browser
  cpc,      \* "send", "status", "header", "body", "bytes", "null" or "error"
  inbox,    \* bytes received and not yet read from the stream
  ended,    \* "no", "eof" or "reset": how the stream ended for the browser
  length,   \* length announced by the proxy
  got       \* bytes that getChunk returned

server == <<spc, written, sink>>
browser == <<cpc, length, got, reader>>
wire == <<up, down, tail, inbox, ended>>
vars == <<stored, link, spc, written, sink, up, down, tail,
          cpc, inbox, ended, length, got, reader>>

\* ChunkSource::get, for the fixture and for the network: Some(bytes), known
\* here by their length, None, or an error (a network lookup that failed).
GetResults == Lengths \cup {Missing, SourceError}

\* The blob of a given length; distinct bytes show any loss or reordering.
Blob(n) == [i \in 1..n |-> 100 + i]

\* u32::to_be_bytes and DataView.getUint32(0, false).
to_be_bytes(n) == [i \in 1..LenBytes |-> (n \div Place[LenBytes - i]) % Radix]
getUint32(s) ==
  LET value[i \in 0..LenBytes] == IF i = 0 THEN 0 ELSE value[i - 1] * Radix + s[i]
  IN  value[LenBytes]

-----------------------------------------------------------------------------
\* newStream() has resolved.  When it rejects, getChunk() throws before there
\* is a stream: to retrieve() that is one more fetch that fails.
Init ==
  /\ stored \in GetResults
  /\ link = "up"
  /\ spc = "read" /\ written = 0 /\ sink = <<>>
  /\ up = <<>> /\ down = <<>> /\ tail = "none"
  /\ cpc = "send" /\ inbox = <<>> /\ ended = "no"
  /\ ReaderInit /\ length = 0 /\ got = <<>>

-----------------------------------------------------------------------------
(* The proxy. *)

\* An error in handle_request drops the stream before the client's EOF.
Drop ==
  /\ spc' = "dropped"
  /\ tail' = IF link = "up" THEN "RESET" ELSE tail
  /\ UNCHANGED <<written, sink>>

\* protocol::read_request; a stream that ends first is an error.
ReadRequest ==
  /\ spc = "read"
  /\ up # <<>>
  /\ up' = Tail(up)
  /\ IF Head(up) = "request"
     THEN spc' = "lookup" /\ UNCHANGED <<written, sink, tail>>
     ELSE Drop
  /\ UNCHANGED <<stored, link, down, inbox, ended, browser>>

\* source.get, and the length check of write_found before the first byte.
Lookup ==
  /\ spc = "lookup"
  /\ CASE stored = Missing -> spc' = "notfound" /\ UNCHANGED <<written, sink, tail>>
       [] stored = SourceError -> Drop
       [] OTHER -> IF stored > MAX_RESPONSE_LEN
                   THEN Drop
                   ELSE spc' = "status" /\ UNCHANGED <<written, sink, tail>>
  /\ UNCHANGED <<stored, link, up, down, inbox, ended, browser>>

\* write_all of one message: the sink must not hold a full message already.
Write(bytes) ==
  /\ Len(sink) < MAX_MESSAGE_PAYLOAD
  /\ sink' = sink \o bytes

WriteStatus ==
  /\ spc = "status"
  /\ Write(<<STATUS_OK>>)
  /\ spc' = "len"
  /\ UNCHANGED <<stored, link, written, wire, browser>>

WriteLen ==
  /\ spc = "len"
  /\ Write(to_be_bytes(stored))
  /\ spc' = IF stored = 0 THEN "close" ELSE "pieces"
  /\ UNCHANGED <<stored, link, written, wire, browser>>

\* Mutant: the pieces are written one after the other, and not flushed.
WritePiece_unflushed ==
  LET size == Min({MAX_MESSAGE_PAYLOAD, stored - written})
  IN  /\ spc = "pieces"
      /\ Write(SubSeq(Blob(stored), written + 1, written + size))
      /\ written' = written + size
      /\ spc' = IF written' = stored THEN "close" ELSE "pieces"
      /\ UNCHANGED <<stored, link, wire, browser>>

\* One turn of the loop over data.chunks(MAX_MESSAGE_PAYLOAD): write_all ...
WritePiece ==
  LET size == Min({MAX_MESSAGE_PAYLOAD, stored - written})
  IN  /\ spc = "pieces"
      /\ Write(SubSeq(Blob(stored), written + 1, written + size))
      /\ written' = written + size
      /\ spc' = "flush"
      /\ UNCHANGED <<stored, link, wire, browser>>

\* ... and flush.
FlushPiece ==
  /\ spc = "flush"
  /\ link = "up"
  /\ down' = down \o sink
  /\ sink' = <<>>
  /\ spc' = IF written = stored THEN "close" ELSE "pieces"
  /\ UNCHANGED <<stored, link, written, up, tail, inbox, ended, browser>>

\* stream.close(): flush what is left and send the EOF.
CloseWith(bytes) ==
  /\ link = "up"
  /\ down' = down \o sink \o bytes
  /\ sink' = <<>>
  /\ tail' = "FIN"
  /\ spc' = "drain"
  /\ UNCHANGED <<stored, link, written, up, inbox, ended, browser>>

\* Mutant: the handler returns, and drops the stream, once it has closed it.
Close_and_drop ==
  /\ spc = "close"
  /\ link = "up"
  /\ down' = down \o sink
  /\ sink' = <<>>
  /\ tail' = "RESET"
  /\ spc' = "done"
  /\ UNCHANGED <<stored, link, written, up, inbox, ended, browser>>

Close == spc = "close" /\ CloseWith(<<>>)

\* protocol::write_status(STATUS_NOT_FOUND).
WriteNotFound == spc = "notfound" /\ CloseWith(<<STATUS_NOT_FOUND>>)

\* drain_to_eof: whatever the client still sends is read; its EOF, or an
\* error, ends the handler.
Drain ==
  /\ spc = "drain"
  /\ link = "down" \/ up # <<>>
  /\ up' = IF up = <<>> THEN up ELSE Tail(up)
  /\ spc' = IF link = "down" \/ Head(up) = "FIN" THEN "done" ELSE "drain"
  /\ UNCHANGED <<stored, link, written, sink, down, tail, inbox, ended, browser>>

Writing == {"status", "len", "pieces", "flush", "close", "notfound"}

\* The connection is gone, so the pending read or write fails.
ServerFails ==
  /\ link = "down"
  /\ spc \in {"read"} \cup Writing
  /\ Drop
  /\ UNCHANGED <<stored, link, up, down, inbox, ended, browser>>

\* The client's EOF lands while the response is being written.
TornDown ==
  /\ spc \in Writing
  /\ up # <<>> /\ Head(up) = "FIN"
  /\ Drop
  /\ UNCHANGED <<stored, link, up, down, inbox, ended, browser>>

-----------------------------------------------------------------------------
(* The transport. *)

\* Some bytes arrive; an overflowing read buffer resets the stream.
Arrive ==
  /\ ended = "no"
  /\ \E n \in 1..Len(down) :
       /\ down' = SubSeq(down, n + 1, Len(down))
       /\ IF Len(inbox) + n > maxReadBufferLength
          THEN inbox' = <<>> /\ ended' = "reset"
          ELSE inbox' = inbox \o SubSeq(down, 1, n) /\ UNCHANGED ended
  /\ UNCHANGED <<stored, link, server, up, tail, browser>>

EndArrives ==
  /\ ended = "no"
  /\ down = <<>>
  /\ tail # "none"
  /\ ended' = IF tail = "FIN" THEN "eof" ELSE "reset"
  /\ inbox' = IF tail = "FIN" THEN inbox ELSE <<>>
  /\ UNCHANGED <<stored, link, server, up, down, tail, browser>>

\* The connection dies: nothing in flight arrives any more.
LinkDown ==
  /\ link = "up"
  /\ link' = "down"
  /\ up' = <<>> /\ down' = <<>>
  /\ ended' = "reset" /\ inbox' = <<>>
  /\ UNCHANGED <<stored, server, tail, browser>>

-----------------------------------------------------------------------------
(* The browser. *)

Settled == cpc \in {"bytes", "null", "error"}

\* Mutant: the finally block does not close the stream.
Settle_without_close(result) ==
  /\ cpc' = result
  /\ UNCHANGED up

\* Leaving getChunk() always closes the write side: the finally block.
Settle(result) ==
  /\ cpc' = result
  /\ up' = IF link = "up" THEN Append(up, "FIN") ELSE up

\* send(): the request goes out and the first read is called, or the stream
\* closes first.
Send ==
  /\ cpc = "send"
  /\ IF ended = "no"
     THEN cpc' = "status" /\ up' = Append(up, "request") /\ Call(1)
     ELSE Settle("error") /\ UNCHANGED reader
  /\ UNCHANGED <<stored, link, server, down, tail, inbox, ended, length, got>>

\* iterator.next() resolves with what the stream has received ...
Iterate ==
  /\ inbox # <<>>
  /\ Deliver(inbox)
  /\ inbox' = <<>>
  /\ UNCHANGED <<stored, link, server, up, down, tail, ended, cpc, length, got>>

\* ... or with nothing (an empty message; at most one waits in the queue) ...
IterateEmpty ==
  /\ <<>> \notin ToSet(queue)
  /\ ended = "no"
  /\ Deliver(<<>>)
  /\ UNCHANGED <<stored, link, server, wire, cpc, length, got>>

\* ... or is done, or rejects.
IterateFails ==
  /\ inbox = <<>>
  /\ ended # "no"
  /\ EndOfStream
  /\ UNCHANGED <<stored, link, server, wire, cpc, length, got>>

\* The reader joins what it has queued, between two awaits.
Copy == Copying /\ UNCHANGED <<stored, link, server, wire, cpc, length, got>>

\* A read that fails makes getChunk() throw.
ReadFails ==
  /\ ~Settled
  /\ rpc = "failed"
  /\ Settle("error")
  /\ UNCHANGED <<stored, link, server, down, tail, inbox, ended, length, got, reader>>

ReadStatus ==
  /\ cpc = "status"
  /\ rpc = "idle"
  /\ CASE Head(last) = STATUS_NOT_FOUND -> Settle("null") /\ UNCHANGED reader
       [] Head(last) = STATUS_OK -> cpc' = "header" /\ Call(LenBytes) /\ UNCHANGED up
       \* STATUS_REFUSED, which this proxy never sends, or an unknown byte
       [] OTHER -> Settle("error") /\ UNCHANGED reader
  /\ UNCHANGED <<stored, link, server, down, tail, inbox, ended, length, got>>

\* Mutant: the body is read as if it were one message.
ReadHeader_one_message ==
  /\ cpc = "header"
  /\ rpc = "idle"
  /\ length' = getUint32(last)
  /\ IF length' > MAX_RESPONSE_LEN
     THEN Settle("error") /\ UNCHANGED reader
     ELSE cpc' = "body" /\ Call(Min({length', MAX_MESSAGE_PAYLOAD})) /\ UNCHANGED up
  /\ UNCHANGED <<stored, link, server, down, tail, inbox, ended, got>>

ReadHeader ==
  /\ cpc = "header"
  /\ rpc = "idle"
  /\ length' = getUint32(last)
  /\ IF length' > MAX_RESPONSE_LEN
     THEN Settle("error") /\ UNCHANGED reader
     ELSE cpc' = "body" /\ Call(length') /\ UNCHANGED up
  /\ UNCHANGED <<stored, link, server, down, tail, inbox, ended, got>>

ReadBody ==
  /\ cpc = "body"
  /\ rpc = "idle"
  /\ got' = last
  /\ Settle("bytes")
  /\ UNCHANGED <<stored, link, server, down, tail, inbox, ended, length, reader>>

-----------------------------------------------------------------------------
Proxy == \/ ReadRequest \/ WriteStatus \/ WriteLen \/ WritePiece \/ FlushPiece
         \/ Close \/ WriteNotFound \/ Drain \/ ServerFails
Transport == Arrive \/ EndArrives
Browser == \/ Send \/ Iterate \/ IterateFails \/ Copy \/ ReadFails
           \/ ReadStatus \/ ReadHeader \/ ReadBody

Next == Proxy \/ Lookup \/ Transport \/ Browser \/ IterateEmpty \/ TornDown \/ LinkDown

\* Both programs run what they can, and the transport delivers while the
\* connection is up.  The connection may die and a transfer may be torn down,
\* but neither has to happen; nor does the source have to settle a lookup,
\* which nothing in the proxy or the browser puts a time limit on.
Spec ==
  /\ Init /\ [][Next]_vars
  /\ WF_vars(Proxy) /\ WF_vars(Transport) /\ WF_vars(Browser)

-----------------------------------------------------------------------------
(* Properties. *)

\* What getChunk() settles with is what the proxy's source holds: the whole
\* blob, never a truncated or shifted one, and null only for a blob that is
\* not there, however the bytes were cut into pieces and wherever the stream
\* broke.
AnswerIsTrue ==
  /\ cpc = "bytes" => stored \in Nat /\ got = Blob(stored)
  /\ cpc = "null" => stored = Missing

\* As long as the connection stays up, a request that the proxy can serve is
\* served: no RESET, early EOF or full buffer that the two programs bring about
\* turns it into an error.  A reset of the transport's own is a LinkDown.
ServedIsReceived ==
  link = "up" /\ (stored = Missing \/ stored \in 0..MAX_RESPONSE_LEN) => cpc # "error"

\* getChunk() has no timeout, but it settles unless the proxy's source hangs on
\* a live connection: no unflushed, unfinished or dropped response leaves it
\* waiting.
GetChunkSettles == <>Settled \/ <>[](spc = "lookup" /\ link = "up")

\* The handler ends, because getChunk() closes the stream on every path, unless
\* its own source hangs.
HandlerEnds == <>(spc \in {"done", "dropped"}) \/ <>[](spc = "lookup")

\* The bytes of the response that the proxy has handed to its sink or sent.
Sent ==
  CASE spc \in {"pieces", "flush", "close"} \/ written > 0
         -> <<STATUS_OK>> \o to_be_bytes(stored) \o SubSeq(Blob(stored), 1, written)
    [] spc = "len" -> <<STATUS_OK>>
    [] spc \in {"drain", "done"} /\ stored = Missing -> <<STATUS_NOT_FOUND>>
    [] spc \in {"drain", "done"} /\ stored = 0 -> <<STATUS_OK>> \o to_be_bytes(0)
    [] OTHER -> <<>>

\* The response to the request, once it is complete.
Response ==
  CASE stored = Missing -> <<STATUS_NOT_FOUND>>
    [] stored \in 0..MAX_RESPONSE_LEN -> <<STATUS_OK>> \o to_be_bytes(stored) \o Blob(stored)
    [] OTHER -> <<>>

\* On a stream that was not reset, the bytes in the sink, on the wire, in the
\* read buffer, in the reader's queue and already returned are, joined, what
\* the proxy wrote: none is lost, doubled or reordered, however the pieces were
\* cut.  A reset loses only from the end.
NothingLost ==
  LET read == returned \o Pending \o FlattenSeq(queue)
  IN  /\ IsPrefix(read, Response)
      /\ link = "up" /\ ended # "reset" /\ spc # "dropped" =>
           read \o inbox \o down \o sink = Sent
=============================================================================
