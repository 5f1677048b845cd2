----------------------------- MODULE MCRetrieval -----------------------------
(***************************************************************************)
(* A small network for Retrieval.  Blobs are named by strings, the address *)
(* of a blob is a tagged copy of its name, and four files are published:   *)
(*   flat    a data map that lists its content chunks directly;            *)
(*   shrunk  a child map with two wrapper chunks, whose root map lists one *)
(*           content chunk twice;                                          *)
(*   nested  a child map whose wrappers hold a child map again;            *)
(*   empty   a data map that lists nothing.                                *)
(* "evil" is a well-formed data map of somebody else's content, "junk" and *)
(* "garbage" are blobs that belong to nothing.                             *)
(***************************************************************************)
EXTENDS Retrieval

MCBytes ==
  {"flat", "shrunk", "nested", "empty", "evil",   \* data map chunks
   "w1", "w2", "x1",                     \* wrapper chunks
   "root", "child",                      \* decrypted wrapper contents
   "c1", "c2", "c3",                     \* content chunks
   "file", "garbage", "junk"}

MCAddressOf(b) == <<"blake3", b>>
MCAddr == {MCAddressOf(b) : b \in MCBytes}

A(names) == [i \in 1..Len(names) |-> MCAddressOf(names[i])]

MCDecodeMap(b) ==
  CASE b = "flat"   -> [child |-> FALSE, infos |-> A(<<"c1", "c2", "c3">>)]
    [] b = "shrunk" -> [child |-> TRUE,  infos |-> A(<<"w1", "w2">>)]
    [] b = "root"   -> [child |-> FALSE, infos |-> A(<<"c1", "c2", "c1">>)]
    [] b = "nested" -> [child |-> TRUE,  infos |-> A(<<"x1">>)]
    [] b = "child"  -> [child |-> TRUE,  infos |-> A(<<"w1", "w2">>)]
    [] b = "empty"  -> [child |-> FALSE, infos |-> <<>>]
    [] b = "evil"   -> [child |-> FALSE, infos |-> A(<<"junk", "c2">>)]
    [] OTHER        -> Failed

\* Decrypting a map with the chunks it was made with gives the original;
\* a map without chunks fails, anything else is garbage.
MCDecrypt(m, chunks) ==
  CASE chunks = <<>>               -> Failed
    [] chunks = <<"w1", "w2">>     -> "root"
    [] chunks = <<"x1">>           -> "child"
    [] chunks = <<"c1", "c2", "c3">> \/ chunks = <<"c1", "c2", "c1">> -> "file"
    [] OTHER                       -> "garbage"

\* A proxy that answers anything, out of a few blobs that could do harm.
Hostile(a) ==
  {Content[a], "evil", "w2", "c2", "junk", NoChunk, Failed}

\* A proxy that answers truthfully.
Honest(a) == {Content[a]}

\* What the user asks for: anything, or the file with a shrunk map of a shrunk
\* map.
Anything == MCAddr
Nested == {MCAddressOf("nested")}
=============================================================================
