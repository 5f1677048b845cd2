--------------------------- MODULE SelfEncryption ---------------------------
(***************************************************************************)
(* The content-addressed data that the browser client works on, as the     *)
(* code in crates/wasm-client uses it.  The functions themselves (BLAKE3,  *)
(* verify_chunk, the MessagePack decoder, decrypt, get_root_data_map) live *)
(* in the external crates self_encryption, blake3 and rmp_serde.           *)
(*                                                                         *)
(* A blob is an uninterpreted value.  Its address is its hash, a data map  *)
(* is what a blob may decode to, and decrypting a data map with the chunks *)
(* it lists gives another blob: the content, or the bytes of the next data *)
(* map when the map is a child (shrunk) one.                               *)
(***************************************************************************)
EXTENDS Integers, Sequences

CONSTANTS
  Addr,             \* content addresses (XorName)
  Bytes,            \* blobs
  address_of(_),    \* BLAKE3 hash of a blob
  decode_map(_),    \* MessagePack decoding of a blob: a data map or Failed
  decrypt(_, _),    \* decrypting <<map, chunks>>: a blob or Failed
  Failed,           \* the error result of a decoder
  NoChunk,          \* "no blob": an address that is not held
  MaxDepth          \* bound on the nesting of shrunk data maps

\* self_encryption::DataMap: is_child() and infos()[i].dst_hash.
DataMap == [child : BOOLEAN, infos : Seq(Addr)]

ASSUME HashAssumption ==
  /\ \A b \in Bytes : address_of(b) \in Addr
  \* Collision resistance of BLAKE3.
  /\ \A b, c \in Bytes : address_of(b) = address_of(c) => b = c

ASSUME DecoderAssumption ==
  /\ Failed \notin DataMap
  /\ Failed \notin Bytes
  /\ NoChunk \notin Bytes
  /\ \A b \in Bytes : decode_map(b) \in DataMap \cup {Failed}

\* The data maps that some blob decodes to.
StoredMap == {decode_map(b) : b \in Bytes} \ {Failed}

\* Decryption is a partial function of the map and the blobs it is given.
ASSUME DecryptAssumption ==
  \A m \in StoredMap :
    \A chunks \in [1..Len(m.infos) -> Bytes] : decrypt(m, chunks) \in Bytes \cup {Failed}

ASSUME DepthAssumption == MaxDepth \in Nat

\* self_encryption::verify_chunk: does the blob hash to the address?
verify_chunk(a, b) == address_of(b) = a

(***************************************************************************)
(* self_encryption::get_root_data_map.  `held` maps an address to the blob *)
(* the fetch closure returns for it, NoChunk where the closure errs.  One  *)
(* level: a map that is not a child is the root; a child map is decrypted  *)
(* with its chunks and decoded; any error ends the resolution.             *)
(***************************************************************************)
Chunks(m, held) == [i \in 1..Len(m.infos) |-> held[m.infos[i]]]

Parent(m, held) ==
  IF \E i \in 1..Len(m.infos) : held[m.infos[i]] = NoChunk
  THEN Failed
  ELSE IF decrypt(m, Chunks(m, held)) = Failed
       THEN Failed
       ELSE decode_map(decrypt(m, Chunks(m, held)))

ResolveLevel(m, held) ==
  IF m = Failed THEN Failed ELSE IF m.child THEN Parent(m, held) ELSE m

Levels(map, held) ==
  LET level[n \in 0..MaxDepth] ==
        IF n = 0 THEN map ELSE ResolveLevel(level[n - 1], held)
  IN  level

get_root_data_map(map, held) ==
  LET root == Levels(map, held)[MaxDepth]
  IN  IF root = Failed THEN Failed ELSE IF root.child THEN Failed ELSE root

(***************************************************************************)
(* What a public address stands for, read off the whole network at once:   *)
(* the reference that the incremental, cached retrieval is compared with.  *)
(***************************************************************************)

\* The one blob stored at an address, if there is one.
Content ==
  [a \in Addr |-> IF \E b \in Bytes : address_of(b) = a
                  THEN CHOOSE b \in Bytes : address_of(b) = a
                  ELSE NoChunk]

Stored == {a \in Addr : Content[a] # NoChunk}

\* The root data map behind a public address.
PublishedMap(a) ==
  IF Content[a] = NoChunk \/ decode_map(Content[a]) = Failed
  THEN Failed
  ELSE get_root_data_map(decode_map(Content[a]), Content)

\* The content behind a public address: what was uploaded, or Failed.
Published(a) ==
  LET root == PublishedMap(a)
  IN  IF root = Failed \/ (\E i \in 1..Len(root.infos) : Content[root.infos[i]] = NoChunk)
      THEN Failed
      ELSE decrypt(root, Chunks(root, Content))

\* The addresses of the chunks that content is made of.
ContentChunks(a) ==
  {PublishedMap(a).infos[i] : i \in 1..Len(PublishedMap(a).infos)}
=============================================================================
