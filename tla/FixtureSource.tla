---------------------------- MODULE FixtureSource ----------------------------
(***************************************************************************)
(* The publisher's side: FixtureSource of crates/proxy/src/source.rs,      *)
(* which self-encrypts a local file and serves the chunks from memory.     *)
(* encrypt and the MessagePack encoder are external.  All that is asked of *)
(* them is that what encrypt produced can be read back with the chunks it  *)
(* produced, whether it shrank the data map or not.                        *)
(***************************************************************************)
EXTENDS SelfEncryption

CONSTANTS
  Files,        \* contents of the file given with --fixture
  encrypt(_),   \* a data map and the set of chunks, or Failed (file too small)
  to_vec(_)     \* MessagePack encoding of a data map

\* A map from address to blob as a reader uses it: NoChunk where it has none.
Holding(chunks) == [a \in Addr |-> IF a \in DOMAIN chunks THEN chunks[a] ELSE NoChunk]

\* HashMap::insert of every blob under its address.
Index(blobs) ==
  [a \in {address_of(b) : b \in blobs} |-> CHOOSE b \in blobs : address_of(b) = a]

\* What a verifying reader makes of a data map and a store of chunks.
Decrypted(map, held) ==
  LET root == get_root_data_map(map, held)
  IN  IF root = Failed \/ (\E i \in 1..Len(root.infos) : held[root.infos[i]] = NoChunk)
      THEN Failed
      ELSE decrypt(root, Chunks(root, held))

ReadBack(held, a) ==
  IF held[a] = NoChunk \/ decode_map(held[a]) = Failed
  THEN Failed
  ELSE Decrypted(decode_map(held[a]), held)

ASSUME EncryptAssumption ==
  /\ Files \subseteq Bytes
  /\ \A file \in Files : encrypt(file) # Failed =>
       /\ encrypt(file).map \in DataMap
       /\ encrypt(file).chunks \subseteq Bytes
       /\ to_vec(encrypt(file).map) \in Bytes
       /\ decode_map(to_vec(encrypt(file).map)) = encrypt(file).map
       /\ Decrypted(encrypt(file).map, Holding(Index(encrypt(file).chunks))) = file

-----------------------------------------------------------------------------
\* The source made of the blobs to serve and the one that holds the data map.
Source(blobs, serialized) ==
  [chunks |-> Index(blobs), data_map_address |-> address_of(serialized)]

\* Mutants: the data map is not inserted; the last chunk is left out.
new_without_map(file) ==
  IF encrypt(file) = Failed
  THEN Failed
  ELSE Source(encrypt(file).chunks, to_vec(encrypt(file).map))
new_incomplete(file) ==
  IF encrypt(file) = Failed
  THEN Failed
  ELSE LET chunks == encrypt(file).chunks
       IN  Source((chunks \ {CHOOSE b \in chunks : TRUE}) \cup {to_vec(encrypt(file).map)},
                  to_vec(encrypt(file).map))

\* FixtureSource::new: data map and chunks in one address space.
new(file) ==
  IF encrypt(file) = Failed
  THEN Failed
  ELSE Source(encrypt(file).chunks \cup {to_vec(encrypt(file).map)}, to_vec(encrypt(file).map))

\* FixtureSource::addresses and ::get.
addresses(source) == DOMAIN source.chunks

get(source, a) == IF a \in addresses(source) THEN source.chunks[a] ELSE NoChunk
=============================================================================
