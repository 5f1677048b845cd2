------------------------ MODULE SelfEncryptionProofs ------------------------
(***************************************************************************)
(* Facts about self-encrypted data.  Resolving shrunk data maps: what      *)
(* get_root_data_map returns, and that resolving through a cache of        *)
(* verified chunks gives what resolving through the whole network would.   *)
(* Publishing: what FixtureSource serves can be read back from any store   *)
(* that holds at least its chunks, the whole network included.             *)
(***************************************************************************)
EXTENDS FixtureSource, SequenceFacts

-----------------------------------------------------------------------------
(* Resolving a data map through the blobs that `held` gives for its chunks. *)

Store == [Addr -> Bytes \cup {NoChunk}]
Outcome == StoredMap \cup {Failed}

\* A stored map has a child flag and a sequence of addresses.
LEMMA StoredMapType ==
  /\ StoredMap \subseteq DataMap
  /\ Failed \notin StoredMap
BY DecoderAssumption DEF StoredMap

\* The chunks of a map, when all are held, are as many blobs as it has entries.
LEMMA ChunksType ==
  ASSUME NEW m \in DataMap, NEW held \in Store,
         ~ \E i \in 1..Len(m.infos) : held[m.infos[i]] = NoChunk
  PROVE  Chunks(m, held) \in [1..Len(m.infos) -> Bytes]
<1>1. m.infos \in Seq(Addr)
  BY DEF DataMap
<1>2. ASSUME NEW i \in 1..Len(m.infos) PROVE held[m.infos[i]] \in Bytes
  <2>1. m.infos[i] \in Addr
    BY <1>1
  <2> QED
    BY <2>1 DEF Store
<1> QED
  BY <1>2 DEF Chunks

\* One level of resolution ends with a map that some blob holds, or an error.
LEMMA ResolveLevelType ==
  ASSUME NEW m \in Outcome, NEW held \in Store
  PROVE  ResolveLevel(m, held) \in Outcome
<1>1. CASE m = Failed
  BY <1>1 DEF ResolveLevel, Outcome
<1>2. CASE m # Failed /\ ~m.child
  BY <1>2 DEF ResolveLevel
<1>3. CASE m # Failed /\ m.child
  <2>1. m \in StoredMap /\ m \in DataMap
    BY <1>3, StoredMapType DEF Outcome
  <2>2. ResolveLevel(m, held) = Parent(m, held)
    BY <1>3 DEF ResolveLevel
  <2>3. CASE \E i \in 1..Len(m.infos) : held[m.infos[i]] = NoChunk
    BY <2>2, <2>3 DEF Parent, Outcome
  <2>4. CASE ~ \E i \in 1..Len(m.infos) : held[m.infos[i]] = NoChunk
    <3>1. Chunks(m, held) \in [1..Len(m.infos) -> Bytes]
      BY <2>1, <2>4, ChunksType
    <3>2. decrypt(m, Chunks(m, held)) \in Bytes \cup {Failed}
      BY <2>1, <3>1, DecryptAssumption
    <3>3. decrypt(m, Chunks(m, held)) \in Bytes
          => decode_map(decrypt(m, Chunks(m, held))) \in Outcome
      BY DEF StoredMap, Outcome
    <3> QED
      BY <2>2, <2>4, <3>2, <3>3 DEF Parent, Outcome
  <2> QED
    BY <2>3, <2>4
<1> QED
  BY <1>1, <1>2, <1>3

\* The recursive function of Levels is well defined: it starts at the map and
\* resolves one more level at every index.
LEMMA LevelsDef ==
  ASSUME NEW map \in Outcome, NEW held \in Store
  PROVE  Levels(map, held) =
           [n \in 0..MaxDepth |->
              IF n = 0 THEN map ELSE ResolveLevel(Levels(map, held)[n - 1], held)]
<1> DEFINE Rec(g) == g = [n \in 0..MaxDepth |->
                            IF n = 0 THEN map ELSE ResolveLevel(g[n - 1], held)]
           F == [m \in Outcome |-> ResolveLevel(m, held)]
<1>1. F \in [Outcome -> Outcome]
  BY ResolveLevelType
<1>2. PICK g \in [0..MaxDepth -> Outcome] :
        g[0] = map /\ \A n \in 1..MaxDepth : g[n] = F[g[n - 1]]
  <2> HIDE DEF F
  <2>1. MaxDepth \in Nat
    BY DepthAssumption
  <2>2. Iterations(Outcome, F, map, MaxDepth) # {}
    BY <1>1, <2>1, Iteration, Zenon
  <2> QED
    BY <2>2 DEF Iterations
<1>3. ASSUME NEW n \in 0..MaxDepth
      PROVE  g[n] = IF n = 0 THEN map ELSE ResolveLevel(g[n - 1], held)
  <2>1. CASE n = 0
    BY <1>2, <2>1
  <2>2. CASE n # 0
    <3>1. n \in 1..MaxDepth /\ n - 1 \in 0..MaxDepth
      BY <2>2, DepthAssumption
    <3>2. g[n - 1] \in Outcome /\ g[n] = F[g[n - 1]]
      BY <1>2, <3>1
    <3> QED
      BY <2>2, <3>2
  <2> QED
    BY <2>1, <2>2
<1>4. Rec(g)
  BY <1>2, <1>3
<1>5. Levels(map, held) = CHOOSE h : Rec(h)
  BY DEF Levels
<1>6. Rec(CHOOSE h : Rec(h))
  <2> HIDE DEF Rec
  <2> QED
    BY <1>4
<1>7. Rec(Levels(map, held))
  BY <1>5, <1>6
<1> QED
  BY <1>7

\* What get_root_data_map returns: an error, or a stored map that is no child.
LEMMA RootType ==
  ASSUME NEW map \in StoredMap, NEW held \in Store
  PROVE  /\ get_root_data_map(map, held) \in Outcome
         /\ get_root_data_map(map, held) # Failed => ~get_root_data_map(map, held).child
<1> DEFINE L == Levels(map, held)
           S == {n \in 0..MaxDepth : L[n] \in Outcome}
<1>1. L = [n \in 0..MaxDepth |-> IF n = 0 THEN map ELSE ResolveLevel(L[n - 1], held)]
  BY LevelsDef DEF Outcome
<1> HIDE DEF L
<1>2. 0 \in S
  BY <1>1, DepthAssumption DEF Outcome
<1>3. ASSUME NEW n \in 0..MaxDepth, n \in S, n < MaxDepth
      PROVE  n + 1 \in S
  <2>1. n + 1 \in 0..MaxDepth /\ n + 1 # 0 /\ (n + 1) - 1 = n
    BY <1>3, DepthAssumption
  <2>2. L[n + 1] = ResolveLevel(L[n], held)
    BY <1>1, <2>1
  <2>3. L[n + 1] \in Outcome
    BY <1>3, <2>2, ResolveLevelType
  <2> QED
    BY <2>1, <2>3
<1>4. L[MaxDepth] \in Outcome
  <2>1. MaxDepth \in S
    <3> HIDE DEF S
    <3>1. \A n \in 0..MaxDepth : n \in S
      BY <1>2, <1>3, UpTo, DepthAssumption
    <3> QED
      BY <3>1, DepthAssumption
  <2> QED
    BY <2>1
<1> QED
  BY <1>4 DEF get_root_data_map, L, Outcome

\* A map that is no child is its own root.
LEMMA RootOfRoot ==
  ASSUME NEW map \in StoredMap, ~map.child, NEW held \in Store
  PROVE  get_root_data_map(map, held) = map
<1> DEFINE L == Levels(map, held)
           S == {n \in 0..MaxDepth : L[n] = map}
<1>1. L = [n \in 0..MaxDepth |-> IF n = 0 THEN map ELSE ResolveLevel(L[n - 1], held)]
  BY LevelsDef DEF Outcome
<1> HIDE DEF L
<1>2. 0 \in S
  BY <1>1, DepthAssumption
<1>3. ASSUME NEW n \in 0..MaxDepth, n \in S, n < MaxDepth
      PROVE  n + 1 \in S
  <2>1. n + 1 \in 0..MaxDepth /\ n + 1 # 0 /\ (n + 1) - 1 = n
    BY <1>3, DepthAssumption
  <2>2. L[n + 1] = ResolveLevel(map, held)
    BY <1>1, <1>3, <2>1
  <2>3. ResolveLevel(map, held) = map
    BY DEF ResolveLevel
  <2> QED
    BY <2>1, <2>2, <2>3
<1>4. L[MaxDepth] = map
  <2>1. MaxDepth \in S
    <3> HIDE DEF S
    <3>1. \A n \in 0..MaxDepth : n \in S
      BY <1>2, <1>3, UpTo, DepthAssumption
    <3> QED
      BY <3>1, DepthAssumption
  <2> QED
    BY <2>1
<1> QED
  BY <1>4, StoredMapType DEF get_root_data_map, L

\* A store that holds at least the same chunks resolves at least as much: where
\* resolving through the smaller one succeeds, the larger one gives the same.
LEMMA RootInLarger ==
  ASSUME NEW map \in StoredMap, NEW held \in Store, NEW larger \in Store,
         \A a \in Addr : held[a] # NoChunk => held[a] = larger[a],
         get_root_data_map(map, held) # Failed
  PROVE  get_root_data_map(map, held) = get_root_data_map(map, larger)
<1> DEFINE L == Levels(map, held)
           C == Levels(map, larger)
           S == {n \in 0..MaxDepth : L[n] \in Outcome /\ (L[n] # Failed => L[n] = C[n])}
<1>1. L = [n \in 0..MaxDepth |-> IF n = 0 THEN map ELSE ResolveLevel(L[n - 1], held)]
  BY LevelsDef DEF Outcome
<1>2. C = [n \in 0..MaxDepth |-> IF n = 0 THEN map ELSE ResolveLevel(C[n - 1], larger)]
  BY LevelsDef DEF Outcome
<1> HIDE DEF L, C
<1>3. 0 \in S
  BY <1>1, <1>2, DepthAssumption DEF Outcome
<1>4. ASSUME NEW m \in Outcome, ResolveLevel(m, held) # Failed
      PROVE  ResolveLevel(m, held) = ResolveLevel(m, larger)
  <2>1. m \in StoredMap /\ m \in DataMap /\ m # Failed
    BY <1>4, StoredMapType DEF ResolveLevel, Outcome
  <2>2. CASE ~m.child
    BY <2>1, <2>2 DEF ResolveLevel
  <2>3. CASE m.child
    <3>1. ~ \E i \in 1..Len(m.infos) : held[m.infos[i]] = NoChunk
      BY <1>4, <2>1, <2>3 DEF ResolveLevel, Parent
    <3>2. ASSUME NEW i \in 1..Len(m.infos)
          PROVE  held[m.infos[i]] = larger[m.infos[i]] /\ larger[m.infos[i]] # NoChunk
      <4>1. m.infos[i] \in Addr
        BY <2>1 DEF DataMap
      <4> QED
        BY <3>1, <4>1
    <3>3. Chunks(m, held) = Chunks(m, larger)
      BY <3>2 DEF Chunks
    <3>4. Parent(m, held) = Parent(m, larger)
      BY <3>1, <3>2, <3>3 DEF Parent
    <3> QED
      BY <2>1, <2>3, <3>4 DEF ResolveLevel
  <2> QED
    BY <2>2, <2>3
<1>5. ASSUME NEW n \in 0..MaxDepth, n \in S, n < MaxDepth
      PROVE  n + 1 \in S
  <2>1. n + 1 \in 0..MaxDepth /\ n + 1 # 0 /\ (n + 1) - 1 = n
    BY <1>5, DepthAssumption
  <2>2. L[n + 1] = ResolveLevel(L[n], held) /\ C[n + 1] = ResolveLevel(C[n], larger)
    BY <1>1, <1>2, <2>1
  <2>3. L[n + 1] \in Outcome
    BY <1>5, <2>2, ResolveLevelType
  <2>4. L[n + 1] # Failed => L[n] # Failed
    BY <2>2 DEF ResolveLevel
  <2>5. L[n + 1] # Failed => L[n + 1] = C[n + 1]
    BY <1>4, <1>5, <2>2, <2>4
  <2> QED
    BY <2>1, <2>3, <2>5
<1>6. L[MaxDepth] # Failed => L[MaxDepth] = C[MaxDepth]
  <2>1. MaxDepth \in S
    <3> HIDE DEF S
    <3>1. \A n \in 0..MaxDepth : n \in S
      BY <1>3, <1>5, UpTo, DepthAssumption
    <3> QED
      BY <3>1, DepthAssumption
  <2> QED
    BY <2>1
<1> QED
  BY <1>6 DEF get_root_data_map, L, C

\* The network holds, under every address, the blob that hashes to it.
LEMMA ContentType ==
  /\ Content \in Store
  /\ \A b \in Bytes : Content[address_of(b)] = b
<1>1. ASSUME NEW a \in Addr, NEW b \in Bytes, address_of(b) = a
      PROVE  Content[a] = b
  <2>1. \E c \in Bytes : address_of(c) = a
    BY <1>1
  <2> DEFINE d == CHOOSE c \in Bytes : address_of(c) = a
  <2>2. d \in Bytes /\ address_of(d) = a
    BY <2>1
  <2>3. Content[a] = d
    BY <2>1 DEF Content
  <2> HIDE DEF d
  <2> QED
    BY <1>1, <2>2, <2>3, HashAssumption
<1>2. ASSUME NEW a \in Addr PROVE Content[a] \in Bytes \cup {NoChunk}
  BY <1>1 DEF Content
<1> QED
  BY <1>1, <1>2, HashAssumption DEF Content, Store

-----------------------------------------------------------------------------
(* The publisher: what FixtureSource serves. *)

\* Index inserts every blob under its address, and nothing else.
LEMMA IndexFacts ==
  ASSUME NEW blobs \in SUBSET Bytes
  PROVE  /\ DOMAIN Index(blobs) = {address_of(b) : b \in blobs}
         /\ \A b \in blobs : Index(blobs)[address_of(b)] = b
         /\ \A a \in DOMAIN Index(blobs) : Index(blobs)[a] \in blobs /\ address_of(Index(blobs)[a]) = a
<1>1. DOMAIN Index(blobs) = {address_of(b) : b \in blobs}
  BY DEF Index
<1>2. ASSUME NEW a \in DOMAIN Index(blobs)
      PROVE  Index(blobs)[a] \in blobs /\ address_of(Index(blobs)[a]) = a
  <2>1. \E b \in blobs : address_of(b) = a
    BY <1>1
  <2>2. Index(blobs)[a] = CHOOSE b \in blobs : address_of(b) = a
    BY <1>1 DEF Index
  <2> QED
    BY <2>1, <2>2
<1>3. ASSUME NEW b \in blobs PROVE Index(blobs)[address_of(b)] = b
  <2>1. address_of(b) \in DOMAIN Index(blobs)
    BY <1>1
  <2>2. Index(blobs)[address_of(b)] \in blobs
        /\ address_of(Index(blobs)[address_of(b)]) = address_of(b)
    BY <1>2, <2>1
  <2> QED
    BY <2>2, HashAssumption
<1> QED
  BY <1>1, <1>2, <1>3

\* The files that can be published.
Publishable == {c \in Files : new(c) # Failed}

\* FixtureSource::new serves the chunks and the data map, each at its address.
LEMMA SourceFacts ==
  ASSUME NEW c \in Publishable
  PROVE  /\ addresses(new(c)) \subseteq Addr
         /\ \A a \in addresses(new(c)) : get(new(c), a) \in Bytes /\ address_of(get(new(c), a)) = a
         /\ \A b \in encrypt(c).chunks :
              address_of(b) \in addresses(new(c)) /\ get(new(c), address_of(b)) = b
         /\ new(c).data_map_address \in addresses(new(c))
         /\ get(new(c), new(c).data_map_address) = to_vec(encrypt(c).map)
<1> DEFINE serialized == to_vec(encrypt(c).map)
           blobs == encrypt(c).chunks \cup {serialized}
<1>1. c \in Files /\ encrypt(c) # Failed /\ new(c) = Source(blobs, serialized)
  BY DEF Publishable, new
<1>2. blobs \in SUBSET Bytes
  BY <1>1, EncryptAssumption
<1> HIDE DEF serialized
<1>3. /\ addresses(new(c)) = DOMAIN Index(blobs)
      /\ new(c).chunks = Index(blobs)
      /\ new(c).data_map_address = address_of(serialized)
  BY <1>1 DEF Source, addresses
<1>4. /\ \A b \in blobs : address_of(b) \in addresses(new(c))
      /\ \A a \in addresses(new(c)) : \E b \in blobs : a = address_of(b)
      /\ \A b \in blobs : get(new(c), address_of(b)) = b
  <2> HIDE DEF blobs
  <2>1. /\ DOMAIN Index(blobs) = {address_of(b) : b \in blobs}
        /\ \A b \in blobs : Index(blobs)[address_of(b)] = b
    BY <1>2, IndexFacts
  <2>2. \A b \in blobs : address_of(b) \in addresses(new(c))
    BY <1>3, <2>1
  <2>3. \A b \in blobs : get(new(c), address_of(b)) = b
    BY <1>3, <2>1, <2>2 DEF get
  <2> QED
    BY <1>3, <2>1, <2>2, <2>3
<1>5. ASSUME NEW a \in addresses(new(c))
      PROVE  a \in Addr /\ get(new(c), a) \in Bytes /\ address_of(get(new(c), a)) = a
  <2> HIDE DEF blobs
  <2> QED
    BY <1>2, <1>4, HashAssumption
<1> QED
  BY <1>3, <1>4, <1>5 DEF serialized

\* Two sources serve the same blob at an address they share.
LEMMA SourcesAgree ==
  ASSUME NEW c \in Publishable, NEW d \in Publishable,
         NEW a \in addresses(new(c)) \cap addresses(new(d))
  PROVE  get(new(c), a) = get(new(d), a)
BY SourceFacts, HashAssumption

\* What decrypts with some store decrypts to the same with a larger one.
LEMMA DecryptedInLarger ==
  ASSUME NEW m \in StoredMap, NEW held \in Store, NEW larger \in Store,
         \A a \in Addr : held[a] # NoChunk => held[a] = larger[a],
         Decrypted(m, held) # Failed
  PROVE  Decrypted(m, larger) = Decrypted(m, held)
<1> DEFINE root == get_root_data_map(m, held)
<1>1. /\ root # Failed
      /\ ~ \E i \in 1..Len(root.infos) : held[root.infos[i]] = NoChunk
      /\ Decrypted(m, held) = decrypt(root, Chunks(root, held))
  BY DEF Decrypted
<1>2. get_root_data_map(m, larger) = root
  BY <1>1, RootInLarger
<1>3. root \in DataMap
  BY <1>1, RootType, StoredMapType DEF Outcome
<1> HIDE DEF root
<1>4. ASSUME NEW i \in 1..Len(root.infos)
      PROVE  larger[root.infos[i]] = held[root.infos[i]] /\ held[root.infos[i]] # NoChunk
  <2>1. root.infos[i] \in Addr
    BY <1>3 DEF DataMap
  <2> QED
    BY <1>1, <2>1
<1>5. Chunks(root, larger) = Chunks(root, held)
  BY <1>4 DEF Chunks
<1> QED
  BY <1>1, <1>2, <1>4, <1>5 DEF Decrypted

\* Whoever holds all that the source serves reads the file back, whatever else
\* the store holds.
LEMMA SourceIsReadable ==
  ASSUME NEW c \in Publishable, NEW held \in Store,
         \A a \in addresses(new(c)) : held[a] = get(new(c), a)
  PROVE  ReadBack(held, new(c).data_map_address) = c
<1> DEFINE m == encrypt(c).map
           own == Holding(Index(encrypt(c).chunks))
<1>1. /\ c \in Bytes /\ m \in DataMap /\ to_vec(m) \in Bytes /\ decode_map(to_vec(m)) = m
      /\ Decrypted(m, own) = c
      /\ encrypt(c).chunks \in SUBSET Bytes
  BY EncryptAssumption DEF Publishable, new
<1>2. m \in StoredMap
  BY <1>1, DecoderAssumption DEF StoredMap
<1>3. own \in Store
  <2>1. \A a \in DOMAIN Index(encrypt(c).chunks) : Index(encrypt(c).chunks)[a] \in Bytes
    BY <1>1, IndexFacts
  <2> QED
    BY <2>1 DEF Holding, Store
<1>4. ASSUME NEW a \in Addr, own[a] # NoChunk PROVE own[a] = held[a]
  <2>1. a \in DOMAIN Index(encrypt(c).chunks) /\ own[a] = Index(encrypt(c).chunks)[a]
    BY <1>4 DEF Holding
  <2> HIDE DEF own
  <2>2. \A i \in DOMAIN Index(encrypt(c).chunks) :
          /\ Index(encrypt(c).chunks)[i] \in encrypt(c).chunks
          /\ address_of(Index(encrypt(c).chunks)[i]) = i
    BY <1>1, IndexFacts
  <2>3. own[a] \in encrypt(c).chunks /\ address_of(own[a]) = a
    BY <2>1, <2>2
  <2> QED
    BY <2>3, SourceFacts
<1>5. held[new(c).data_map_address] = to_vec(m)
  BY SourceFacts
<1> HIDE DEF m, own
<1>6. Decrypted(m, held) = c
  BY <1>1, <1>2, <1>3, <1>4, DecryptedInLarger, DecoderAssumption
<1> QED
  BY <1>1, <1>5, <1>6, DecoderAssumption DEF ReadBack

\* A file that FixtureSource has published is what its address stands for in
\* the network: the reference that the browser's result is compared with.
THEOREM FixtureIsPublished ==
  ASSUME NEW c \in Publishable
  PROVE  Published(new(c).data_map_address) = c
<1>1. Content \in Store /\ \A a \in addresses(new(c)) : Content[a] = get(new(c), a)
  BY ContentType, SourceFacts
<1>2. ReadBack(Content, new(c).data_map_address) = c
  BY <1>1, SourceIsReadable
<1> QED
  BY <1>2 DEF ReadBack, Decrypted, Published, PublishedMap
=============================================================================
