--------------------------- MODULE RetrievalProofs ---------------------------
(***************************************************************************)
(* Theorems about Retrieval, for every network, every proxy and every      *)
(* number of workers.                                                      *)
(***************************************************************************)
EXTENDS Retrieval, SelfEncryptionProofs, FiniteSetTheorems, TLAPS

\* The index a worker takes is one of those left.
LEMMA MinOfIndices ==
  ASSUME NEW S \in SUBSET Nat, S # {}
  PROVE  Min(S) \in S
BY LeastNatural DEF Min

\* A non-empty set of indices has at least one element.
LEMMA SomeIndex ==
  ASSUME NEW n \in Nat, NEW S \in SUBSET (1..n)
  PROVE  /\ Cardinality(S) \in Nat
         /\ S # {} <=> 1 <= Cardinality(S)
<1>1. 1 \in Int /\ n \in Int
  OBVIOUS
<1>2. IsFiniteSet(1..n)
  BY <1>1, FS_Interval, Zenon
<1>3. IsFiniteSet(S)
  BY <1>2, FS_Subset, Zenon
<1>4. Cardinality(S) \in Nat
  BY <1>3, FS_CardinalityType, Zenon
<1>5. Cardinality(S) = 0 <=> S = {}
  BY <1>3, FS_EmptySet, Zenon
<1>6. \A k \in Nat : k # 0 <=> 1 <= k
  OBVIOUS
<1> QED
  BY <1>4, <1>5, <1>6, Zenon

-----------------------------------------------------------------------------
(* Type correctness. *)

\* The loop counter is below its limit while a round is under way.
RoundsLeft == pc \in {"fetch", "advance"} => round < MAX_ROUNDS

\* The wasm object is freed only on the way out of retrieve().
FreedAtEnd == freed => pc \in {"returned", "threw"}

TypeInv == TypeOK /\ Begun /\ Quiet /\ FirstWorker /\ RoundsLeft /\ FreedAtEnd

\* Missing chunks are entries of the map.
LEMMA MissingType ==
  ASSUME NEW m \in DataMap
  PROVE  Missing(m) \subseteq 1..Len(m.infos) /\ Len(m.infos) \in Nat
BY DEF Missing, DataMap

\* A download that was just started, for any address, has the types.
LEMMA FreshTypeInv == address \in Addr /\ Fresh => TypeInv
<1>1. EmptyMap \in DataMap
  BY DEF EmptyMap, DataMap
<1>2. ASSUME address \in Addr, Fresh PROVE TypeOK
  <2>1. map \in DataMap /\ todo \subseteq 1..Len(map.infos)
    BY <1>1, <1>2 DEF Fresh
  <2>2. task \in [Worker -> {Done, Ready} \cup 1..Len(map.infos)]
    BY <1>2 DEF Fresh
  <2>3. round \in 0..MAX_ROUNDS
    BY <1>2 DEF Fresh, MAX_ROUNDS
  <2> QED
    BY <1>2, <2>1, <2>2, <2>3 DEF Fresh, TypeOK
<1> QED
  BY <1>2 DEF Fresh, TypeInv, Begun, Quiet, FirstWorker, RoundsLeft, FreedAtEnd

\* The initial state has the types.
LEMMA InitTypeInv == Init => TypeInv
BY FreshTypeInv, RetrievalAssumption DEF Init

\* A step that leaves the download as it is, or that no action describes.
LEMMA StutterTypeInv == TypeInv /\ UNCHANGED vars => TypeInv'
BY DEF TypeInv, TypeOK, Begun, Quiet, FirstWorker, RoundsLeft, FreedAtEnd, vars

\* begin() stores a map that some blob holds, and starts with an empty cache.
LEMMA BeginTypeInv ==
  ASSUME TypeInv, NEW b, Begin(b)
  PROVE  TypeInv'
<1> USE DEF TypeInv
<1>1. decode_map(b) \in StoredMap /\ decode_map(b) \in DataMap
  BY StoredMapType DEF Begin, begin_accepts, StoredMap
<1>2. TypeOK'
  BY <1>1 DEF Begin, TypeOK, pool, DataMap, Quiet
<1>3. (Begun /\ Quiet /\ FirstWorker /\ RoundsLeft /\ FreedAtEnd)'
  BY <1>1 DEF Begin, pool, Begun, Quiet, FirstWorker, RoundsLeft, FreedAtEnd
<1> QED
  BY <1>2, <1>3

\* A retrieval that does not begin keeps the types.
LEMMA BeginFailsTypeInv ==
  ASSUME TypeInv, NEW b, BeginFails(b)
  PROVE  TypeInv'
BY DEF TypeInv, TypeOK, Begun, Quiet, FirstWorker, RoundsLeft, FreedAtEnd, BeginFails, machine, pool

\* Leaving the round loop keeps the types.
LEMMA LeaveLoopTypeInv ==
  ASSUME TypeInv, LeaveLoop
  PROVE  TypeInv'
BY DEF TypeInv, TypeOK, Begun, Quiet, FirstWorker, RoundsLeft, FreedAtEnd, LeaveLoop, Throw, machine, pool

\* A round starts with the indices of missing chunks to take.
LEMMA StartRoundTypeInv ==
  ASSUME TypeInv, StartRound
  PROVE  TypeInv'
<1> USE DEF TypeInv
<1>1. map \in DataMap
  BY DEF TypeOK
<1>2. /\ required_addresses \subseteq 1..Len(map.infos)
      /\ Cardinality(required_addresses) \in Nat
      /\ required_addresses # {} <=> 1 <= Cardinality(required_addresses)
  BY <1>1, MissingType, SomeIndex DEF required_addresses
<1>3. TypeOK'
  BY <1>2 DEF TypeOK, StartRound, machine
<1>4. Begun' /\ RoundsLeft' /\ FreedAtEnd'
  BY DEF Begun, RoundsLeft, FreedAtEnd, StartRound, machine
<1>5. Quiet'
  <2>1. CASE required_addresses = {}
    <3>1. Cardinality(required_addresses) = 0
      BY <2>1, FS_EmptySet
    <3>2. \A w \in Worker : ~(w <= Cardinality(required_addresses))
      BY <3>1, RetrievalAssumption DEF Worker
    <3> QED
      BY <2>1, <3>2 DEF StartRound, Quiet
  <2>2. CASE required_addresses # {}
    BY <2>2 DEF StartRound, Quiet
  <2> QED
    BY <2>1, <2>2
<1>6. FirstWorker'
  <2>1. 1 \in Worker
    BY RetrievalAssumption DEF Worker
  <2> QED
    BY <1>2, <2>1 DEF StartRound, FirstWorker, Ready, Done
<1> QED
  BY <1>3, <1>4, <1>5, <1>6

\* A round that rejected a chunk ends the retrieval, with the types kept.
LEMMA FetchFailsTypeInv ==
  ASSUME TypeInv, FetchFails
  PROVE  TypeInv'
BY DEF TypeInv, TypeOK, Begun, Quiet, FirstWorker, RoundsLeft, FreedAtEnd, FetchFails, Throw, machine, pool

\* The end of a round keeps the types.
LEMMA FetchDoneTypeInv ==
  ASSUME TypeInv, FetchDone
  PROVE  TypeInv'
<1>1. 1 \in Worker
  BY RetrievalAssumption DEF Worker
<1> QED
  BY <1>1 DEF TypeInv, TypeOK, Begun, Quiet, FirstWorker, RoundsLeft, FreedAtEnd, FetchDone, machine, pool

\* advance() replaces the map by a root map, or fails.
LEMMA AdvanceTypeInv ==
  ASSUME TypeInv, Advance
  PROVE  TypeInv'
<1> USE DEF TypeInv
<1> DEFINE root == IF advance_resolves THEN get_root_data_map(map, cache) ELSE map
<1>1. root = Failed \/ root \in StoredMap
  BY RootType DEF Advance, Begun, TypeOK, Outcome, Store
<1>2. root # Failed => root \in DataMap /\ root \in StoredMap
  BY <1>1, StoredMapType
<1>3. todo = {} /\ \A w \in Worker : task[w] = Done
  BY DEF Advance, Quiet
<1>4. round' \in 0..MAX_ROUNDS
  BY DEF Advance, TypeOK, RoundsLeft, MAX_ROUNDS
<1>5. map' \in DataMap /\ (pc' # "threw" => map' \in StoredMap)
  BY <1>2 DEF Advance, TypeOK, Begun, Throw
<1>6. root_resolved' \in BOOLEAN /\ freed' \in BOOLEAN /\ pc' \in {"loop", "threw"}
  BY DEF Advance, Throw, TypeOK, advance_resolves
<1>7. UNCHANGED <<address, cache, todo, task, rejected, result>>
  BY DEF Advance, pool
<1>8. todo' = {} /\ task' \in [Worker -> {Done}]
  BY <1>3, <1>7 DEF TypeOK
<1>9. TypeOK'
  BY <1>4, <1>5, <1>6, <1>7, <1>8 DEF TypeOK
<1>10. FreedAtEnd'
  BY DEF Advance, Throw, FreedAtEnd
<1> QED
  BY <1>5, <1>6, <1>8, <1>9, <1>10 DEF Begun, Quiet, FirstWorker, RoundsLeft

\* finish() returns content or an error.
LEMMA FinishTypeInv ==
  ASSUME TypeInv, Finish
  PROVE  TypeInv'
<1> USE DEF TypeInv
<1>1. is_complete => decrypt(map, Chunks(map, cache)) \in Bytes \cup {Failed}
  <2>1. SUFFICES ASSUME is_complete
                 PROVE  decrypt(map, Chunks(map, cache)) \in Bytes \cup {Failed}
    OBVIOUS
  <2>2. map \in StoredMap /\ map \in DataMap /\ cache \in Store
    BY DEF Finish, Begun, TypeOK, Store
  <2>3. ~ \E i \in 1..Len(map.infos) : cache[map.infos[i]] = NoChunk
    BY <2>1 DEF is_complete, required_addresses, Missing
  <2>4. Chunks(map, cache) \in [1..Len(map.infos) -> Bytes]
    BY <2>2, <2>3, ChunksType
  <2> QED
    BY <2>2, <2>4, DecryptAssumption
<1>2. result' \in Bytes \cup {NoChunk}
  BY <1>1 DEF Finish, TypeOK
<1>3. pc' \in {"returned", "threw"} /\ freed' = TRUE
  BY DEF Finish
<1>4. UNCHANGED <<address, map, root_resolved, cache, round, todo, task, rejected>>
  BY DEF Finish, machine, pool
<1>5. TypeOK'
  BY <1>2, <1>3, <1>4 DEF TypeOK
<1> QED
  BY <1>3, <1>4, <1>5 DEF Finish, Begun, Quiet, FirstWorker, RoundsLeft, FreedAtEnd

\* A worker takes an index that is left.
LEMMA TakeTypeInv ==
  ASSUME TypeInv, NEW w \in Worker, Take(w)
  PROVE  TypeInv'
<1> USE DEF TypeInv
<1>1. todo \in SUBSET Nat
  BY DEF TypeOK, DataMap
<1>2. todo # {} => Min(todo) \in todo /\ Min(todo) # Done
  BY <1>1, MinOfIndices DEF TypeOK, DataMap, Done
<1>3. TypeOK'
  BY <1>2 DEF Take, TypeOK, machine
<1>4. Begun' /\ RoundsLeft' /\ FreedAtEnd'
  BY DEF Take, Begun, RoundsLeft, FreedAtEnd, machine
<1>5. Quiet'
  BY DEF Take, Quiet, Ready, Done
<1>6. FirstWorker'
  <2>1. 1 \in Worker
    BY RetrievalAssumption DEF Worker
  <2> QED
    BY <1>2, <2>1 DEF Take, FirstWorker, TypeOK
<1> QED
  BY <1>3, <1>4, <1>5, <1>6

\* supply() stores a blob under an address of the map.
LEMMA SupplyTypeInv ==
  ASSUME TypeInv, NEW w \in Worker, NEW b, Supply(w, b)
  PROVE  TypeInv'
<1> USE DEF TypeInv
<1>1. TypeOK'
  BY DEF Supply, TypeOK
<1> QED
  BY <1>1 DEF Supply, TypeOK, Begun, Quiet, FirstWorker, RoundsLeft, FreedAtEnd, Ready, Done

\* A rejected chunk changes no stored blob.
LEMMA RejectTypeInv ==
  ASSUME TypeInv, NEW w \in Worker, NEW b, Reject(w, b)
  PROVE  TypeInv'
<1> USE DEF TypeInv
<1>1. TypeOK'
  BY DEF Reject, TypeOK, machine
<1> QED
  BY <1>1 DEF Reject, TypeOK, Begun, Quiet, FirstWorker, RoundsLeft, FreedAtEnd, Done, machine

\* Every step of the download preserves the types.
LEMMA NextTypeInv == TypeInv /\ [Next]_vars => TypeInv'
<1> SUFFICES ASSUME TypeInv, [Next]_vars
             PROVE  TypeInv'
  OBVIOUS
<1>1. CASE UNCHANGED vars
  BY <1>1, StutterTypeInv
<1>2. CASE Main
  BY <1>2, BeginTypeInv, BeginFailsTypeInv, LeaveLoopTypeInv, StartRoundTypeInv,
     FetchFailsTypeInv, FetchDoneTypeInv, AdvanceTypeInv, FinishTypeInv DEF Main
<1>3. ASSUME NEW w \in Worker, RunWorker(w)
      PROVE  TypeInv'
  BY <1>3, TakeTypeInv, SupplyTypeInv, RejectTypeInv DEF RunWorker
<1> QED
  BY <1>1, <1>2, <1>3 DEF Next

\* The variables of the download have their types in every reachable state, for
\* every network, every proxy and every number of workers.
THEOREM TypeCorrect == Spec => []TypeOK
<1>1. TypeInv => TypeOK
  BY DEF TypeInv
<1> QED
  BY <1>1, InitTypeInv, NextTypeInv, PTL DEF Spec

-----------------------------------------------------------------------------
(* Integrity: what the proxy answers cannot change what is returned. *)

\* Only supply() writes to the cache, and it verifies what it writes.
LEMMA NextCacheSound == TypeInv /\ CacheSound /\ [Next]_vars => CacheSound'
<1> SUFFICES ASSUME TypeInv, CacheSound, [Next]_vars
             PROVE  CacheSound'
  OBVIOUS
<1>1. CASE UNCHANGED cache
  BY <1>1 DEF CacheSound
<1>2. ASSUME NEW w \in Worker, NEW b, Supply(w, b)
      PROVE  CacheSound'
  <2> DEFINE a == map.infos[task[w]]
  <2>1. a \in Addr /\ b \in Bytes /\ address_of(b) = a
    BY <1>2 DEF TypeInv, TypeOK, DataMap, Supply, supply_accepts, verify_chunk, Ready, Done
  <2>2. Content[a] = b
    BY <2>1, ContentType
  <2>3. cache' = [cache EXCEPT ![a] = b]
    BY <1>2 DEF Supply
  <2> HIDE DEF a
  <2> QED
    BY <2>1, <2>2, <2>3 DEF CacheSound, TypeInv, TypeOK
<1>3. CASE Main
  BY <1>1, <1>3 DEF Main, Begin, BeginFails, LeaveLoop, StartRound, FetchFails, FetchDone,
                    Advance, Finish, machine
<1>4. ASSUME NEW w \in Worker, RunWorker(w)
      PROVE  CacheSound'
  BY <1>1, <1>2, <1>4 DEF RunWorker, Take, Reject, machine
<1> QED
  BY <1>1, <1>3, <1>4 DEF Next, vars

\* begin() starts from the map stored at the address, and advance() replaces
\* it by the root map published there.
LEMMA NextMapSound == TypeInv /\ CacheSound /\ MapSound /\ [Next]_vars => MapSound'
<1> SUFFICES ASSUME TypeInv, CacheSound, MapSound, [Next]_vars
             PROVE  MapSound'
  OBVIOUS
<1>1. CASE UNCHANGED <<address, map, root_resolved>> /\ pc # "map"
           /\ (pc = "threw" => pc' = "threw")
  BY <1>1 DEF MapSound
<1>2. CASE pc' = "threw"
  BY <1>2 DEF MapSound
<1>3. ASSUME NEW b, Begin(b) PROVE MapSound'
  <2>1. b \in Bytes /\ address_of(b) = address /\ decode_map(b) # Failed
    BY <1>3 DEF Begin, begin_accepts, verify_chunk
  <2>2. Content[address] = b /\ b # NoChunk /\ decode_map(b) \in StoredMap
    BY <2>1, ContentType, DecoderAssumption DEF StoredMap
  <2>3. ~decode_map(b).child => PublishedMap(address) = decode_map(b)
    BY <2>1, <2>2, RootOfRoot, ContentType DEF PublishedMap
  <2>4. address' = address /\ map' = decode_map(b) /\ root_resolved' = ~decode_map(b).child
    BY <1>3 DEF Begin
  <2> QED
    BY <2>1, <2>2, <2>3, <2>4 DEF MapSound
<1>4. CASE Advance
  <2>1. CASE ~advance_resolves
    <3>1. map' = map /\ root_resolved' = root_resolved /\ address' = address /\ pc = "advance"
      BY <1>4, <2>1 DEF Advance, TypeInv, TypeOK
    <3> QED
      BY <1>1, <3>1
  <2>2. CASE advance_resolves
    <3> DEFINE root == get_root_data_map(map, cache)
    <3>1. CASE root = Failed
      BY <1>2, <1>4, <2>2, <3>1 DEF Advance, Throw
    <3>2. CASE root # Failed
      <4>1. pc = "advance" /\ ~root_resolved
        BY <1>4, <2>2 DEF Advance, advance_resolves
      <4>2. map \in StoredMap /\ cache \in Store /\ map = decode_map(Content[address])
        BY <4>1 DEF TypeInv, TypeOK, Begun, Store, MapSound
      <4>3. root = get_root_data_map(map, Content)
        BY <3>2, <4>2, RootInLarger, ContentType DEF CacheSound
      <4>4. root = PublishedMap(address)
        BY <4>1, <4>2, <4>3 DEF PublishedMap, MapSound
      <4>5. map' = root /\ root_resolved' = TRUE /\ address' = address
        BY <1>4, <2>2, <3>2 DEF Advance
      <4> HIDE DEF root
      <4> QED
        BY <4>1, <4>4, <4>5 DEF MapSound
    <3> QED
      BY <3>1, <3>2
  <2> QED
    BY <2>1, <2>2
<1>5. CASE UNCHANGED vars
  BY <1>5 DEF MapSound, vars
<1>6. CASE Main
  BY <1>1, <1>2, <1>3, <1>4, <1>6 DEF Main, BeginFails, LeaveLoop, StartRound, FetchFails,
                    FetchDone, Finish, machine, Throw
<1>7. ASSUME NEW w \in Worker, RunWorker(w)
      PROVE  MapSound'
  <2>1. UNCHANGED <<address, map, root_resolved, pc>>
    BY <1>7 DEF RunWorker, Take, Supply, Reject, machine
  <2> QED
    BY <2>1 DEF MapSound
<1> QED
  BY <1>5, <1>6, <1>7 DEF Next

\* finish() decrypts the published root map with verified chunks.
LEMMA NextResult ==
  TypeInv /\ CacheSound /\ MapSound /\ ResultIsPublished /\ [Next]_vars => ResultIsPublished'
<1> SUFFICES ASSUME TypeInv, CacheSound, MapSound, ResultIsPublished, [Next]_vars
             PROVE  ResultIsPublished'
  OBVIOUS
<1>1. CASE UNCHANGED <<address, pc, result>>
  BY <1>1 DEF ResultIsPublished
<1>2. CASE pc' # "returned"
  BY <1>2 DEF ResultIsPublished
<1>3. CASE Finish /\ pc' = "returned"
  <2>1. is_complete /\ result' = decrypt(map, Chunks(map, cache)) /\ address' = address
        /\ pc = "finish"
    BY <1>3 DEF Finish
  <2>2. map = PublishedMap(address) /\ map \in StoredMap
    BY <2>1 DEF is_complete, MapSound, TypeInv, Begun
  <2>3. map # Failed /\ map \in DataMap
    BY <2>2, StoredMapType
  <2>4. ASSUME NEW i \in 1..Len(map.infos)
        PROVE  cache[map.infos[i]] = Content[map.infos[i]] /\ Content[map.infos[i]] # NoChunk
    <3>1. map.infos[i] \in Addr
      BY <2>3 DEF DataMap
    <3>2. cache[map.infos[i]] # NoChunk
      BY <2>1 DEF is_complete, required_addresses, Missing
    <3> QED
      BY <3>1, <3>2 DEF CacheSound
  <2>5. Chunks(map, cache) = Chunks(map, Content)
    BY <2>4 DEF Chunks
  <2>6. Published(address) = decrypt(map, Chunks(map, Content))
    BY <2>2, <2>3, <2>4 DEF Published
  <2> QED
    BY <2>1, <2>5, <2>6 DEF ResultIsPublished
<1>4. CASE Main
  BY <1>2, <1>3, <1>4 DEF Main, Begin, BeginFails, LeaveLoop, StartRound, FetchFails,
                    FetchDone, Advance, Throw
<1>5. ASSUME NEW w \in Worker, RunWorker(w)
      PROVE  ResultIsPublished'
  BY <1>1, <1>5 DEF RunWorker, Take, Supply, Reject
<1> QED
  BY <1>1, <1>4, <1>5 DEF Next, vars

IntegrityInv == TypeInv /\ CacheSound /\ MapSound /\ ResultIsPublished

\* Integrity holds before the first answer.
LEMMA FreshIntegrity == address \in Addr /\ Fresh => IntegrityInv
<1>1. Fresh => CacheSound
  BY DEF Fresh, CacheSound
<1>2. Fresh => MapSound /\ ResultIsPublished
  BY DEF Fresh, MapSound, ResultIsPublished
<1> QED
  BY <1>1, <1>2, FreshTypeInv DEF IntegrityInv

\* The integrity invariant holds initially.
LEMMA InitIntegrity == Init => IntegrityInv
BY FreshIntegrity, RetrievalAssumption DEF Init

\* Integrity survives every step.
LEMMA NextIntegrity == IntegrityInv /\ [Next]_vars => IntegrityInv'
BY NextTypeInv, NextCacheSound, NextMapSound, NextResult DEF IntegrityInv

\* Whatever the proxy answers, in whatever order and to however many workers,
\* the cache holds only the blobs that hash to their addresses.
THEOREM CacheIntegrity == Spec => []CacheSound
<1>1. IntegrityInv => CacheSound
  BY DEF IntegrityInv
<1> QED
  BY <1>1, InitIntegrity, NextIntegrity, PTL DEF Spec

\* Whatever the proxy answers, a download that returns anything returns exactly
\* the content published at the address.
THEOREM ResultIntegrity == Spec => []ResultIsPublished
<1>1. IntegrityInv => ResultIsPublished
  BY DEF IntegrityInv
<1> QED
  BY <1>1, InitIntegrity, NextIntegrity, PTL DEF Spec

-----------------------------------------------------------------------------
(* Progress: what the page shows while a download runs. *)

Held(m, held) == {i \in 1..Len(m.infos) : held[m.infos[i]] # NoChunk}

\* Sets of indices of one map: how many, and what a larger set says.
LEMMA IndexCount ==
  ASSUME NEW n \in Nat, NEW S \in SUBSET (1..n), NEW T \in SUBSET S
  PROVE  /\ Cardinality(S) \in Nat /\ Cardinality(T) \in Nat
         /\ Cardinality(T) <= Cardinality(S)
         /\ Cardinality(S) = Cardinality(T) => S = T
         /\ Cardinality(S) <= n
         /\ Cardinality(S) = n => S = 1..n
<1>1. 1 \in Int /\ n \in Int
  OBVIOUS
<1>2. IsFiniteSet(1..n) /\ Cardinality(1..n) = IF 1 > n THEN 0 ELSE n - 1 + 1
  BY <1>1, FS_Interval, Zenon
<1>3. Cardinality(1..n) = n
  BY <1>2
<1>4. /\ IsFiniteSet(S) /\ Cardinality(S) <= Cardinality(1..n)
      /\ Cardinality(1..n) = Cardinality(S) => 1..n = S
  BY <1>2, FS_Subset, Zenon
<1>5. /\ IsFiniteSet(T) /\ Cardinality(T) <= Cardinality(S)
      /\ Cardinality(S) = Cardinality(T) => S = T
  BY <1>4, FS_Subset, Zenon
<1>6. Cardinality(S) \in Nat /\ Cardinality(T) \in Nat
  BY <1>4, <1>5, FS_CardinalityType, Zenon
<1> QED
  BY <1>3, <1>4, <1>5, <1>6, Zenon

\* The cache only gains chunks, and one that is new to it is an entry of the map.
LEMMA CacheGrows ==
  ASSUME IntegrityInv, [Next]_vars
  PROVE  \/ cache' = cache
         \/ map' = map /\ \E i \in 1..Len(map.infos) :
              /\ cache[map.infos[i]] = NoChunk
              /\ cache' = [cache EXCEPT ![map.infos[i]] = Content[map.infos[i]]]
              /\ Content[map.infos[i]] # NoChunk
              /\ map.infos[i] \in Addr
<1> USE DEF IntegrityInv, TypeInv
<1>1. ASSUME NEW w \in Worker, NEW b, Supply(w, b), cache' # cache
      PROVE  map' = map /\ \E i \in 1..Len(map.infos) :
               /\ cache[map.infos[i]] = NoChunk
               /\ cache' = [cache EXCEPT ![map.infos[i]] = Content[map.infos[i]]]
               /\ Content[map.infos[i]] # NoChunk
               /\ map.infos[i] \in Addr
  <2> DEFINE i == task[w]
             a == map.infos[i]
  <2>1. i \in 1..Len(map.infos) /\ map.infos \in Seq(Addr)
    BY <1>1 DEF Supply, TypeOK, Done, Ready, DataMap
  <2>2. a \in Addr
    BY <2>1
  <2>3. b \in Bytes /\ address_of(b) = a /\ cache' = [cache EXCEPT ![a] = b] /\ map' = map
    BY <1>1 DEF Supply, supply_accepts, verify_chunk
  <2>4. Content[a] = b /\ b # NoChunk
    BY <2>3, ContentType, DecoderAssumption
  <2>5. cache[a] = NoChunk
    <3> HIDE DEF a
    <3>1. cache \in [Addr -> Bytes \cup {NoChunk}]
      BY DEF TypeOK
    <3> SUFFICES ASSUME cache[a] # NoChunk PROVE cache' = cache
      BY <1>1
    <3>2. cache[a] = b
      BY <2>2, <2>4 DEF CacheSound
    <3> QED
      BY <2>2, <2>3, <3>1, <3>2
  <2> QED
    BY <2>1, <2>2, <2>3, <2>4, <2>5
<1>2. CASE UNCHANGED vars
  BY <1>2 DEF vars
<1>3. CASE Main
  BY <1>3 DEF Main, Begin, BeginFails, LeaveLoop, StartRound, FetchFails, FetchDone,
              Advance, Finish, machine
<1>4. ASSUME NEW w \in Worker, RunWorker(w)
      PROVE  cache' = cache \/ \E b : Supply(w, b)
  BY <1>4 DEF RunWorker, Take, Reject, machine
<1> QED
  BY <1>1, <1>2, <1>3, <1>4 DEF Next

\* What onProgress shows never falls within a map, rises with every chunk that
\* is new, and reads "all" only when nothing is left to fetch, whatever the
\* proxy answers and however often a map lists an address.
THEOREM HonestProgress == Spec => ProgressIsHonest
<1>1. ASSUME IntegrityInv, IntegrityInv', [Next]_vars
      PROVE  /\ cache' # cache => chunks_held' > chunks_held
             /\ map' = map => chunks_held' >= chunks_held
             /\ chunks_held' <= chunk_count'
             /\ chunks_held' = chunk_count' => required_addresses' = {}
  <2> DEFINE H == Held(map, cache)
             J == Held(map', cache')
             n == Len(map.infos)
             k == Len(map'.infos)
  <2>1. /\ map.infos \in Seq(Addr) /\ map'.infos \in Seq(Addr)
        /\ cache \in [Addr -> Bytes \cup {NoChunk}]
    BY <1>1 DEF IntegrityInv, TypeInv, TypeOK, DataMap
  <2>2. /\ n \in Nat /\ k \in Nat
        /\ H \in SUBSET (1..n) /\ J \in SUBSET (1..k)
    BY <2>1, LenProperties DEF Held
  <2>3. chunks_held = Cardinality(H) /\ chunks_held' = Cardinality(J) /\ chunk_count' = k
    BY DEF chunks_held, chunk_count, Held
  <2>4. map' = map => H \subseteq J /\ n = k
    <3> SUFFICES ASSUME map' = map, NEW i \in H PROVE i \in J
      OBVIOUS
    <3>1. i \in 1..n /\ map.infos[i] \in Addr /\ cache[map.infos[i]] # NoChunk
      BY <2>1 DEF Held
    <3>2. cache'[map.infos[i]] # NoChunk
      <4>1. CASE cache' = cache
        BY <3>1, <4>1
      <4>2. CASE cache' # cache
        <5>1. PICK l \in 1..Len(map.infos) :
                /\ cache[map.infos[l]] = NoChunk
                /\ cache' = [cache EXCEPT ![map.infos[l]] = Content[map.infos[l]]]
          BY <1>1, <4>2, CacheGrows
        <5> QED
          BY <2>1, <3>1, <5>1
      <4> QED
        BY <4>1, <4>2
    <3> QED
      BY <3>1, <3>2 DEF Held
  <2>5. cache' # cache => map' = map /\ H # J
    <3> SUFFICES ASSUME cache' # cache PROVE map' = map /\ H # J
      OBVIOUS
    <3>1. map' = map
      BY <1>1, CacheGrows
    <3>2. PICK l \in 1..Len(map.infos) :
            /\ cache[map.infos[l]] = NoChunk
            /\ cache' = [cache EXCEPT ![map.infos[l]] = Content[map.infos[l]]]
            /\ Content[map.infos[l]] # NoChunk
            /\ map.infos[l] \in Addr
      BY <1>1, CacheGrows
    <3>3. cache'[map.infos[l]] # NoChunk
      BY <2>1, <3>2
    <3>4. l \in J /\ l \notin H
      BY <3>1, <3>2, <3>3 DEF Held
    <3> QED
      BY <3>1, <3>4
  <2> HIDE DEF H, J, n, k
  <2>6. /\ Cardinality(J) \in Nat /\ Cardinality(J) <= k
        /\ Cardinality(J) = k => J = 1..k
    BY <2>2, IndexCount
  <2>7. map' = map => /\ Cardinality(H) \in Nat /\ Cardinality(H) <= Cardinality(J)
                      /\ Cardinality(J) = Cardinality(H) => J = H
    BY <2>2, <2>4, IndexCount
  <2>8. J = 1..k => required_addresses' = {}
    BY DEF J, k, Held, required_addresses, Missing
  <2>9. cache' # cache => Cardinality(J) > Cardinality(H)
    BY <2>5, <2>6, <2>7
  <2>10. map' = map => Cardinality(J) >= Cardinality(H)
    BY <2>6, <2>7
  <2> QED
    BY <2>3, <2>6, <2>8, <2>9, <2>10, Zenon
<1>2. IntegrityInv /\ [Next]_vars =>
        [/\ cache' # cache => chunks_held' > chunks_held
         /\ map' = map => chunks_held' >= chunks_held
         /\ chunks_held' <= chunk_count'
         /\ chunks_held' = chunk_count' => required_addresses' = {}]_vars
  BY <1>1, NextIntegrity
<1> QED
  BY <1>2, InitIntegrity, NextIntegrity, PTL DEF Spec, ProgressIsHonest

-----------------------------------------------------------------------------
(* Rounds: the workers leave nothing behind, so two rounds are enough. *)

\* While nothing was rejected, a missing chunk is to be taken or in flight.
LEMMA NextCovered == TypeInv /\ Covered /\ [Next]_vars => Covered'
<1> SUFFICES ASSUME TypeInv, Covered, [Next]_vars
             PROVE  Covered'
  OBVIOUS
<1> USE DEF TypeInv
<1>1. CASE pc' # "fetch"
  BY <1>1 DEF Covered
<1>2. CASE StartRound
  BY <1>2 DEF StartRound, Covered, Missing, required_addresses, machine
<1>3. CASE UNCHANGED vars
  BY <1>3 DEF vars, Covered, Missing
<1>4. ASSUME NEW w \in Worker, Take(w)
      PROVE  Covered'
  <2>1. todo \in SUBSET Nat
    BY DEF TypeOK, DataMap
  <2>2. todo # {} => Min(todo) \in todo
    BY <2>1, MinOfIndices
  <2>3. Missing(map)' = Missing(map) /\ UNCHANGED <<pc, rejected>>
    BY <1>4 DEF Take, Missing, machine
  <2>4. \A i \in 1..Len(map.infos) : i # Ready
    BY DEF Ready
  <2>5. \A v \in Worker : v # w => task'[v] = task[v]
    BY <1>4 DEF Take, TypeOK
  <2>6. CASE todo = {}
    BY <1>4, <2>3, <2>4, <2>5, <2>6 DEF Take, Covered, Missing
  <2>7. CASE todo # {}
    <3>1. task'[w] = Min(todo) /\ todo' = todo \ {Min(todo)}
      BY <1>4, <2>7 DEF Take, TypeOK
    <3> QED
      BY <1>4, <2>2, <2>3, <2>4, <2>5, <3>1 DEF Take, Covered, Missing
  <2> QED
    BY <2>6, <2>7
<1>5. ASSUME NEW w \in Worker, NEW b, Supply(w, b)
      PROVE  Covered'
  <2>1. \A v \in Worker : v # w => task'[v] = task[v]
    BY <1>5 DEF Supply, TypeOK
  <2>2. b # NoChunk
    BY <1>5, DecoderAssumption DEF Supply
  <2>3. \A i \in Missing(map)' : i \in Missing(map) /\ i # task[w]
    BY <1>5, <2>2 DEF Supply, Missing, TypeOK, DataMap, Done, Ready
  <2> QED
    BY <1>5, <2>1, <2>3 DEF Supply, Covered
<1>6. ASSUME NEW w \in Worker, NEW b, Reject(w, b)
      PROVE  Covered'
  BY <1>6 DEF Reject, Covered
<1>7. CASE Main
  BY <1>1, <1>2, <1>7 DEF Main, Begin, BeginFails, LeaveLoop, FetchFails, FetchDone,
                          Advance, Finish, Throw
<1>8. ASSUME NEW w \in Worker, RunWorker(w)
      PROVE  Covered'
  BY <1>4, <1>5, <1>6, <1>8 DEF RunWorker
<1> QED
  BY <1>3, <1>7, <1>8 DEF Next

\* The first round leaves a resolved map, the second one a complete one.
LEMMA NextRoundSound ==
  TypeInv /\ Covered /\ RoundSound /\ [Next]_vars => RoundSound'
<1> SUFFICES ASSUME TypeInv, Covered, RoundSound, [Next]_vars
             PROVE  RoundSound'
  OBVIOUS
<1> USE DEF TypeInv
<1>1. CASE UNCHANGED vars
  BY <1>1 DEF vars, RoundSound, is_complete, required_addresses, Missing
<1>2. ASSUME NEW b, Begin(b) \/ BeginFails(b) PROVE RoundSound'
  BY <1>2 DEF Begin, BeginFails, RoundSound, machine
<1>3. CASE LeaveLoop
  BY <1>3 DEF LeaveLoop, Throw, RoundSound, is_complete, required_addresses, Missing, machine,
              TypeOK, MAX_ROUNDS
<1>4. CASE StartRound
  <2>1. round \in 0..2 /\ round # 2
    BY <1>4 DEF StartRound, RoundSound, TypeOK
  <2> QED
    BY <1>4, <2>1 DEF StartRound, RoundSound, required_addresses, Missing, machine
<1>5. CASE FetchFails
  BY <1>5 DEF FetchFails, Throw, RoundSound, machine
<1>6. CASE FetchDone
  <2>1. 1 \in Worker
    BY RetrievalAssumption DEF Worker
  <2>2. todo = {}
    BY <1>6, <2>1 DEF FetchDone, FirstWorker
  <2>3. Missing(map) = {}
    <3>1. \A i \in Missing(map) : i # Done
      BY DEF Missing, Done
    <3> QED
      BY <1>6, <2>2, <3>1 DEF FetchDone, Covered
  <2> QED
    BY <1>6, <2>3 DEF FetchDone, RoundSound, Missing, machine
<1>7. CASE Advance
  <2>1. round \in 0..1 /\ Missing(map) = {} /\ (round = 1 => root_resolved)
    BY <1>7 DEF Advance, RoundSound, TypeOK
  <2>2. CASE pc' = "threw"
    BY <1>7, <2>1, <2>2 DEF Advance, Throw, RoundSound
  <2>3. CASE pc' # "threw"
    <3>1. pc' = "loop" /\ round' = round + 1 /\ cache' = cache
      BY <1>7, <2>3 DEF Advance, Throw
    <3>2. root_resolved'
      BY <1>7, <2>1, <2>3 DEF Advance, Throw, advance_resolves, required_addresses, TypeOK
    <3>3. round = 1 => map' = map
      BY <1>7, <2>1, <2>3 DEF Advance, Throw, advance_resolves
    <3>4. round' = 2 => Missing(map)' = {}
      BY <2>1, <3>1, <3>3 DEF Missing
    <3> QED
      BY <2>1, <3>1, <3>2, <3>4 DEF RoundSound, is_complete, required_addresses
  <2> QED
    BY <2>2, <2>3
<1>8. CASE Finish
  BY <1>8 DEF Finish, RoundSound, machine
<1>9. ASSUME NEW w \in Worker, RunWorker(w)
      PROVE  RoundSound'
  <2>1. UNCHANGED <<pc, map, root_resolved, round>>
    BY <1>9 DEF RunWorker, Take, Supply, Reject, machine
  <2>2. task[w] # Done
    BY <1>9 DEF RunWorker, Take, Ready, Done
  <2>3. pc \in {"fetch", "threw"}
    BY <2>2 DEF Quiet, TypeOK
  <2> QED
    BY <2>1, <2>3 DEF RoundSound
<1> QED
  BY <1>1, <1>2, <1>3, <1>4, <1>5, <1>6, <1>7, <1>8, <1>9 DEF Next, Main

RoundInv == TypeInv /\ Covered /\ RoundSound

\* A download takes at most two rounds, whatever the data map looks like: the
\* MAX_ROUNDS guard of retrieve() is never what ends it.
THEOREM TwoRoundsSuffice == Spec => []TwoRounds
<1>1. Init => RoundInv
  BY InitTypeInv DEF Init, Fresh, RoundInv, Covered, RoundSound
<1>2. RoundInv /\ [Next]_vars => RoundInv'
  BY NextTypeInv, NextCovered, NextRoundSound DEF RoundInv
<1>3. RoundInv => TwoRounds
  BY DEF RoundInv, RoundSound, TwoRounds
<1> QED
  BY <1>1, <1>2, <1>3, PTL DEF Spec

\* The whole inductive invariant holds in every reachable state.
THEOREM RetrievalInvariant == Spec => []RetrievalInv
<1>1. Init => IntegrityInv /\ RoundInv
  BY InitIntegrity, InitTypeInv DEF Init, Fresh, RoundInv, Covered, RoundSound
<1>2. IntegrityInv /\ RoundInv /\ [Next]_vars => (IntegrityInv /\ RoundInv)'
  BY NextIntegrity, NextTypeInv, NextCovered, NextRoundSound DEF RoundInv
<1>3. IntegrityInv /\ RoundInv => RetrievalInv
  BY DEF IntegrityInv, RoundInv, RetrievalInv, TypeInv
<1> QED
  BY <1>1, <1>2, <1>3, PTL DEF Spec

-----------------------------------------------------------------------------
(* Workers that outlive the retrieval. *)

\* The worker that rejected has stopped.
Stopped == rejected => \E w \in Worker : task[w] = Done

\* When the finally block frees the wasm object, a worker has stopped: the one
\* whose rejection ended the download, or the last one of the last round.
FreedAfterStop == freed => \E w \in Worker : task[w] = Done

\* Whenever the retrieval is freed a worker has stopped, and none starts again.
LEMMA NextFreedAfterStop ==
  TypeInv /\ Stopped /\ FreedAfterStop /\ [Next]_vars => (Stopped /\ FreedAfterStop)'
<1> SUFFICES ASSUME TypeInv, Stopped, FreedAfterStop, [Next]_vars
             PROVE  (Stopped /\ FreedAfterStop)'
  OBVIOUS
<1>1. 1 \in Worker
  BY RetrievalAssumption DEF Worker
<1>2. CASE UNCHANGED vars
  BY <1>2 DEF vars, Stopped, FreedAfterStop
<1>3. CASE Main
  <2>1. CASE UNCHANGED pool
    <3>1. freed' => freed \/ \E w \in Worker : task[w] = Done
      BY <1>1, <1>3, <2>1 DEF Main, Begin, BeginFails, LeaveLoop, StartRound, FetchFails,
           FetchDone, Advance, Finish, Throw, Stopped, TypeInv, Quiet, pool
    <3> QED
      BY <2>1, <3>1 DEF pool, Stopped, FreedAfterStop
  <2>2. CASE StartRound
    <3>1. CASE ~freed
      BY <2>2, <3>1 DEF StartRound, Stopped, FreedAfterStop
    <3>2. CASE freed
      BY <2>2, <3>2 DEF StartRound, TypeInv, FreedAtEnd
    <3> QED
      BY <3>1, <3>2
  <2> QED
    BY <1>3, <2>1, <2>2 DEF Main, Begin, BeginFails, LeaveLoop, FetchFails, FetchDone, Advance,
         Finish
<1>4. ASSUME NEW w \in Worker, RunWorker(w)
      PROVE  (Stopped /\ FreedAfterStop)'
  <2>1. task[w] # Done /\ freed' = freed
    BY <1>4 DEF RunWorker, Take, Supply, Reject, Ready, Done
  <2>2. ASSUME NEW v \in Worker, task[v] = Done
        PROVE  task'[v] = Done
    BY <1>4, <2>1, <2>2 DEF RunWorker, Take, Supply, Reject, TypeInv, TypeOK
  <2>3. rejected' => rejected \/ task'[w] = Done
    BY <1>4 DEF RunWorker, Take, Supply, Reject, TypeInv, TypeOK
  <2> QED
    BY <2>1, <2>2, <2>3 DEF Stopped, FreedAfterStop
<1> QED
  BY <1>2, <1>3, <1>4 DEF Next

\* Whoever made the retrieval throw has stopped before it is freed.
LEMMA FreedAfterStopHolds == Spec => []FreedAfterStop
<1> DEFINE I == TypeInv /\ Stopped /\ FreedAfterStop
<1>1. Init => I
  BY InitTypeInv DEF Init, Fresh, Stopped, FreedAfterStop
<1>2. I /\ [Next]_vars => I'
  BY NextTypeInv, NextFreedAfterStop
<1>3. I => FreedAfterStop
  OBVIOUS
<1> HIDE DEF I
<1> QED
  BY <1>1, <1>2, <1>3, PTL DEF Spec

\* With DEFAULT_CONCURRENCY = 1, as in the code, nobody calls into the retrieval
\* after it was freed.
THEOREM FreedIsUnused ==
  ASSUME Concurrency = 1
  PROVE  Spec => [](freed => \A w \in Worker : task[w] = Done)
<1>1. FreedAfterStop => (freed => \A w \in Worker : task[w] = Done)
  BY DEF FreedAfterStop, Worker
<1> QED
  BY <1>1, FreedAfterStopHolds, PTL

-----------------------------------------------------------------------------
(* The download implements the promise of VerifiedFetch. *)

\* Once the download ended, late workers no longer change the cache.
LateWorkers == pc \in {"returned", "threw"} => freed \/ \A w \in Worker : task[w] = Done

\* Workers that outlive the retrieval find it freed.
LEMMA NextLateWorkers == TypeInv /\ LateWorkers /\ [Next]_vars => LateWorkers'
<1> SUFFICES ASSUME TypeInv, LateWorkers, [Next]_vars
             PROVE  LateWorkers'
  OBVIOUS
<1>1. CASE UNCHANGED vars
  BY <1>1 DEF vars, LateWorkers
<1>2. CASE Main
  BY <1>2 DEF Main, Begin, BeginFails, LeaveLoop, StartRound, FetchFails, FetchDone,
              Advance, Finish, Throw, LateWorkers, TypeInv, Quiet, pool
<1>3. ASSUME NEW w \in Worker, RunWorker(w)
      PROVE  LateWorkers'
  <2>1. UNCHANGED <<pc, freed>> /\ task[w] # Done
    BY <1>3 DEF RunWorker, Take, Supply, Reject, Ready, Done
  <2> QED
    BY <2>1 DEF LateWorkers
<1> QED
  BY <1>1, <1>2, <1>3 DEF Next

PromiseInv == IntegrityInv /\ LateWorkers

\* Every step of the download is a step of the promise, or changes nothing that
\* the page sees.
LEMMA NextPromise == PromiseInv /\ [Next]_vars => [Promise!Next]_(Promise!vars)
<1> SUFFICES ASSUME PromiseInv, [Next]_vars
             PROVE  [Promise!Next]_(Promise!vars)
  OBVIOUS
<1> USE DEF PromiseInv
<1> DEFINE accepted == {a \in Addr : cache[a] # NoChunk}
           outcome  == IF pc \in {"returned", "threw"} THEN pc ELSE "open"
<1>1. CASE UNCHANGED <<address, cache, result>> /\ outcome' = outcome
  BY <1>1 DEF Promise!vars
<1>2. CASE UNCHANGED <<address, cache, result>> /\ outcome = "open" /\ pc' = "threw"
  BY <1>2 DEF Promise!Next, Promise!Throw
<1>3. CASE Finish /\ pc' = "returned"
  <2>1. outcome = "open" /\ outcome' = "returned" /\ UNCHANGED <<address, cache>>
    BY <1>3 DEF Finish, machine
  <2>2. is_complete /\ pc = "finish" /\ result' = decrypt(map, Chunks(map, cache))
        /\ result' # Failed
    BY <1>3 DEF Finish
  <2>3. ResultIsPublished'
    BY NextResult DEF IntegrityInv
  <2>4. result' = Published(address)
    BY <1>3, <2>1, <2>3 DEF ResultIsPublished
  <2>5. map = PublishedMap(address) /\ map \in DataMap
    BY <2>2 DEF IntegrityInv, MapSound, TypeInv, TypeOK, is_complete
  <2>6. ASSUME NEW i \in 1..Len(map.infos)
        PROVE  map.infos[i] \in accepted
    BY <2>2, <2>5 DEF is_complete, required_addresses, Missing, DataMap
  <2>7. Promise!Deliver
    <3>1. ContentChunks(address) \subseteq accepted
      BY <2>5, <2>6 DEF ContentChunks
    <3>2. accepted' = accepted /\ Published(address) # Failed
      BY <2>1, <2>2, <2>4
    <3> HIDE DEF accepted
    <3> QED
      BY <2>1, <2>4, <3>1, <3>2 DEF Promise!Deliver, accepted
  <2> QED
    BY <2>7 DEF Promise!Next
<1>4. ASSUME NEW w \in Worker, NEW b, Supply(w, b)
      PROVE  [Promise!Next]_(Promise!vars)
  <2>0. PICK a \in Addr : a = map.infos[task[w]]
    BY <1>4 DEF IntegrityInv, TypeInv, TypeOK, DataMap, Supply, Ready, Done
  <2>1. a \in Addr /\ b \in Bytes /\ address_of(b) = a /\ ~freed /\ task[w] # Done
    BY <1>4, <2>0 DEF IntegrityInv, TypeInv, TypeOK, DataMap, Supply, supply_accepts, verify_chunk,
                Ready, Done
  <2>2. outcome = "open" /\ outcome' = "open" /\ UNCHANGED <<address, result>>
    BY <1>4, <2>1 DEF LateWorkers, Supply
  <2>3. Content[a] # NoChunk /\ b # NoChunk
    BY <2>1, ContentType, DecoderAssumption
  <2>4. cache' = [cache EXCEPT ![a] = b] /\ cache \in [Addr -> Bytes \cup {NoChunk}]
    BY <1>4, <2>0 DEF Supply, IntegrityInv, TypeInv, TypeOK
  <2>5. accepted' = accepted \cup {a}
    BY <2>1, <2>3, <2>4
  <2>6. Promise!Accept(a)
    BY <2>1, <2>2, <2>3, <2>5 DEF Promise!Accept, Stored
  <2> QED
    BY <2>6 DEF Promise!Next
<1>5. CASE Main
  <2>1. CASE Finish
    BY <1>2, <1>3, <2>1 DEF Finish, machine
  <2>2. CASE ~Finish
    BY <1>1, <1>2, <1>5, <2>2 DEF Main, Begin, BeginFails, LeaveLoop, StartRound, FetchFails,
         FetchDone, Advance, Throw, machine
  <2> QED
    BY <2>1, <2>2
<1>6. ASSUME NEW w \in Worker, RunWorker(w)
      PROVE  [Promise!Next]_(Promise!vars)
  BY <1>1, <1>4, <1>6 DEF RunWorker, Take, Reject, machine
<1>7. CASE UNCHANGED vars
  BY <1>1, <1>7 DEF vars
<1> QED
  BY <1>5, <1>6, <1>7 DEF Next

\* The incremental, concurrent, cached retrieval implements the promise made to
\* the page: accepted chunks are only added, and the content delivered is the
\* published one, delivered when every chunk of it was accepted.
THEOREM Refinement == Spec => ImplementsPromise
<1>1. Init => Promise!Init
  BY DEF Init, Fresh, Promise!Init
<1>2. Init => PromiseInv
  BY InitIntegrity DEF Init, Fresh, PromiseInv, LateWorkers
<1>3. PromiseInv /\ [Next]_vars => PromiseInv'
  BY NextIntegrity, NextLateWorkers DEF PromiseInv, IntegrityInv
<1> QED
  BY <1>1, <1>2, <1>3, NextPromise, PTL DEF Spec, ImplementsPromise, Promise!Spec
=============================================================================
