------------------------------ MODULE Retrieval ------------------------------
(***************************************************************************)
(* One download in the browser: the loop of web/src/retrieve.js driving    *)
(* the sans-IO state machine of crates/wasm-client (struct Retrieval)      *)
(* against a proxy that is not trusted.                                    *)
(*                                                                         *)
(* The JavaScript is single-threaded: an action is what runs between two   *)
(* awaits.  What interleaves is the coroutine of retrieve() itself and the *)
(* workers of forEachConcurrently, each waiting for a getChunk() of its    *)
(* own; a worker is not stopped when another one rejects.                  *)
(***************************************************************************)
EXTENDS SelfEncryption, FiniteSets, FiniteSetsExt

CONSTANTS
  Requests,      \* the public addresses a user may ask for
  getChunk(_),   \* getChunk(a): every way a fetch of address a may settle: a
                 \* blob, NoChunk (null: the proxy says NOT_FOUND) or Failed
                 \* (the promise rejects)
  Concurrency    \* the limit given to forEachConcurrently; the code uses 1

ASSUME RetrievalAssumption ==
  /\ Requests \subseteq Addr
  /\ \A a \in Addr : getChunk(a) \subseteq Bytes \cup {NoChunk, Failed}
  /\ Concurrency \in Nat \ {0}

MAX_ROUNDS == 16

Worker == 1..Concurrency

\* States of a worker other than "waiting for the chunk at infos index i > 0".
Done  == 0     \* returned, rejected or never started
Ready == -1    \* about to take the next index

VARIABLES
  address,        \* the public address asked for
  pc,             \* where retrieve() is: "map", "loop", "fetch", "advance",
                  \* "finish", "returned" or "threw"
  map,            \* Retrieval.map
  root_resolved,  \* Retrieval.root_resolved
  cache,          \* Retrieval.cache, NoChunk where the key is absent
  freed,          \* retrieval.free() was called
  round,          \* loop counter of retrieve()
  todo,           \* indices into map.infos that no worker has taken yet
  task,           \* what each worker is doing
  rejected,       \* some worker rejected, so the Promise.all did too
  result          \* what retrieve() returned

vars == <<address, pc, map, root_resolved, cache, freed, round, todo, task, rejected, result>>
machine == <<map, root_resolved, cache>>
pool == <<todo, task, rejected>>

EmptyMap == [child |-> FALSE, infos |-> <<>>]

-----------------------------------------------------------------------------
(* The getters of Retrieval. *)

\* Mutant: chunks already held are listed again.
Missing_unfiltered(m) == 1..Len(m.infos)

\* An address listed twice is reported, and fetched, twice.
Missing(m) == {i \in 1..Len(m.infos) : cache[m.infos[i]] = NoChunk}

required_addresses == Missing(map)

is_complete == root_resolved /\ required_addresses = {}

\* What onProgress shows after each accepted chunk: an address that the map
\* lists twice counts twice, on both sides.
chunk_count == Len(map.infos)
chunks_held == Cardinality({i \in 1..Len(map.infos) : cache[map.infos[i]] # NoChunk})

-----------------------------------------------------------------------------
\* A retrieve() that has just been called.
Fresh ==
  /\ pc = "map"
  /\ map = EmptyMap /\ root_resolved = FALSE
  /\ cache = [a \in Addr |-> NoChunk]
  /\ freed = FALSE
  /\ round = 0
  /\ todo = {} /\ task = [w \in Worker |-> Done] /\ rejected = FALSE
  /\ result = NoChunk

Init == address \in Requests /\ Fresh

\* Retrieval::begin: which blobs are accepted as the data map chunk.
begin_accepts_unverified(b) == decode_map(b) # Failed   \* Mutant

begin_accepts(b) == verify_chunk(address, b) /\ decode_map(b) # Failed

\* getChunk(address) settles with a usable data map.
Begin(b) ==
  /\ pc = "map"
  /\ b \in Bytes
  /\ begin_accepts(b)
  /\ pc' = "loop"
  /\ map' = decode_map(b)
  /\ root_resolved' = ~decode_map(b).child
  /\ UNCHANGED <<address, cache, freed, round, pool, result>>

\* The data map is absent, fails verification or does not decode, or the fetch
\* rejects: retrieve() throws before there is a retrieval to free.
BeginFails(b) ==
  /\ pc = "map"
  /\ b \in Bytes => ~begin_accepts(b)
  /\ pc' = "threw"
  /\ UNCHANGED <<address, machine, freed, round, pool, result>>

\* Leaving the try block always runs retrieval.free().
Throw ==
  /\ pc' = "threw"
  /\ freed' = TRUE

\* Head of the loop: leave it, or start the workers on what is missing.
LeaveLoop ==
  /\ pc = "loop"
  /\ is_complete \/ round >= MAX_ROUNDS
  /\ IF is_complete THEN pc' = "finish" /\ UNCHANGED freed ELSE Throw
  /\ UNCHANGED <<address, machine, round, pool, result>>

StartRound ==
  /\ pc = "loop"
  /\ ~is_complete
  /\ round < MAX_ROUNDS
  /\ pc' = IF required_addresses = {} THEN "advance" ELSE "fetch"
  /\ todo' = required_addresses
  /\ task' = [w \in Worker |->
                IF w <= Cardinality(required_addresses) THEN Ready ELSE Done]
  /\ rejected' = FALSE
  /\ UNCHANGED <<address, machine, freed, round, result>>

\* A worker takes the next index and calls getChunk, or finds none and returns.
\* Mutant: the shared index is not advanced.
Take_without_advance(w) ==
  /\ task[w] = Ready
  /\ task' = [task EXCEPT ![w] = IF todo = {} THEN Done ELSE Min(todo)]
  /\ UNCHANGED <<address, pc, machine, freed, round, todo, rejected, result>>

Take(w) ==
  /\ task[w] = Ready
  /\ IF todo = {}
     THEN task' = [task EXCEPT ![w] = Done] /\ UNCHANGED todo
     ELSE /\ task' = [task EXCEPT ![w] = Min(todo)]
          /\ todo' = todo \ {Min(todo)}
  /\ UNCHANGED <<address, pc, machine, freed, round, rejected, result>>

\* Retrieval::supply: which blobs are let into the cache under address a.
\* A freed wasm object throws on every call.
supply_accepts_unverified(a, b) == ~freed               \* Mutant

supply_accepts(a, b) == verify_chunk(a, b) /\ ~freed

\* Mutant: the chunk replaces what the cache held.
Supply_replaces(w, b) ==
  /\ task[w] > 0
  /\ b \in Bytes
  /\ supply_accepts(map.infos[task[w]], b)
  /\ cache' = [a \in Addr |-> IF a = map.infos[task[w]] THEN b ELSE NoChunk]
  /\ task' = [task EXCEPT ![w] = Ready]
  /\ UNCHANGED <<address, pc, map, root_resolved, freed, round, todo, rejected, result>>

\* The chunk enters the cache, and onProgress reports chunks_held'.
Supply(w, b) ==
  /\ task[w] > 0
  /\ b \in Bytes
  /\ supply_accepts(map.infos[task[w]], b)
  /\ cache' = [cache EXCEPT ![map.infos[task[w]]] = b]
  /\ task' = [task EXCEPT ![w] = Ready]
  /\ UNCHANGED <<address, pc, map, root_resolved, freed, round, todo, rejected, result>>

\* The fetch rejects, the chunk is absent, or supply() throws.
Reject(w, b) ==
  /\ task[w] > 0
  /\ b \in Bytes => ~supply_accepts(map.infos[task[w]], b)
  /\ task' = [task EXCEPT ![w] = Done]
  /\ rejected' = TRUE
  /\ UNCHANGED <<address, pc, machine, freed, round, todo, result>>

\* Promise.all settles: with the first rejection, or when every worker returned.
FetchFails ==
  /\ pc = "fetch"
  /\ rejected
  /\ Throw
  /\ UNCHANGED <<address, machine, round, pool, result>>

FetchDone ==
  /\ pc = "fetch"
  /\ ~rejected
  /\ \A w \in Worker : task[w] = Done
  /\ pc' = "advance"
  /\ UNCHANGED <<address, machine, freed, round, pool, result>>

\* Retrieval::advance has work to do only for an unresolved map whose chunks
\* are all held.  The fetch closure it hands to get_root_data_map is the cache.
advance_resolves == ~root_resolved /\ required_addresses = {}

\* ... followed by the stall check and the loop increment.
Advance ==
  /\ pc = "advance"
  /\ LET root     == IF advance_resolves THEN get_root_data_map(map, cache) ELSE map
         resolved == root_resolved \/ advance_resolves
         stalled  == ~resolved /\ Missing(root) = {}
     IN  IF root = Failed
         THEN Throw /\ UNCHANGED <<map, root_resolved, round>>
         ELSE /\ map' = root
              /\ root_resolved' = resolved
              /\ IF stalled
                 THEN Throw /\ UNCHANGED round
                 ELSE pc' = "loop" /\ round' = round + 1 /\ UNCHANGED freed
  /\ UNCHANGED <<address, cache, pool, result>>

\* Retrieval::finish, then the finally block.
Finish ==
  /\ pc = "finish"
  /\ LET plaintext == IF is_complete THEN decrypt(map, Chunks(map, cache)) ELSE Failed
     IN  IF plaintext = Failed
         THEN pc' = "threw" /\ UNCHANGED result
         ELSE pc' = "returned" /\ result' = plaintext
  /\ freed' = TRUE
  /\ UNCHANGED <<address, machine, round, pool>>

-----------------------------------------------------------------------------
Main ==
  \/ \E b \in getChunk(address) : Begin(b) \/ BeginFails(b)
  \/ LeaveLoop
  \/ StartRound
  \/ FetchFails
  \/ FetchDone
  \/ Advance
  \/ Finish

RunWorker(w) ==
  \/ Take(w)
  \/ /\ task[w] > 0
     /\ \E b \in getChunk(map.infos[task[w]]) : Supply(w, b) \/ Reject(w, b)

Next == Main \/ \E w \in Worker : RunWorker(w)

Spec == Init /\ [][Next]_vars

\* The event loop runs every continuation that can run, and every getChunk()
\* settles: a proxy that keeps a stream open and silent is outside this
\* assumption, because getChunk() itself has no timeout.
FairSpec == Spec /\ WF_vars(Main) /\ \A w \in Worker : WF_vars(RunWorker(w))

-----------------------------------------------------------------------------
(* Properties. *)

\* Every variable has its type.
TypeOK ==
  /\ address \in Addr
  /\ pc \in {"map", "loop", "fetch", "advance", "finish", "returned", "threw"}
  /\ map \in DataMap
  /\ root_resolved \in BOOLEAN
  /\ cache \in [Addr -> Bytes \cup {NoChunk}]
  /\ freed \in BOOLEAN
  /\ round \in 0..MAX_ROUNDS
  /\ todo \subseteq 1..Len(map.infos)
  /\ task \in [Worker -> {Done, Ready} \cup 1..Len(map.infos)]
  /\ rejected \in BOOLEAN
  /\ result \in Bytes \cup {NoChunk}

\* Whatever the proxy answers, and in whatever order, what the cache holds
\* under an address is the one blob that hashes to it (Retrieval::supply), and
\* it stays so across the rounds, the map change of advance() and late workers.
CacheSound == \A a \in Addr : cache[a] # NoChunk => cache[a] = Content[a]

\* If retrieve() returns, it returns exactly the content published at the
\* address: no forged, substituted, reordered or partial answer of the proxy
\* gets through begin/supply/advance/finish.
ResultIsPublished == pc = "returned" => result = Published(address)

\* A download needs at most two rounds (wrapper chunks, then content chunks):
\* the MAX_ROUNDS guard and its error are never reached.
TwoRounds == round <= 2

-----------------------------------------------------------------------------
(* The inductive invariant behind the properties above. *)

\* Past begin() the map is one that some blob decodes to.
Begun == pc \notin {"map", "threw"} => map \in StoredMap

\* Workers run only while retrieve() waits for them, or after it gave up.
Quiet ==
  pc \in {"map", "loop", "advance", "finish", "returned"} =>
    todo = {} /\ \A w \in Worker : task[w] = Done

\* While indices are left, the first worker has not returned.
FirstWorker == pc = "fetch" /\ ~rejected /\ todo # {} => task[1] # Done

\* A chunk that is missing during a round is still to be taken or in flight.
Covered ==
  pc = "fetch" /\ ~rejected =>
    \A i \in Missing(map) : i \in todo \/ \E w \in Worker : task[w] = i

\* The map is the one stored at the address or, once resolved, the root map
\* published there.
MapSound ==
  pc \notin {"map", "threw"} =>
    /\ Content[address] # NoChunk /\ decode_map(Content[address]) # Failed
    /\ IF root_resolved
       THEN map = PublishedMap(address)
       ELSE map = decode_map(Content[address]) /\ map.child

\* What each round leaves for the next one.
RoundSound ==
  /\ round <= 2
  /\ pc = "map" => round = 0
  /\ pc = "loop" => (round >= 1 => root_resolved) /\ (round = 2 => is_complete)
  /\ pc \in {"fetch", "advance"} => round <= 1 /\ (round = 1 => root_resolved)
  /\ pc = "advance" => Missing(map) = {}
  /\ pc = "finish" => is_complete

\* The parts together: what holds between any two steps of a download, with
\* any number of workers.
RetrievalInv ==
  /\ TypeOK
  /\ Begun
  /\ Quiet
  /\ FirstWorker
  /\ Covered
  /\ CacheSound
  /\ MapSound
  /\ RoundSound
  /\ ResultIsPublished

-----------------------------------------------------------------------------
\* What the page shows (chunks_held of chunk_count, reported after supply())
\* is progress: a chunk that is new to the cache raises it, nothing lowers it
\* until advance() changes the map, and it reads "all" only when the round has
\* nothing left to fetch.
ProgressIsHonest ==
  [][/\ cache' # cache => chunks_held' > chunks_held
     /\ map' = map => chunks_held' >= chunks_held
     /\ chunks_held' <= chunk_count'
     /\ chunks_held' = chunk_count' => required_addresses' = {}]_vars

\* Every download ends, and leaves no worker behind.
Termination ==
  <>[](pc \in {"returned", "threw"} /\ \A w \in Worker : task[w] = Done)

\* A download through a proxy that always answers truthfully delivers the
\* content published at the address.
Delivery == <>(pc = "returned" /\ result = Published(address))

\* The incremental retrieval implements the promise made to the page.
Promise == INSTANCE VerifiedFetch WITH
  accepted  <- {a \in Addr : cache[a] # NoChunk},
  outcome   <- IF pc \in {"returned", "threw"} THEN pc ELSE "open",
  delivered <- result

\* Every step of the loop is a step of the promise or invisible to the page.
ImplementsPromise == Promise!Spec
=============================================================================
