# Autonomi over WebRTC-Direct: specifications and proofs

This directory holds the TLA+ development kept beside the proof of concept: a
browser page that downloads content-addressed files from the Autonomi network
through an untrusted proxy, over WebRTC-Direct. The specifications are written
from the code; where a doc or a comment says something else, a run shows the
difference (section 6).

## 1. The system

| part | source | state it keeps | operations |
|---|---|---|---|
| retrieval state machine | `crates/wasm-client/src/lib.rs` | data map, `root_resolved`, cache of verified chunks | `begin`, `required_addresses`, `supply`, `advance`, `finish`, the getters, `parse_hex_address` |
| retrieval loop | `web/src/retrieve.js` | round counter, shared `next` index, one promise per worker | `retrieve`, `forEachConcurrently` |
| fetch client | `web/src/fetch-client.js` | a libp2p node and connection; per request a stream and a queue of received pieces | `connect`, `getChunk`, `send`, `exactReader` |
| page | `web/src/app.js` | `state.client`, `state.wasmReady`, disabled buttons, result area | `download`, `ensureWasm`, `ensureConnected`, `present` |
| fetch protocol | `crates/proxy/src/protocol.rs` | none | `read_request`, `write_found`, `write_status`, `drain_to_eof` |
| proxy | `crates/proxy/src/main.rs` | `identity.key` and `cert.pem` on disk, one task per stream | `main`, `load_or_create_*`, `dump`, `serve`, `handle_request`, `run` |
| chunk sources | `crates/proxy/src/source.rs` | fixture map, or a network client | `new`, `addresses`, `get` |
| patched transport | `vendor/libp2p-webrtc`, `vendor/webrtc-dtls` | UDP mux tables, queue of data channels, DTLS flights | listening, muxing, handshakes |

How they interact. A click in the page runs `download`, which loads the wasm
module, obtains a client for the multiaddr in the proxy field and calls
`retrieve` with that client's `getChunk`. `retrieve` fetches the data map,
hands it to `Retrieval::begin`, and then in rounds fetches what
`required_addresses` lists, hands each blob to `supply`, and lets `advance`
resolve a shrunk map. Every `getChunk` opens a stream, sends a 32-byte address
and reads a status byte, a length and the data. The proxy runs `handle_request`
in a task per stream, asks its source, writes the answer in messages and waits
for the client's EOF. The multiaddr that the page dials contains the PeerId and
the certificate hash of the proxy, both derived from its two files.

What is hard. JavaScript interleaves at every `await`: the user edits the field
during a download, a connection dies unnoticed. The proxy may answer anything,
or nothing. The stream delivers pieces of any size, stalls when
it is not flushed and loses data when one end lets go too early. The proxy may
be killed between two writes. Below it, one poll loop serves the sockets and
commands of all browsers, wakers tie callbacks to a task that sleeps, and
handshake datagrams are lost and repeated. Each of these is an entry of
`hazards` in PROJECT.json, at the line where it bites, with the properties that
watch it or a note on why none does.

What makes each part correct:

- *retrieval*: only verified blobs enter the cache; what is returned is the
  published content; every download ends; a freed object is not used;
- *fetch*: an answer is whole or an error, a chunk that can be served is
  received, neither end waits for ever;
- *reader*: it behaves like one byte buffer;
- *page*: a download talks to the proxy chosen at the click, never through a
  client that was closed, one at a time, and gives the buttons back unless a
  proxy stays silent on a live connection;
- *proxy startup*: the multiaddr survives kills and restarts;
- *fixtures*: what was encrypted comes back, also from a directory that was
  dumped into several times;
- *transport*: a channel is accepted or closed and a dropped stream is reset,
  as far as the calls that do so succeed, no wake-up is lost, mux and connections
  agree on who owns an address, and a browser that has a curve and a
  profile in common with the proxy gets one of them.

## 2. Modules

| module | models | kind |
|---|---|---|
| `SelfEncryption` | hashes, data maps, decryption, root resolution: the external crates as the client uses them | constants, assumptions, operators |
| `VerifiedFetch` | what a download promises the page | abstract specification |
| `Retrieval` | `retrieve.js` driving `struct Retrieval` | state machine, implements `VerifiedFetch` |
| `ByteBuffer` | a buffer from which exact numbers of bytes are read | abstract specification |
| `ExactReader` | `exactReader` | the steps of one reader, which implement `ByteBuffer` |
| `FetchStream` | `getChunk` with its reader and `handle_request` on one stream | composition: two processes and a transport |
| `ProxyIdentity` | `main` up to the event loop, kills and restarts | state machine |
| `FixtureSource` | `FixtureSource` of `source.rs` over an external `encrypt` | constants, assumptions, operators |
| `FixtureDump` | `--dump-to` | state machine over a directory |
| `FixtureNetwork` | three files and their chunks | instance of `FixtureSource` |
| `HexAddress` | addresses from the input field to the wire | operators |
| `RoundTrip` | input field, parser, `Retrieval` and `FixtureSource` together | composition |
| `AppShell` | `app.js` and `connect` | state machine |
| `DataChannels` | incoming half of the muxer, `connection.rs` | callbacks, a task and handlers |
| `UdpMux` | `udp_mux.rs` | poll loop with commands under way |
| `HelloNegotiation` | flights 0 and 2 of the patched DTLS server | server, browser and lossy wire |
| `SequenceFacts` | induction over indices, recursive functions, sequences, `FlattenSeq` | lemmas the proofs share |
| `SelfEncryptionProofs` | resolving and publishing, over `SelfEncryption` and `FixtureSource` | lemmas, a theorem |
| `RetrievalProofs` | `Retrieval` | theorems |
| `RoundTripProofs` | `RoundTrip` and `HexAddress` | theorems |
| `FetchStreamProofs` | `FetchStream` and `ExactReader` | theorems |
| `FixtureDumpProofs` | `FixtureDump` | theorems |
| `AppShellProofs` | `AppShell` | theorems |
| `ProxyProofs` | `UdpMux`, `DataChannels`, `HelloNegotiation`, `ProxyIdentity`: the parts of the proxy that share no state | theorems |
| `MC*` | instances for TLC | |

Operators whose comment starts with "Mutant" are faulty variants of the
definition next to them. No specification uses them; they document which mistake
each property would catch (`mutants` in PROJECT.json).

### Retrieval

One action is what runs between two awaits. `Begin`/`BeginFails` are the fetch
of the data map and `Retrieval::begin`; `StartRound` creates the workers,
`Take`, `Supply` and `Reject` are one worker's turn, `FetchDone`/`FetchFails`
the settling of `Promise.all`, `Advance` is `advance()` with the stall check,
`LeaveLoop` and `Finish` the end, with `free()` on every way out of the `try`
block. Workers are not stopped when another one rejects, as in
`forEachConcurrently`; `retrieve.js` starts one worker, so late ones are a matter
of a larger `DEFAULT_CONCURRENCY`. The constant `getChunk(a)` is the set of ways in which a fetch may settle: a
hostile proxy is a large set, an honest one a singleton. A blob is an
uninterpreted value; BLAKE3 is an injective function, `decode_map` and `decrypt`
are partial functions, `get_root_data_map` follows child maps until a map that
is no child, through whatever the fetch closure holds (here: the cache).
Addresses that a map lists twice are fetched twice, like in the code.
`chunks_held` and `chunk_count` count them twice too: these are the numbers that
`onProgress` shows after every `supply`.

### FetchStream

The proxy (`spc`) reads the request, looks it up, writes status, length and
pieces with a flush after each, closes and drains; the browser (`cpc`) sends,
reads the three fields through `exactReader` and closes in the `finally` block.
The transport is external and carries the four behaviours the comments of the
code report of it: a sink that takes no message after a full one until it is
flushed; a RESET when a stream is dropped before the client's EOF, which
discards unread bytes; a teardown when the client's EOF lands during a write; a
reset when the read buffer overflows. Resets that the transport produces for
reasons of its own (README.md of the repository, known limitations) are part of
`LinkDown`: where a property or theorem says "live connection", it means one
without them. A `newStream` that rejects is not modelled: it settles `getChunk`
with an error before there is a stream, one of the answers that `Retrieval`
allows a fetch. Lengths are encoded and decoded digit by digit; `Place` gives the
value of each digit. `Lookup` may take for ever: the source has no timeout, and
neither has the client. The client closes its side after it has read the
response, and has to (`TornDown`); the comment on `drain_to_eof`
(protocol.rs:91), by which it half-closes right after the request, describes an
earlier version.

### ExactReader

`queue` and `queued` are kept separately, as in the code, and the copying loop
takes one piece per step. `FetchStream` supplies the iterator (`Iterate`,
`IterateEmpty`, `IterateFails`) and the caller, so the reader is checked against
the cuts, ends and resets that the transport can produce. The refinement to
`ByteBuffer` maps queue and copied bytes to the bytes held; `NothingLost` extends
this to both ends of the stream.

### ProxyIdentity

`tokio::fs::write` is two steps, truncation and the write, with a kill or an
error possible between them. A torn file fails to decode on the next start, and
on every later one, until an operator removes it (`Repair`). The constant
`ReadErrors` says whether reading an existing file may fail.

### FixtureSource, FixtureDump and the round trip

`encrypt` and the encoder are external; `EncryptAssumption` says only that a
reader of the chunks gets the file back. `FixtureDump` writes a file per chunk,
in any order, then the marker, each write being a truncation and a write, and
may be interrupted at every step and started again with another file.

### HexAddress and RoundTrip

A text is a sequence of characters and a character the sequence of its UTF-8
bytes, because the page's pattern counts characters and the parser bytes, and
because the two trims differ (U+FEFF, U+0085). `TextAssumption` says what UTF-8
guarantees: a byte below 128 is a character of its own. `IndexesInRange` is the
condition under which `pair[1]` does not panic. `RequiredRecords` is the loop of
`required_addresses`, `Flat` and `splitAddresses` are the record encoding by
which its addresses cross the wasm boundary.

`RoundTrip` lets the user type any text, runs the page's check and the parser,
and then `Retrieval` on the address that came out, with `get` of the fixture
sources as `getChunk`: the only blobs anywhere are the ones a publisher indexed.
The addresses of `FixtureNetwork` are real byte strings, so what is typed is what
is fetched.

### AppShell

A download has one program counter; every await is a separate step. The guard
against overlapping downloads is the modelled `disabled` flag, not the shape of
the model: several downloads have their own counters. `connect` creates a node
and dials with it; a node whose dial fails is an orphan that nobody can stop.
`close` stops the node. `retrieve` either returns the document of the address it
was given or throws: this is what `Retrieval` is shown to promise. Or it hangs
(`RetrieveHangs`): `getChunk` has no timeout, and a proxy that stays silent on a
live connection keeps the download, and the buttons, until the connection is
lost.

### DataChannels

The task (external: libp2p-swarm) calls `poll`, then `poll_inbound`, starts over
as long as it gets streams, and sleeps when both have left a waker. Callbacks
of the peer connection, handlers that close or drop their stream and the task
interleave at the granularity of these calls. The wakers are explicit: of the
queue (`rx_waker`), of each drop listener (`polled`) and of the empty set of
listeners (`waker`). The queue takes one channel more than
`MAX_DATA_CHANNELS_IN_FLIGHT`, the guaranteed slot of its only sender. A channel
that finds it full is closed by its callback, which holds the sender's lock until
the close has settled (`Unlocked`, `CloseRefused`). Three errors are only logged
by the code and leave the browser without an answer: a failing `detach`, a
failing close of a refused channel ("abandoned") and a failing drop listener,
whose RESET is not sent ("unreset"). The task calls `poll` again after every
stream that `poll_inbound` returned, so the wake of the empty set of listeners
(connection.rs:164) is redundant with this task: no property here would miss
it.

### UdpMux

Requests, registrations and removals are sets of commands under way; the poll
loop serves any of them at any time, which covers every order of the channels
they travel over. A connection's own set of addresses (`addresses`) and the
mux's `address_map` are two books of the same fact. `SendTo` and `CloseConn` are
what the ICE agent does with a connection; a removal is sent twice, by the agent
and by the close future.

### HelloNegotiation

The browser repeats the ClientHello it last sent; flight 2 takes a repeated
first hello for flight 0. An offer is a list of curves, a list of SRTP profiles,
each possibly absent, and whether it is DTLS 1.2 and has a common cipher suite;
a browser sends the same one in every hello. `keypair` is the curve of the key
that was generated, which the code keeps when a hello is parsed again. The check
of the extended master secret passes because the server requests it and does not
require it; the checks of the second hello (version, cookie) pass because an
honest browser echoes the cookie, which the server makes once.

## 3. Runs

| run | instance | distinct states | what it shows |
|---|---|---|---|
| `retrieval` | all 16 blobs as requested address, hostile proxy, 3 workers | 1589 | integrity, the inductive invariant, termination, refinement of `VerifiedFetch`, late workers are harmless, honest progress |
| `retrieval_nested` | a map shrunk twice, honest proxy | violation | finding 1 |
| `round_trip` | texts of up to 5 characters, addresses of 2 bytes, honest proxy | 74824 | page, parser and record encoding agree; encrypt, serve, type, download gives the file |
| `fetch_stream` | 8 lengths, message of 4, limit 6 | 23730 | whole answers, no lost byte or chunk, the reader is a byte buffer, both ends finish |
| `identity_restarts` | 4 kills, repairs | 1006 | one multiaddr for ever, and always a way to start again |
| `identity_read_error` | reads may fail | violation | finding 2 |
| `fixture_dump` | 2 files sharing a chunk, 3 dumps | 252250 | dumps can be interrupted and repeated |
| `app_downloads` | 2 proxies, 2 documents, 2 downloads, 2 dials | 34467 | the page, with silent proxies |
| `app_stale_client` | the same | violation | finding 3 |
| `data_channels` | 4 channels, a queue of 1 + 1 | 108055 | every channel settles but where an error is only logged, no lost wake-up |
| `udp_mux` | 2 ufrags, 2 addresses, 2 connections, symmetry | 44686 | the books agree, removal is complete |
| `hello_negotiation` | lists of up to 3 of 3 curves and up to 2 of 3 profiles, 2 losses | 43832 | negotiation succeeds exactly if it can |

The inductive invariants (`RetrievalInv`, `IdentityInv`, `AppInv`, `DumpInv`,
`MuxInv`) contain the type invariants and the smaller facts of their modules, such
as `FilesAreTrue` or `OneDownload`, which are therefore not listed again.

Why the bounds are enough. The published files of `MCRetrieval` are the shapes
that the code distinguishes: flat, shrunk, shrunk twice, empty, with a chunk
listed twice, and a well-formed map of foreign content. Three workers are more
than a round has chunks left in the shrunk case and as many as in the flat case;
the code starts one, which `round_trip` has and the theorems cover.
The lengths of `MCFetchStream` are 0, 1, under, exactly at and over one message,
exactly at and over the limit, and take two digits; at most one empty piece
waits in the reader's queue. Two documents and two proxies suffice to go to
another one and back. Two dials allow one replacement; a third dial can only
fail in the model, which it may also do in reality. A secret is generated for
each file at first and again after each repair of a torn one; `Repair` keeps
enough secrets back for the starts that follow. Four kills allow each file to be
torn twice.

Three dumps allow a file to be overwritten by another one and back, with both
dumps interrupted. Addresses of two bytes are four digits, so a text of five
characters can be too short, right, too long, right after trimming, and right
in bytes with a multi-byte character in it. Four channels overfill a queue of
two while one is accepted. Two addresses and two ufrags let an address move and
a ufrag be reused; two connections are the fewest that can be mistaken for each
other. The offers contain an unknown curve and the panicking profile in every
position; two losses cover the loss of a hello and of its answer.

Deadlock checking is off where the modelled activity really ends: a finished
download, a settled request, a text that was refused, a proxy that has exited,
channels that are all released; and where a bound is used up (dumps,
connections, and secrets in `identity_read_error`). It is on for the page, the
negotiation and the restarts.

The symmetry of `udp_mux` is sound: ufrags and addresses are only compared, and
no liveness property is checked there.

## 4. Fairness

- `Retrieval!FairSpec`: weak fairness of `retrieve()` and of each worker. The
  event loop runs every continuation whose promise has settled; that `getChunk`
  settles is an assumption. The code sets no timeout, so a proxy that accepts a
  stream and stays silent on a live connection would violate it.
- `FetchStream!Spec`: weak fairness of each program and of the transport while
  the connection is up. Neither a dying connection nor a teardown is owed, and
  the source owes no answer: `GetChunkSettles` and `HandlerEnds` except a lookup
  that never returns, as no timeout in the code would end it.
- `RoundTrip!TripSpec`: weak fairness of the click handler and of `retrieve()`.
- `AppShell!Spec`: weak fairness of each running download: loading the module,
  `close` and `connect` settle, and so does `retrieve` unless it hangs, which is
  a step of its own. The user and the network owe nothing, and a hang need not
  end: `ButtonsComeBack` excepts a proxy that is silent on a live connection.
- `DataChannels!ChannelsSpec`: a task that was notified runs, and so does every
  callback, whose `detach` and `close` settle, with success or an error. Browsers and request handlers owe nothing.
- `HelloNegotiation!HelloSpec`: the browser repeats its message, and what is on
  the wire is read, by weak fairness of each; at most `MaxLosses` datagrams are
  lost.
- `ProxyIdentity!IdentitySpec`, `FixtureDump!Spec` and `UdpMux!Spec` have none;
  their properties are safety properties.

## 5. Proofs

TLAPS checks 39 theorems and 154 lemmas in 6225 proof obligations. The theorems
hold for every value of the constants that satisfies the named assumptions. Every
invariant and every action property that a passing run checks is stated by a
theorem; what stays with TLC is liveness (end of this section).

**Retrieval.** Assumptions: `HashAssumption` (collision resistance),
`DecoderAssumption`, `DecryptAssumption` (types of the external functions),
`DepthAssumption`, `RetrievalAssumption` (types of requests and answers). The
answers are not restricted: the theorems hold for every proxy.

The inductive invariant `RetrievalInv` is needed because the property that
matters, `ResultIsPublished`, speaks of the last step only. It holds because the
map is the published one (`MapSound`), which survives `advance()` because the
cache holds only blobs that hash to their addresses (`CacheSound`): resolving a
map through part of the network gives what the whole network gives, if it gives
anything (`RootInLarger` in `SelfEncryptionProofs`). `Covered` and `FirstWorker`
say that a missing chunk is still to be taken or in flight and that somebody is
left to take it; so a round that ends without a rejection leaves nothing missing,
which gives `RoundSound` and `TwoRoundsSuffice`: the guard `MAX_ROUNDS` is never
what ends a download. `HonestProgress` needs `CacheSound` too: a chunk that is
supplied a second time is the one already held, so whatever changes the cache is
new to it and raises the number shown. `FreedIsUnused` is proved for
`Concurrency = 1`, as in the code: nobody calls into the retrieval after it was
freed. With more workers the run `retrieval` reaches late ones, and the
`Refinement` theorem shows that they change nothing the page can see. The
refinement maps the cache to the set of accepted addresses and the program
counter to open, returned or threw.

**Publishing.** Assumption: `EncryptAssumption`. `FixtureIsPublished`: the content
that the network as a whole has at the address `FixtureSource` gives is the file.
`EncryptAssumption` speaks of a store with exactly the chunks of one file;
`DecryptedInLarger` carries it to every store that holds at least those, by
collision resistance.

**RoundTrip.** Assumptions: those above, `HexAssumption`, `TextAssumption` (UTF-8)
and `AddressAssumption` (an address is an array of `ADDRESS_LEN` bytes). `TripInv`
says that past the page's check the text consists of digits and the address is the
one they stand for, and that a download keeps the integrity of `RetrievalProofs`,
or, for an address that no blob of the network has, stays at its start.
`ParsedIsHex` is where UTF-8 matters: a text whose bytes are all digits has no
character of several bytes, so what the parser counts in bytes is what the page
counts in characters. `RecordsCrossWhole` rests on `FlattenFixed`: where the
elements of pieces of one length end up when they are joined. `PublishedOrNothing`
puts the pieces together: who types the address of a published file gets that file
or an error, whatever the proxy answers. This is the safety half of
`FileComesBack`.

**FetchStream.** Assumption: `FetchAssumption`, with any number base and width
of the length field in which the largest response fits and which is itself
shorter than the largest response, so that the read buffer of twice that size
holds a whole answer. `RequestInvariant` has five parts: types; what the handler
has written at each of its steps and which way the stream ends (`ProxyOK`); the
bytes in the reader, the read buffer, the wire and the sink are, joined, a
prefix of the response, and all that was sent while the connection is up
(`FlowOK`); what `getChunk` has read is the header and then the blob of the
length in it (`BrowserOK`); a request that can be served meets neither a reset
nor an overflow (`ServiceOK`). `FlowOK` is needed because `AnswerIsTrue` is
about the last read only, and because pieces may be cut anywhere on the way.
`ReaderImplementsBuffer` maps each step of `exactReader` to a step of
`ByteBuffer` or to a stutter. That the length comes back as it was written is a
lemma about `Place`, by induction over the digits.

**FixtureDump.** Assumptions: `EncryptAssumption`, `DumpAssumption`. `DumpInv`
says that what the loop has visited is written (`Written`), that a complete file
is the blob of its name, and that the marker comes last. `PrintedIsReadable`,
`FirstMarkerCommits` and `MarkerNamesFile` follow from it with the lemmas of
publishing: two files that share a chunk share its bytes, so a dump never harms
an earlier one by more than what it is rewriting.

**UdpMux.** Assumption: `MuxAssumption`. `MuxInv` relates the books of the mux
and of the connections (`BooksAgree`). For that to be inductive it also has to
say that a connection in `conns` is keyed by its ufrag (`KeysKnown`), that a
connection which has heard from an address has a key (`KeyedWhenUsed`) and that
removals are of keyed connections (`RemovalsKeyed`): a removal finds its
connection by key. `RemovalsAreComplete` is an action property from the same
invariant.

**DataChannels.** Assumption: `ChannelsAssumption`. `QueueIsTyped` includes that
no channel is queued twice and that the queue stays within buffer and slot.
`WakeupsAreNotLost` needs to know which listeners hold a waker while the task
sleeps (`Watching`, `Sleeping`).

**HelloNegotiation.** Assumption: `NegotiationAssumption`. `Negotiated`: from
flight 2 on the server holds what flight 0 chooses for this browser, and no key
exists before. So the key that a repeated ClientHello keeps is of the curve
chosen anew. That the scan of a list returns an entry of it that the server
supports, or none, is proved for lists of every length.

**ProxyIdentity.** `IdentityKept` under the hypothesis `~ReadErrors`: what was
printed is on disk and complete, and what is in memory past a file's load equals
the file. From it follow `StableMultiaddr`, `RestartsAlike`, `KeptOnDisk` and
`PublishedKept`: a torn file only ever concerns an identity nobody has seen.
`identity_read_error` shows that the hypothesis is necessary.

**AppShell.** `AppInvariant`: a running download has the buttons disabled and
the client it looked at is still `state.client` (`ClientInHand`), which is not
closed (`ClientKept`), and every connected node is that client's
(`NodesAreHeld`). From it follow `RequestedProxy`, `ClosedIsUnused`,
`LatestResult`, `DownloadsApart` and `NodesHeld`.

**Recursion.** Shrunk maps, digits, lists and records have no fixed size, so
these proofs need induction over data. The library's induction theorems take a
predicate as a parameter, which the installed provers cannot instantiate.
`SequenceFacts` derives what is needed with sets in place of predicates: every
set of naturals has a least element (`LeastNatural`), a set that contains 0 and
successors contains a segment (`UpTo`), a recursive function on a segment exists
(`Recursion`, `Iteration`), and from these the facts on `FlattenSeq`.

**Only model-checked.** All liveness, because fairness is out of the prover's
reach: `Termination`, `FileComesBack`, `GetChunkSettles`, `HandlerEnds`,
`ButtonsComeBack`, `ChannelSettles`, `DropIsReset` and `Negotiates`. Three of
them state an exception that the code does not close: a silent proxy
(`ButtonsComeBack`), a `detach` or close that fails (`ChannelSettles`) and a
RESET that fails (`DropIsReset`).

## 6. Findings

1. `retrieval_nested`: `advance()` (lib.rs:164) resolves a shrunk map to its
   root in one call, but its fetch closure sees only the cache, which holds the
   wrapper chunks of the first level. A map shrunk more than once fails although
   the proxy has every chunk.
2. `identity_read_error`: any error of reading `identity.key` or `cert.pem`
   (main.rs:326, :349) counts as a first run and replaces the secret that
   deployed pages pin.
3. `app_stale_client`: `ensureConnected` (app.js:72) reuses a client whose
   connection is gone; nothing ever clears it, so downloads from that proxy fail
   until the page is reloaded or another proxy was used.

## 7. Not modelled

Command line parsing, logging, status texts, blob URLs and `build.mjs`. Which IP
`advertised` puts into the printed multiaddr, and the listener's watching of
interfaces: `ProxyIdentity` is about the PeerId and the certhash in it.
Cryptography: hashes, encryption, key exchange and the certificate formats are
uninterpreted. Several requests at once on one connection at the level of bytes:
the code issues one at a time, and the handlers share nothing but the immutable
source; `DataChannels` has many streams, without their bytes.

Of the vendored crates, what this repository does not use: closing the whole UDP
mux, streams that the proxy opens (`poll_outbound`), `poll_close`, and dials over
WebRTC. The flights of DTLS after the negotiation, the record layer and the
message formats are upstream code that the patches do not touch. `sdp.rs`,
`fingerprint.rs`, `certificate.rs` and `req_res_chan.rs` are encodings and a
channel; the latter appears in `UdpMux` as commands under way.

## 8. Plan

1. done: the download with its promise; one request; the reader; startup and
   restarts; the page; fixtures, dumps and the round trip; hex addresses;
   incoming data channels; the UDP mux; the patched negotiation.
2. done: every invariant and action property of the runs as a theorem, the
   refinements of `VerifiedFetch` and `ByteBuffer`, and the safety half of the
   round trip.
3. Next: the safety facts under the liveness properties, for every instance. A
   measure that every step of a download decreases, which bounds its length for
   any number of chunks (`Termination`); that a settled channel never changes
   its mind (`ChannelSettles`); that flight 4 is never refused to an acceptable
   offer (`Negotiates`); that a failing `exactReader` leaves the handler a way
   to its end (`HandlerEnds`).
