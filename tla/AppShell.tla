------------------------------ MODULE AppShell ------------------------------
(***************************************************************************)
(* The page, web/src/app.js: a click starts download(), which loads the    *)
(* WASM module once, reuses or replaces the one connection kept in         *)
(* state.client, and retrieves the document over it.  Every await in       *)
(* download() and ensureConnected() is a point where the user may edit the *)
(* proxy field, a connection may die and, were the buttons not disabled,   *)
(* another download could start.                                           *)
(*                                                                         *)
(* connect() of fetch-client.js creates a libp2p node and dials with it;   *)
(* close() stops the node.                                                 *)
(* retrieve() is what Retrieval proves of it: it returns the document of   *)
(* the address it was given or throws, unless one of its getChunk() calls  *)
(* never settles.                                                          *)
(***************************************************************************)
EXTENDS Naturals

CONSTANTS
  Proxies,      \* multiaddrs the user may enter
  Blank,        \* an empty proxy field
  Documents,    \* content addresses
  Download,     \* identities of calls of download()
  MaxDials,     \* bound on the number of libp2p nodes ever created
  None          \* no client, no result

ASSUME AppAssumption ==
  /\ MaxDials \in Nat
  /\ Blank \notin Proxies
  /\ None \notin Documents \cup (1..MaxDials)

Handle == 1..MaxDials

VARIABLES
  field,      \* value of the proxy input
  wasmReady,  \* state.wasmReady
  disabled,   \* are the buttons disabled (setBusy)?
  client,     \* state.client: a handle or None
  to,         \* client.multiaddr of every handle
  conn,       \* of every handle's node: "none" (not created), "open", "dead"
              \* (connection lost), "closed" (stopped), "orphan" (dial failed)
  pc,         \* per download: "idle", "wasm", "ensure", "closing", "dialing",
              \* "retrieving" or "hung" (retrieving, behind a silent proxy)
  multiaddr,  \* per download: the multiaddr read at the click
  address,    \* per download: the address it was called with
  using,      \* per download: the client it retrieves with
  result,     \* document offered in the result area, or None
  latest      \* document of the latest click (history)

locals == <<multiaddr, address, using>>
vars == <<field, wasmReady, disabled, client, to, conn, pc, locals, result, latest>>

Init ==
  /\ field \in Proxies \cup {Blank}
  /\ wasmReady = FALSE /\ disabled = FALSE
  /\ client = None
  /\ to = [h \in Handle |-> Blank] /\ conn = [h \in Handle |-> "none"]
  /\ pc = [d \in Download |-> "idle"]
  /\ multiaddr = [d \in Download |-> Blank]
  /\ address = [d \in Download |-> None]
  /\ using = [d \in Download |-> None]
  /\ result = None /\ latest = None

-----------------------------------------------------------------------------
(* The user and the network. *)

\* The proxy field stays editable during a download.
EditProxy(p) ==
  /\ field # p
  /\ field' = p
  /\ UNCHANGED <<wasmReady, disabled, client, to, conn, pc, locals, result, latest>>

\* Mutant: the previous result stays on the page.
Click_keeps_result(d, a) ==
  /\ ~disabled /\ pc[d] = "idle" /\ field # Blank
  /\ disabled' = TRUE
  /\ pc' = [pc EXCEPT ![d] = "wasm"]
  /\ multiaddr' = [multiaddr EXCEPT ![d] = field]
  /\ address' = [address EXCEPT ![d] = a]
  /\ latest' = a
  /\ UNCHANGED <<field, wasmReady, client, to, conn, using, result>>

\* Mutant: the buttons are not disabled.
Click_enabled(d, a) ==
  /\ ~disabled /\ pc[d] = "idle" /\ field # Blank
  /\ result' = None
  /\ pc' = [pc EXCEPT ![d] = "wasm"]
  /\ multiaddr' = [multiaddr EXCEPT ![d] = field]
  /\ address' = [address EXCEPT ![d] = a]
  /\ latest' = a
  /\ UNCHANGED <<field, wasmReady, disabled, client, to, conn, using>>

\* A button is clicked, with a well-formed address, and download() runs to its
\* first await.  A blank field or a malformed address only sets the status.
Click(d, a) ==
  /\ ~disabled
  /\ pc[d] = "idle"
  /\ field # Blank
  /\ disabled' = TRUE
  /\ result' = None
  /\ pc' = [pc EXCEPT ![d] = "wasm"]
  /\ multiaddr' = [multiaddr EXCEPT ![d] = field]
  /\ address' = [address EXCEPT ![d] = a]
  /\ latest' = a
  /\ UNCHANGED <<field, wasmReady, client, to, conn, using>>

\* A connection is lost: the proxy stopped, dropped an idle connection, or the
\* network changed.  Nothing tells the page.
ConnectionDies(h) ==
  /\ conn[h] = "open"
  /\ conn' = [conn EXCEPT ![h] = "dead"]
  /\ UNCHANGED <<field, wasmReady, disabled, client, to, pc, locals, result, latest>>

-----------------------------------------------------------------------------
(* download(). *)

\* Mutant: only a successful download enables the buttons again.
Fail_disabled(d) ==
  /\ pc' = [pc EXCEPT ![d] = "idle"]
  /\ UNCHANGED <<disabled, result>>

\* The catch and finally blocks.
Fail(d) ==
  /\ pc' = [pc EXCEPT ![d] = "idle"]
  /\ disabled' = FALSE
  /\ UNCHANGED result

\* ensureWasm: init() resolves, or had resolved before ...
WasmLoaded(d) ==
  /\ pc[d] = "wasm"
  /\ wasmReady' = TRUE
  /\ pc' = [pc EXCEPT ![d] = "ensure"]
  /\ UNCHANGED <<field, disabled, client, to, conn, locals, result, latest>>

\* ... or rejects.
WasmFails(d) ==
  /\ pc[d] = "wasm"
  /\ ~wasmReady
  /\ Fail(d)
  /\ UNCHANGED <<field, wasmReady, client, to, conn, locals, latest>>

\* Mutant: any connection will do.
Reusable_any(d) == client # None

\* state.client?.multiaddr === multiaddr
Reusable(d) == client # None /\ to[client] = multiaddr[d]

\* ensureConnected: the client is reused, ...
Reuse(d) ==
  /\ pc[d] = "ensure"
  /\ Reusable(d)
  /\ using' = [using EXCEPT ![d] = client]
  /\ pc' = [pc EXCEPT ![d] = "retrieving"]
  /\ UNCHANGED <<field, wasmReady, disabled, client, to, conn, multiaddr, address, result, latest>>

\* Mutant: the connection to another proxy is left open.
Replace_unclosed(d) ==
  /\ pc[d] = "ensure"
  /\ ~Reusable(d)
  /\ pc' = [pc EXCEPT ![d] = "dialing"]
  /\ UNCHANGED <<field, wasmReady, disabled, client, to, conn, locals, result, latest>>

\* ... or the one to another proxy is closed first, ...
Replace(d) ==
  /\ pc[d] = "ensure"
  /\ ~Reusable(d)
  /\ pc' = [pc EXCEPT ![d] = IF client # None THEN "closing" ELSE "dialing"]
  /\ UNCHANGED <<field, wasmReady, disabled, client, to, conn, locals, result, latest>>

\* Mutant: the closed client is not forgotten.
Closed_kept(d) ==
  /\ pc[d] = "closing"
  /\ conn' = IF client = None THEN conn ELSE [conn EXCEPT ![client] = "closed"]
  /\ pc' = [pc EXCEPT ![d] = "dialing"]
  /\ UNCHANGED <<field, wasmReady, disabled, client, to, locals, result, latest>>

\* ... and forgotten, whether close() resolves or rejects; the node's stop(),
\* which is external, is taken to leave no connection either way, ...
Closed(d) ==
  /\ pc[d] = "closing"
  /\ conn' = IF client = None THEN conn ELSE [conn EXCEPT ![client] = "closed"]
  /\ client' = None
  /\ pc' = [pc EXCEPT ![d] = "dialing"]
  /\ UNCHANGED <<field, wasmReady, disabled, to, locals, result, latest>>

\* The node that createLibp2p() makes next.
NextNode(h) == conn[h] = "none" /\ \A g \in 1..(h - 1) : conn[g] # "none"

\* ... and a new one dialed, which is kept, ...
Dialed(d) ==
  /\ pc[d] = "dialing"
  /\ \E h \in Handle :
       /\ NextNode(h)
       /\ conn' = [conn EXCEPT ![h] = "open"]
       /\ to' = [to EXCEPT ![h] = multiaddr[d]]
       /\ client' = h
       /\ using' = [using EXCEPT ![d] = h]
  /\ pc' = [pc EXCEPT ![d] = "retrieving"]
  /\ UNCHANGED <<field, wasmReady, disabled, multiaddr, address, result, latest>>

\* ... unless createLibp2p() rejects, or the multiaddr does not parse or the
\* dial fails: then the node just created runs on, and nobody can stop it.
NodeFails(d) ==
  /\ pc[d] = "dialing"
  /\ Fail(d)
  /\ UNCHANGED <<field, wasmReady, client, to, conn, locals, latest>>

DialFails(d) ==
  /\ pc[d] = "dialing"
  /\ \E h \in Handle : NextNode(h) /\ conn' = [conn EXCEPT ![h] = "orphan"]
  /\ Fail(d)
  /\ UNCHANGED <<field, wasmReady, client, to, locals, latest>>

\* retrieve() returns the document and present() offers it.
Retrieved(d) ==
  /\ pc[d] = "retrieving"
  /\ conn[using[d]] = "open"
  /\ result' = address[d]
  /\ pc' = [pc EXCEPT ![d] = "idle"]
  /\ disabled' = FALSE
  /\ UNCHANGED <<field, wasmReady, client, to, conn, locals, latest>>

\* The proxy never answers a getChunk(), which has no timeout: its lookup
\* hangs, on a connection that is alive.
RetrieveHangs(d) ==
  /\ pc[d] = "retrieving"
  /\ conn[using[d]] = "open"
  /\ pc' = [pc EXCEPT ![d] = "hung"]
  /\ UNCHANGED <<field, wasmReady, disabled, client, to, conn, locals, result, latest>>

\* retrieve() throws, also out of a hang when the connection is lost; the
\* client stays in state.client.
RetrieveFails(d) ==
  /\ pc[d] = "retrieving" \/ (pc[d] = "hung" /\ conn[using[d]] # "open")
  /\ Fail(d)
  /\ UNCHANGED <<field, wasmReady, client, to, conn, locals, latest>>

Step(d) ==
  \/ WasmLoaded(d) \/ WasmFails(d) \/ Reuse(d) \/ Replace(d) \/ Closed(d)
  \/ Dialed(d) \/ NodeFails(d) \/ DialFails(d) \/ Retrieved(d) \/ RetrieveFails(d)

Next ==
  \/ \E p \in Proxies \cup {Blank} : EditProxy(p)
  \/ \E d \in Download, a \in Documents : Click(d, a)
  \/ \E h \in Handle : ConnectionDies(h)
  \/ \E d \in Download : Step(d) \/ RetrieveHangs(d)

\* The awaits of download() settle: init(), connect() and close() resolve or
\* reject, and so does retrieve() unless it hangs.  The user, the network and
\* the proxy owe nothing: connections need not die, and a hang need not end.
Spec == Init /\ [][Next]_vars /\ \A d \in Download : WF_vars(Step(d))

-----------------------------------------------------------------------------
(* Properties. *)

\* Every variable has its type.
TypeOK ==
  /\ field \in Proxies \cup {Blank}
  /\ wasmReady \in BOOLEAN /\ disabled \in BOOLEAN
  /\ client \in Handle \cup {None}
  /\ to \in [Handle -> Proxies \cup {Blank}]
  /\ conn \in [Handle -> {"none", "open", "dead", "closed", "orphan"}]
  /\ pc \in [Download -> {"idle", "wasm", "ensure", "closing", "dialing", "retrieving", "hung"}]
  /\ multiaddr \in [Download -> Proxies \cup {Blank}]
  /\ address \in [Download -> Documents \cup {None}]
  /\ using \in [Download -> Handle \cup {None}]
  /\ result \in Documents \cup {None} /\ latest \in Documents \cup {None}

Retrieving(d) == pc[d] \in {"retrieving", "hung"}

\* A document is fetched from the proxy that was in the field at the click,
\* whatever the user has typed there since and whichever client was kept.
UsesRequestedProxy ==
  \A d \in Download : Retrieving(d) => to[using[d]] = multiaddr[d]

\* No download uses a client that the page itself has closed, even after the
\* dial that should have replaced it failed and the user went back to it.
NeverUsesClosed ==
  \A d \in Download : Retrieving(d) => conn[using[d]] # "closed"

\* One download at a time, so that no download closes the connection under
\* another one.
OneDownload ==
  \A d, e \in Download : pc[d] # "idle" /\ pc[e] # "idle" => d = e

\* The document offered is the one asked for last: nothing of an earlier
\* download stays on the page, or comes late.
ResultIsLatest == result # None => result = latest

\* A node whose dial succeeded is state.client's or was stopped, also when its
\* connection is lost or the next dial fails: only a failed dial leaks a node,
\* and at most one connection is open.
NodesAreHeld == \A h \in Handle : conn[h] \in {"open", "dead"} => h = client

\* While a download runs, the buttons are disabled and the result area is empty.
Running ==
  \A d \in Download : pc[d] # "idle" =>
    disabled /\ result = None /\ latest = address[d] /\ address[d] \in Documents

\* At every await of ensureConnected() and download() the client a download
\* looked at is still state.client.
ClientInHand ==
  \A d \in Download :
    /\ pc[d] = "closing" => client # None
    /\ pc[d] = "dialing" => client = None
    /\ Retrieving(d) =>
         using[d] = client /\ client # None /\ to[client] = multiaddr[d]

\* state.client was not closed.
ClientKept == client # None => conn[client] \in {"open", "dead"}

\* The inductive invariant from which the properties above follow.
AppInv ==
  TypeOK /\ OneDownload /\ Running /\ ClientInHand /\ ClientKept /\ NodesAreHeld /\ ResultIsLatest

\* The proxy of a running download is silent, on a connection that is alive.
SilentProxy == \E d \in Download : pc[d] = "hung" /\ conn[using[d]] = "open"

\* The buttons do not stay disabled: every path out of download(), errors and
\* lost connections included, enables them again.  The one exception is a
\* proxy that is silent while the connection lives: nothing ends that wait.
ButtonsComeBack == disabled ~> (~disabled \/ SilentProxy)

\* A download that reuses the kept client has a connection that exists at
\* that moment.
ReuseIsLive ==
  [][\A d \in Download : pc[d] = "ensure" /\ pc'[d] = "retrieving" =>
       conn'[using'[d]] = "open"]_vars
=============================================================================
