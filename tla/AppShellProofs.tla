--------------------------- MODULE AppShellProofs ---------------------------
(***************************************************************************)
(* The page, for any number of proxies, documents, downloads and dials.    *)
(* The argument is AppInv: disabling the buttons keeps downloads apart, so *)
(* the client a download works with is still state.client at every await,  *)
(* and only Closed, which belongs to the same download, can close it.      *)
(***************************************************************************)
EXTENDS AppShell, TLAPS

\* No download runs on a fresh page.
LEMMA InitApp == Init => AppInv
  BY AppAssumption 
  DEF Init, AppInv, TypeOK, OneDownload, Running, ClientInHand, ClientKept, NodesAreHeld, ResultIsLatest, Handle,
      Retrieving

\* No step of the user, the network or a download breaks the invariant.
LEMMA NextApp == AppInv /\ [Next]_vars => AppInv'
<1> SUFFICES ASSUME AppInv, [Next]_vars PROVE AppInv'
  OBVIOUS
<1> USE AppAssumption
    DEF AppInv, TypeOK, OneDownload, Running, ClientInHand, ClientKept, NodesAreHeld, ResultIsLatest,
        Handle, Retrieving, vars, locals
<1>1. ASSUME NEW p \in Proxies \cup {Blank}, EditProxy(p) PROVE AppInv'
  BY <1>1 DEF EditProxy
<1>2. ASSUME NEW d \in Download, NEW a \in Documents, Click(d, a) PROVE AppInv'
  BY <1>2 DEF Click
<1>3. ASSUME NEW h \in Handle, ConnectionDies(h) PROVE AppInv'
  BY <1>3 DEF ConnectionDies
<1>4. ASSUME NEW d \in Download, Step(d) PROVE AppInv'
  <2>0. ASSUME pc[d] # "idle", Fail(d),
               UNCHANGED <<field, wasmReady, client, to, conn, locals, latest>>
        PROVE  AppInv'
    <3>1. pc' = [pc EXCEPT ![d] = "idle"] /\ disabled' = FALSE /\ UNCHANGED result
      BY <2>0 DEF Fail
    <3>2. UNCHANGED <<field, wasmReady, client, to, conn, locals, latest>>
      BY <2>0
    <3>3. \A e \in Download : pc'[e] = "idle"  BY <2>0, <3>1
    <3>4. TypeOK'  BY <3>1, <3>2
    <3>5. OneDownload' /\ Running' /\ ClientInHand'  BY <3>3
    <3>6. ClientKept' /\ NodesAreHeld' /\ ResultIsLatest'  BY <3>1, <3>2
    <3> HIDE DEF TypeOK, OneDownload, Running, ClientInHand, ClientKept, NodesAreHeld, ResultIsLatest
    <3> QED  BY <3>4, <3>5, <3>6
  <2>1. CASE WasmLoaded(d)  BY <2>1 DEF WasmLoaded
  <2>2. CASE WasmFails(d)
    <3> HIDE DEF AppInv
    <3> QED  BY <2>0, <2>2 DEF WasmFails
  <2>3. CASE Reuse(d)       BY <2>3 DEF Reuse, Reusable
  <2>4. CASE Replace(d)     BY <2>4 DEF Replace, Reusable
  <2>5. CASE Closed(d)      BY <2>5 DEF Closed
  <2>6. CASE Dialed(d)
    <3>1. PICK h \in Handle :
            /\ conn[h] = "none"
            /\ conn' = [conn EXCEPT ![h] = "open"]
            /\ to' = [to EXCEPT ![h] = multiaddr[d]]
            /\ client' = h
            /\ using' = [using EXCEPT ![d] = h]
      BY <2>6 DEF Dialed, NextNode
    <3>2. pc[d] = "dialing" /\ client = None /\ pc' = [pc EXCEPT ![d] = "retrieving"]
      BY <2>6 DEF Dialed
    <3>3. UNCHANGED <<field, wasmReady, disabled, multiaddr, address, result, latest>>
      BY <2>6 DEF Dialed
    <3>4. TypeOK'  BY <3>1, <3>2, <3>3
    <3>5. conn'[h] = "open" /\ to'[h] = multiaddr'[d] /\ using'[d] = h /\ h # None
      BY <3>1, <3>3
    <3>6. \A e \in Download \ {d} : pc[e] = "idle" /\ pc'[e] = "idle"  BY <3>2
    <3>7. \A g \in Handle \ {h} : conn'[g] = conn[g] /\ conn[g] \notin {"open", "dead"}
      BY <3>1, <3>2
    <3>8. OneDownload'  BY <3>6
    <3>9. ResultIsLatest'  BY <3>3
    <3>10. Running'  BY <3>2, <3>3, <3>6
    <3>11. ClientInHand'  BY <3>1, <3>2, <3>3, <3>5, <3>6
    <3>12. ClientKept' /\ NodesAreHeld'  BY <3>1, <3>5, <3>7
    <3> HIDE DEF TypeOK, OneDownload, Running, ClientInHand, ClientKept, NodesAreHeld, ResultIsLatest
    <3> QED  BY <3>4, <3>8, <3>9, <3>10, <3>11, <3>12
  <2>7. CASE NodeFails(d)
    <3> HIDE DEF AppInv
    <3> QED  BY <2>0, <2>7 DEF NodeFails
  <2>8. CASE Retrieved(d)
    <3>1. pc' = [pc EXCEPT ![d] = "idle"] /\ result' = address[d] /\ pc[d] = "retrieving"
      BY <2>8 DEF Retrieved
    <3>2. disabled' = FALSE /\ UNCHANGED <<field, wasmReady, client, to, conn, locals, latest>>
      BY <2>8 DEF Retrieved
    <3>3. \A e \in Download : pc'[e] = "idle"  BY <3>1
    <3>4. TypeOK'  BY <3>1, <3>2
    <3>5. OneDownload' /\ Running' /\ ClientInHand'  BY <3>3
    <3>6. ClientKept' /\ NodesAreHeld' /\ ResultIsLatest'  BY <3>1, <3>2
    <3> HIDE DEF TypeOK, OneDownload, Running, ClientInHand, ClientKept, NodesAreHeld, ResultIsLatest
    <3> QED  BY <3>4, <3>5, <3>6
  <2>9. CASE RetrieveFails(d)
    <3> HIDE DEF AppInv
    <3> QED  BY <2>0, <2>9 DEF RetrieveFails
  <2>10. CASE DialFails(d)
    <3>1. PICK h \in Handle : conn[h] = "none" /\ conn' = [conn EXCEPT ![h] = "orphan"]
      BY <2>10 DEF DialFails, NextNode
    <3>2. h # client  BY <3>1
    <3>3. \A e \in Download : pc'[e] = "idle"  BY <2>10 DEF DialFails, Fail
    <3> QED  BY <2>10, <3>1, <3>2, <3>3 DEF DialFails, Fail
  <2> QED  BY <1>4, <2>1, <2>2, <2>3, <2>4, <2>5, <2>6, <2>7, <2>8, <2>9, <2>10 DEF Step
<1>5. ASSUME NEW d \in Download, RetrieveHangs(d) PROVE AppInv'
  BY <1>5 DEF RetrieveHangs
<1>6. CASE UNCHANGED vars  BY <1>6
<1> QED  BY <1>1, <1>2, <1>3, <1>4, <1>5, <1>6 DEF Next

\* The page's invariant, in every state it reaches.
THEOREM AppInvariant == Spec => []AppInv
<1> QED  BY InitApp, NextApp, PTL DEF Spec

\* A running download uses the proxy it was started with.
THEOREM RequestedProxy == Spec => []UsesRequestedProxy
<1>1. AppInv => UsesRequestedProxy  BY DEF AppInv, ClientInHand, UsesRequestedProxy, Retrieving
<1> QED  BY <1>1, AppInvariant, PTL

\* A running download never uses a client the page has closed.
THEOREM ClosedIsUnused == Spec => []NeverUsesClosed
<1>1. AppInv => NeverUsesClosed  BY DEF AppInv, ClientInHand, ClientKept, NeverUsesClosed, Retrieving
<1> QED  BY <1>1, AppInvariant, PTL

\* What the page offers is what was asked for last.
THEOREM LatestResult == Spec => []ResultIsLatest
<1>1. AppInv => ResultIsLatest  BY DEF AppInv
<1> QED  BY <1>1, AppInvariant, PTL

\* Downloads do not overlap.
THEOREM DownloadsApart == Spec => []OneDownload
<1>1. AppInv => OneDownload  BY DEF AppInv
<1> QED  BY <1>1, AppInvariant, PTL

\* Only a failed dial leaks a node.
THEOREM NodesHeld == Spec => []NodesAreHeld
<1>1. AppInv => NodesAreHeld  BY DEF AppInv
<1> QED  BY <1>1, AppInvariant, PTL
=============================================================================
