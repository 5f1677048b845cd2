----------------------------- MODULE ProxyProofs -----------------------------
(***************************************************************************)
(* The components under the proxy's request handler, for instances of any  *)
(* size:                                                                   *)
(*   - UdpMux: the mux's books agree whatever the order in which commands  *)
(*     are served, so that a removal is complete;                          *)
(*   - DataChannels: the connection task never sleeps over work;           *)
(*   - HelloNegotiation: what goes into flight 4 fits together;            *)
(*   - ProxyIdentity: without read errors the proxy keeps its multiaddr,   *)
(*     for every number of kills and restarts.  The assumption ~ReadErrors *)
(*     is needed: the run identity_read_error shows two multiaddrs once a  *)
(*     read may fail.                                                      *)
(* The components share no state; a theorem speaks of one of them.         *)
(***************************************************************************)
EXTENDS UdpMux, DataChannels, HelloNegotiation, ProxyIdentity, SequenceFacts, FiniteSetTheorems

-----------------------------------------------------------------------------
(* The UDP mux. *)

\* MuxInv without its type invariant, in parts.
KeysKnown == \A u \in Ufrag : conns[u] # None => key[conns[u]] = u
KeyedWhenUsed ==
  \A c \in Conn : addresses[c] \subseteq heard[c] /\ (heard[c] # {} => key[c] # None)
RemovalsKeyed == \A r \in removals : key[r[1]] # None

\* These parts make up the invariant.
LEMMA MuxInvParts ==
  MuxInv <=> TypeOK /\ BooksAgree /\ KeysKnown /\ KeyedWhenUsed /\ RemovalsKeyed
BY DEF MuxInv, KeysKnown, KeyedWhenUsed, RemovalsKeyed

\* The connection a STUN packet is written to is one that has a key.
LEMMA ConnOfIsKeyed ==
  ASSUME MuxInv, NEW a \in SocketAddr, NEW u \in Ufrag, ConnOf(a, u) # None
  PROVE  ConnOf(a, u) \in Conn /\ key[ConnOf(a, u)] # None
<1>1. CASE address_map[a] # None
  <2>1. ConnOf(a, u) = address_map[a] /\ address_map[a] \in Conn
    BY <1>1 DEF ConnOf, MuxInv, TypeOK
  <2>2. a \in addresses[address_map[a]]
    BY <1>1 DEF MuxInv, BooksAgree
  <2> QED
    BY <2>1, <2>2 DEF MuxInv
<1>2. CASE address_map[a] = None
  <2>1. ConnOf(a, u) = conns[u] /\ conns[u] # None /\ conns[u] \in Conn
    BY <1>2 DEF ConnOf, MatchesStun, MuxInv, TypeOK
  <2> QED
    BY <2>1, MuxAssumption DEF MuxInv
<1> QED
  BY <1>1, <1>2

\* A datagram handed to its connection keeps the maps of the mux consistent.
LEMMA DeliverInv ==
  ASSUME MuxInv, NEW a \in SocketAddr, NEW u \in Ufrag, Deliver(a, u)
  PROVE  MuxInv'
<1>1. ConnOf(a, u) \in Conn /\ key[ConnOf(a, u)] # None
  BY ConnOfIsKeyed DEF Deliver
<1>2. TypeOK'
  BY <1>1 DEF MuxInv, TypeOK, Deliver
<1>3. KeyedWhenUsed'
  BY <1>1 DEF MuxInv, TypeOK, Deliver, KeyedWhenUsed
<1>4. BooksAgree' /\ KeysKnown' /\ RemovalsKeyed'
  BY DEF MuxInv, Deliver, BooksAgree, KeysKnown, RemovalsKeyed
<1> QED
  BY <1>2, <1>3, <1>4 DEF MuxInv, KeysKnown, KeyedWhenUsed, RemovalsKeyed

\* A connection that is created takes a number that nothing refers to.
LEMMA GetConnInv ==
  ASSUME MuxInv, NEW a \in SocketAddr, NEW u \in Ufrag, GetConn(a, u)
  PROVE  MuxInv'
<1>1. PICK c \in Conn :
        /\ c = conns[u] \/ (conns[u] = None /\ key[c] = None)
        /\ conns' = [conns EXCEPT ![u] = c]
        /\ key' = [key EXCEPT ![c] = u]
        /\ heard' = [heard EXCEPT ![c] = @ \cup {a}]
  BY DEF GetConn
<1>2. UNCHANGED <<address_map, new_addrs, addresses, closed, registrations, removals>>
      /\ upgrades' \subseteq upgrades
  BY DEF GetConn
<1>3. c # None /\ u # None
  BY MuxAssumption DEF Conn
<1>4. \A d \in Conn : key'[d] = key[d] \/ (d = c /\ key'[d] = u)
  BY <1>1 DEF MuxInv, TypeOK
<1>5. TypeOK'
  BY <1>1, <1>2 DEF MuxInv, TypeOK
<1>6. KeysKnown'
  <2> SUFFICES ASSUME NEW v \in Ufrag, conns'[v] # None PROVE key'[conns'[v]] = v
    BY DEF KeysKnown
  <2>1. CASE v = u
    BY <1>1, <2>1 DEF MuxInv, TypeOK
  <2>2. CASE v # u
    <3>1. conns'[v] = conns[v] /\ conns[v] \in Conn /\ key[conns[v]] = v /\ v # None
      BY <1>1, <2>2, MuxAssumption DEF MuxInv, TypeOK
    <3>2. conns[v] # c
      BY <1>1, <1>3, <2>2, <3>1 DEF MuxInv
    <3> QED
      BY <1>1, <3>1, <3>2 DEF MuxInv, TypeOK
  <2> QED
    BY <2>1, <2>2
<1>7. KeyedWhenUsed'
  BY <1>1, <1>2, <1>3, <1>4 DEF MuxInv, TypeOK, KeyedWhenUsed
<1>8. RemovalsKeyed'
  BY <1>2, <1>3, <1>4 DEF MuxInv, TypeOK, RemovalsKeyed
<1>9. BooksAgree'
  BY <1>2 DEF MuxInv, BooksAgree
<1> QED
  BY <1>5, <1>6, <1>7, <1>8, <1>9 DEF MuxInv, KeysKnown, KeyedWhenUsed, RemovalsKeyed

\* An address is asked for before it is routed: its registration is new.
LEMMA SendToInv ==
  ASSUME MuxInv, NEW c \in Conn, NEW a \in SocketAddr, SendTo(c, a)
  PROVE  MuxInv'
<1>1. TypeOK'
  BY DEF MuxInv, TypeOK, SendTo
<1>2. address_map[a] # c
  BY MuxAssumption DEF MuxInv, BooksAgree, SendTo, Conn
<1>3. \A d \in Conn : addresses[d] \subseteq addresses'[d]
  BY DEF MuxInv, TypeOK, SendTo
<1>4. BooksAgree'
  <2>1. ASSUME NEW b \in SocketAddr, address_map'[b] # None
        PROVE  b \in addresses'[address_map'[b]]
    BY <1>3, <2>1 DEF MuxInv, TypeOK, BooksAgree, SendTo
  <2>2. ASSUME NEW r \in registrations'
        PROVE  r[2] \in addresses'[r[1]] /\ address_map'[r[2]] # r[1]
    <3>1. CASE r = <<c, a>>
      BY <1>2, <3>1 DEF MuxInv, TypeOK, SendTo
    <3>2. CASE r \in registrations
      BY <1>3, <3>2 DEF MuxInv, TypeOK, BooksAgree, SendTo
    <3> QED
      BY <2>2, <3>1, <3>2 DEF SendTo
  <2> QED
    BY <2>1, <2>2 DEF BooksAgree
<1>5. KeyedWhenUsed'
  BY DEF MuxInv, TypeOK, SendTo, KeyedWhenUsed
<1>6. KeysKnown' /\ RemovalsKeyed'
  BY DEF MuxInv, SendTo, KeysKnown, RemovalsKeyed
<1> QED
  BY <1>1, <1>4, <1>5, <1>6 DEF MuxInv, KeysKnown, KeyedWhenUsed, RemovalsKeyed

\* The connection that loses an address is not waiting for its registration.
LEMMA RegisterInv ==
  ASSUME MuxInv, NEW c \in Conn, NEW a \in SocketAddr, Register(c, a)
  PROVE  MuxInv'
<1>1. UNCHANGED <<conns, key, heard, closed, upgrades, removals>>
      /\ new_addrs' \subseteq new_addrs /\ registrations' = registrations \ {<<c, a>>}
      /\ <<c, a>> \in registrations
  BY DEF Register
<1>2. \A r \in registrations : r[1] \in Conn /\ r[2] \in SocketAddr /\ r = <<r[1], r[2]>>
  BY DEF MuxInv, TypeOK
<1>3. a \in addresses[c] /\ c # None
  BY <1>1, MuxAssumption DEF MuxInv, BooksAgree, Conn
<1>4. CASE UNCHANGED <<address_map, addresses>>
  BY <1>1, <1>4 DEF MuxInv, TypeOK, BooksAgree
<1>5. CASE /\ address_map' = [address_map EXCEPT ![a] = c]
           /\ address_map[a] = None /\ UNCHANGED addresses
  <2>1. TypeOK'
    BY <1>1, <1>5 DEF MuxInv, TypeOK
  <2>2. BooksAgree'
    BY <1>1, <1>2, <1>3, <1>5 DEF MuxInv, TypeOK, BooksAgree
  <2> QED
    BY <1>1, <1>5, <2>1, <2>2 DEF MuxInv
<1>6. CASE /\ address_map' = [address_map EXCEPT ![a] = c]
           /\ address_map[a] # None
           /\ key[address_map[a]] # key[c]
           /\ addresses' = [addresses EXCEPT ![address_map[a]] = @ \ {a}]
  <2> DEFINE old == address_map[a]
  <2>1. old \in Conn /\ old # c
    BY <1>6 DEF MuxInv, TypeOK
  <2>2. TypeOK'
    BY <1>1, <1>6 DEF MuxInv, TypeOK
  <2>3. \A d \in Conn : addresses'[d] = IF d = old THEN addresses[d] \ {a} ELSE addresses[d]
    BY <1>6 DEF MuxInv, TypeOK
  <2>4. \A b \in SocketAddr : address_map'[b] = IF b = a THEN c ELSE address_map[b]
    BY <1>6 DEF MuxInv, TypeOK
  <2>5. ASSUME NEW b \in SocketAddr, address_map'[b] # None
        PROVE  b \in addresses'[address_map'[b]]
    <3>1. CASE b = a
      BY <1>3, <2>1, <2>3, <2>4, <3>1
    <3>2. CASE b # a
      <4>1. address_map'[b] = address_map[b] /\ address_map[b] \in Conn
            /\ b \in addresses[address_map[b]]
        BY <2>4, <2>5, <3>2 DEF MuxInv, TypeOK, BooksAgree
      <4> QED
        BY <2>3, <3>2, <4>1
    <3> QED
      BY <3>1, <3>2
  <2>6. ASSUME NEW r \in registrations'
        PROVE  r[2] \in addresses'[r[1]] /\ address_map'[r[2]] # r[1]
    <3>1. r \in registrations /\ r # <<c, a>>
      BY <1>1, <2>6
    <3>2. r[2] \in addresses[r[1]] /\ address_map[r[2]] # r[1]
      BY <3>1 DEF MuxInv, BooksAgree
    <3> HIDE DEF old
    <3>3. r[1] = old => r[2] # a
      BY <3>2 DEF old
    <3>4. r[2] = a => r[1] # c
      BY <1>2, <3>1
    <3> QED
      BY <1>2, <2>3, <2>4, <3>1, <3>2, <3>3, <3>4
  <2>7. BooksAgree'
    BY <2>5, <2>6 DEF BooksAgree
  <2>8. KeyedWhenUsed'
    <3> HIDE DEF old
    <3> QED
      BY <1>1, <2>3 DEF MuxInv, KeyedWhenUsed
  <2> QED
    BY <1>1, <2>2, <2>7, <2>8 DEF MuxInv, KeyedWhenUsed
<1> QED
  BY <1>4, <1>5, <1>6 DEF Register

\* Removing a connection keeps the maps of the mux consistent.
LEMMA RemoveConnInv ==
  ASSUME MuxInv, NEW r \in removals, RemoveConn(r)
  PROVE  MuxInv'
<1> DEFINE u == key[r[1]]
<1>1. r[1] \in Conn /\ u \in Ufrag
  BY DEF MuxInv, TypeOK
<1>2. /\ conns' = [conns EXCEPT ![u] = None]
      /\ \A a \in SocketAddr : address_map'[a] \in {None, address_map[a]}
      /\ address_map' \in [SocketAddr -> Conn \cup {None}]
  BY DEF MuxInv, TypeOK, RemoveConn
<1>3. removals' \subseteq removals
      /\ UNCHANGED <<new_addrs, key, addresses, heard, closed, upgrades, registrations>>
  BY DEF RemoveConn, remote
<1> HIDE DEF u
<1>4. \A v \in Ufrag : conns'[v] \in {None, conns[v]}
  BY <1>1, <1>2 DEF MuxInv, TypeOK
<1>5. TypeOK'
  <2>1. conns' \in [Ufrag -> Conn \cup {None}]
    BY <1>2 DEF MuxInv, TypeOK
  <2> QED
    BY <1>2, <1>3, <2>1 DEF MuxInv, TypeOK
<1>6. BooksAgree'
  <2>1. ASSUME NEW q \in registrations
        PROVE  q[2] \in SocketAddr /\ q[1] \in Conn /\ q[1] # None
    BY MuxAssumption DEF MuxInv, TypeOK, Conn
  <2> QED
    BY <1>2, <1>3, <2>1 DEF MuxInv, BooksAgree
<1>7. KeysKnown' /\ KeyedWhenUsed' /\ RemovalsKeyed'
  BY <1>3, <1>4 DEF MuxInv, KeysKnown, KeyedWhenUsed, RemovalsKeyed
<1> QED
  BY <1>5, <1>6, <1>7 DEF MuxInv, KeysKnown, KeyedWhenUsed, RemovalsKeyed

\* The inductive step, over every interleaving of datagrams and commands.
LEMMA MuxStep == MuxInv /\ [Next]_vars => MuxInv'
<1> SUFFICES ASSUME MuxInv, [Next]_vars PROVE MuxInv'
  OBVIOUS
<1>1. ASSUME NEW a \in SocketAddr, NEW u \in Ufrag, Deliver(a, u) PROVE MuxInv'
  BY <1>1, DeliverInv
<1>2. ASSUME NEW a \in SocketAddr, NEW u \in Ufrag, ReportNewAddr(a, u) PROVE MuxInv'
  <2>1. UNCHANGED <<conns, address_map, key, addresses, heard, closed, registrations, removals>>
        /\ new_addrs' = new_addrs \cup {a} /\ upgrades' = upgrades \cup {<<a, u>>}
    BY <1>2 DEF ReportNewAddr, remote
  <2>2. TypeOK'
    BY <2>1 DEF MuxInv, TypeOK
  <2> QED
    BY <2>1, <2>2 DEF MuxInv, BooksAgree
<1>3. ASSUME NEW a \in SocketAddr, NEW u \in Ufrag, GetConn(a, u) PROVE MuxInv'
  BY <1>3, GetConnInv
<1>4. ASSUME NEW a \in SocketAddr, NEW u \in Ufrag, UpgradeFails(a, u) PROVE MuxInv'
  <2>1. UNCHANGED <<conns, address_map, new_addrs, key, addresses, heard, closed, registrations, removals>>
        /\ upgrades' \subseteq upgrades
    BY <1>4 DEF UpgradeFails, remote
  <2>2. TypeOK'
    BY <2>1 DEF MuxInv, TypeOK
  <2> QED
    BY <2>1, <2>2 DEF MuxInv, BooksAgree
<1>5. ASSUME NEW c \in Conn, NEW a \in SocketAddr, SendTo(c, a) PROVE MuxInv'
  BY <1>5, SendToInv
<1>6. ASSUME NEW c \in Conn, NEW a \in SocketAddr, Register(c, a) PROVE MuxInv'
  BY <1>6, RegisterInv
<1>7. ASSUME NEW c \in Conn, CloseConn(c) PROVE MuxInv'
  <2>1. UNCHANGED <<conns, address_map, new_addrs, key, addresses, heard, upgrades, registrations>>
        /\ closed' = closed \cup {c} /\ key[c] # None
        /\ removals' = removals \cup {<<c, "agent">>, <<c, "future">>}
    BY <1>7 DEF CloseConn
  <2>2. TypeOK'
    BY <2>1 DEF MuxInv, TypeOK
  <2>3. RemovalsKeyed'
    BY <2>1 DEF MuxInv, RemovalsKeyed
  <2> QED
    BY <2>1, <2>2, <2>3 DEF MuxInv, BooksAgree, RemovalsKeyed
<1>8. ASSUME NEW r \in removals, RemoveConn(r) PROVE MuxInv'
  BY <1>8, RemoveConnInv
<1>9. CASE UNCHANGED vars
  BY <1>9 DEF vars, remote, MuxInv, TypeOK, BooksAgree
<1> QED
  BY <1>1, <1>2, <1>3, <1>4, <1>5, <1>6, <1>7, <1>8, <1>9 DEF Next

\* Every address that the mux routes, or is asked to route, to a connection is
\* one the connection lists, and every connection in use has its key.
THEOREM MuxInvariant == Spec => []MuxInv
<1>1. Init => MuxInv
  BY DEF Init, MuxInv, TypeOK, BooksAgree
<1> QED
  BY <1>1, MuxStep, PTL DEF Spec

\* The removal that conn.get_addresses() drives leaves no address routed to
\* the connection that goes, whatever registrations and moves preceded it.
THEOREM RemovalsAreComplete == Spec => RemovalIsComplete
<1> DEFINE Complete ==
      \A u \in Ufrag : conns[u] # None /\ conns'[u] # conns[u] =>
        \A a \in SocketAddr : address_map'[a] # conns[u]
<1>1. MuxInv /\ [Next]_vars => [Complete]_vars
  <2> SUFFICES ASSUME MuxInv, Next, NEW u \in Ufrag, conns[u] # None, conns'[u] # conns[u],
                      NEW a \in SocketAddr
               PROVE  address_map'[a] # conns[u]
    OBVIOUS
  <2>1. PICK r \in removals : RemoveConn(r)
    <3>1. ASSUME NEW b \in SocketAddr, NEW v \in Ufrag, GetConn(b, v) PROVE FALSE
      BY <3>1 DEF GetConn, MuxInv, TypeOK
    <3>2. conns' # conns
      OBVIOUS
    <3> QED
      BY <3>1, <3>2 DEF Next, Deliver, ReportNewAddr, UpgradeFails, SendTo, Register, CloseConn
  <2>2. u = key[r[1]]
    BY <2>1 DEF RemoveConn, MuxInv, TypeOK
  <2>3. CASE a \in addresses[conns[u]]
    BY <2>1, <2>2, <2>3 DEF RemoveConn
  <2>4. CASE a \notin addresses[conns[u]]
    <3>1. address_map'[a] = address_map[a]
      BY <2>1, <2>2, <2>4 DEF RemoveConn
    <3> QED
      BY <2>4, <3>1 DEF MuxInv, BooksAgree
  <2> QED
    BY <2>3, <2>4
<1> QED
  BY <1>1, MuxInvariant, PTL DEF Spec, RemovalIsComplete
-----------------------------------------------------------------------------
(* The incoming data channels. *)

\* A step that changes neither the queue nor which channels are queued keeps
\* the type; which of the other states a channel is in does not matter.
ChannelState == {"none", "opened", "queued", "refusing", "refused", "abandoned",
                 "accepted", "closed", "dropped", "reset", "unreset"}

\* A step that queues and takes no channel keeps the types of the muxer.
LEMMA SameQueue ==
  ASSUME ChannelsTypeOK, chan' \in [Channel -> ChannelState], queue' = queue,
         \A c \in Channel : chan'[c] = "queued" <=> chan[c] = "queued",
         polled' \subseteq listeners', listeners' \subseteq Channel,
         waker' \in BOOLEAN, rx_waker' \in BOOLEAN, notified' \in BOOLEAN,
         turn' \in {"poll", "inbound", "idle"}
  PROVE  ChannelsTypeOK'
BY DEF ChannelsTypeOK, ChannelState

\* try_send: the channel was not queued, and there is room for it.
LEMMA TrySendType ==
  ASSUME ChannelsTypeOK, NEW c \in Channel, TrySend(c)
  PROVE  ChannelsTypeOK'
<1>1. /\ chan \in [Channel -> ChannelState] /\ queue \in Seq(Channel)
      /\ chan[c] = "opened" /\ chan' = [chan EXCEPT ![c] = "queued"]
      /\ queue' = Append(queue, c) /\ Len(queue) <= MAX_DATA_CHANNELS_IN_FLIGHT
  BY DEF TrySend, ChannelsTypeOK, ChannelState
<1>2. /\ queue' \in Seq(Channel) /\ Len(queue') = Len(queue) + 1 /\ Len(queue) \in Nat
      /\ \A i \in 1..Len(queue) : queue'[i] = queue[i]
      /\ queue'[Len(queue) + 1] = c
  BY <1>1
<1>3. \A i \in 1..Len(queue) : queue[i] \in Channel /\ queue[i] # c
  BY <1>1 DEF ChannelsTypeOK
<1>4. ASSUME NEW d \in Channel
      PROVE  (chan'[d] = "queued") <=> \E i \in 1..Len(queue') : queue'[i] = d
  <2>1. CASE d = c
    <3>1. Len(queue) + 1 \in 1..Len(queue')
      BY <1>2
    <3> QED
      BY <1>1, <1>2, <2>1, <3>1
  <2>2. CASE d # c
    <3>1. chan'[d] = chan[d]
      BY <1>1, <2>2
    <3>2. (\E i \in 1..Len(queue') : queue'[i] = d) <=> \E i \in 1..Len(queue) : queue[i] = d
      BY <1>2, <2>2
    <3> QED
      BY <3>1, <3>2 DEF ChannelsTypeOK
  <2> QED
    BY <2>1, <2>2
<1>5. ASSUME NEW i \in 1..Len(queue'), NEW j \in 1..Len(queue'), queue'[i] = queue'[j]
      PROVE  i = j
  BY <1>2, <1>3, <1>5 DEF ChannelsTypeOK
<1>6. Len(queue') <= MAX_DATA_CHANNELS_IN_FLIGHT + 1
  BY <1>1, <1>2, ChannelsAssumption
<1>7. chan' \in [Channel -> ChannelState]
  BY <1>1 DEF ChannelState
<1>8. notified' \in BOOLEAN /\ rx_waker' \in BOOLEAN
  BY DEF TrySend, ChannelsTypeOK
<1>9. UNCHANGED <<listeners, polled, waker, turn>>
  BY DEF TrySend
<1> QED
  BY <1>2, <1>4, <1>5, <1>6, <1>7, <1>8, <1>9 DEF ChannelsTypeOK, ChannelState

\* poll_inbound: the head of the queue is a queued channel, and the rest of
\* the queue does not hold it again.
LEMMA PollInboundType ==
  ASSUME ChannelsTypeOK, PollInbound
  PROVE  ChannelsTypeOK'
<1> DEFINE h == Head(queue)
<1>1. /\ chan \in [Channel -> ChannelState] /\ queue \in Seq(Channel) /\ queue # <<>>
      /\ chan' = [chan EXCEPT ![h] = "accepted"]
      /\ queue' = Tail(queue)
  BY DEF PollInbound, ChannelsTypeOK, ChannelState
<1>2. /\ queue' \in Seq(Channel) /\ Len(queue') = Len(queue) - 1 /\ Len(queue) \in Nat
      /\ Len(queue) >= 1
      /\ h = queue[1] /\ h \in Channel
      /\ \A i \in 1..Len(queue') : queue'[i] = queue[i + 1]
  BY <1>1
<1> HIDE DEF h
<1>3. ASSUME NEW d \in Channel
      PROVE  (chan'[d] = "queued") <=> \E i \in 1..Len(queue') : queue'[i] = d
  <2>1. CASE d = h
    <3>1. chan'[d] = "accepted"
      BY <1>1, <2>1
    <3>2. ASSUME NEW i \in 1..Len(queue') PROVE queue'[i] # d
      <4>1. i + 1 \in 1..Len(queue) /\ 1 \in 1..Len(queue) /\ i + 1 # 1
        BY <1>2
      <4> QED
        BY <1>2, <2>1, <4>1 DEF ChannelsTypeOK
    <3> QED
      BY <3>1, <3>2
  <2>2. CASE d # h
    <3>1. chan'[d] = chan[d]
      BY <1>1, <2>2
    <3>2. ASSUME NEW i \in 1..Len(queue), queue[i] = d
          PROVE  \E j \in 1..Len(queue') : queue'[j] = d
      <4>1. i - 1 \in 1..Len(queue') /\ (i - 1) + 1 = i
        BY <1>2, <2>2, <3>2
      <4> QED
        BY <1>2, <3>2, <4>1
    <3>3. ASSUME NEW j \in 1..Len(queue'), queue'[j] = d
          PROVE  \E i \in 1..Len(queue) : queue[i] = d
      <4>1. j + 1 \in 1..Len(queue)
        BY <1>2
      <4> QED
        BY <1>2, <3>3, <4>1
    <3> QED
      BY <3>1, <3>2, <3>3 DEF ChannelsTypeOK
  <2> QED
    BY <2>1, <2>2
<1>4. ASSUME NEW i \in 1..Len(queue'), NEW j \in 1..Len(queue'), queue'[i] = queue'[j]
      PROVE  i = j
  <2>1. i + 1 \in 1..Len(queue) /\ j + 1 \in 1..Len(queue) /\ (i + 1 = j + 1 => i = j)
    BY <1>2
  <2> QED
    BY <1>2, <1>4, <2>1, SMTT(30) DEF ChannelsTypeOK
<1>5. Len(queue') <= MAX_DATA_CHANNELS_IN_FLIGHT + 1
  BY <1>2, ChannelsAssumption DEF ChannelsTypeOK
<1>6. chan' \in [Channel -> ChannelState]
  BY <1>1 DEF ChannelState
<1>7. polled' \subseteq listeners' /\ listeners' \subseteq Channel
  BY <1>2 DEF PollInbound, ChannelsTypeOK, h
<1>8. notified' \in BOOLEAN /\ waker' \in BOOLEAN /\ turn' = "poll"
  BY DEF PollInbound, ChannelsTypeOK
<1>9. rx_waker' = rx_waker
  BY DEF PollInbound
<1> QED
  BY <1>2, <1>3, <1>4, <1>5, <1>6, <1>7, <1>8, <1>9 DEF ChannelsTypeOK, ChannelState

\* Every variable has its type, the queue holds each queued channel once, and
\* it never outgrows the buffer and the sender's slot.
THEOREM QueueIsTyped == ChannelsSpec => []ChannelsTypeOK
<1>1. ChannelsInit => ChannelsTypeOK
  <2> SUFFICES ASSUME ChannelsInit PROVE ChannelsTypeOK
    OBVIOUS
  <2>1. queue \in Seq(Channel) /\ 1..Len(queue) = {} /\ Len(queue) <= MAX_DATA_CHANNELS_IN_FLIGHT + 1
    BY ChannelsAssumption DEF ChannelsInit
  <2>2. chan \in [Channel -> ChannelState] /\ \A c \in Channel : chan[c] # "queued"
    BY DEF ChannelsInit, ChannelState
  <2>3. polled = {} /\ listeners = {} /\ turn = "poll"
    BY DEF ChannelsInit
  <2>4. waker \in BOOLEAN /\ rx_waker \in BOOLEAN /\ notified \in BOOLEAN
    BY DEF ChannelsInit
  <2> QED
    BY <2>1, <2>2, <2>3, <2>4 DEF ChannelsTypeOK, ChannelState
<1>2. ChannelsTypeOK /\ [ChannelsNext]_channelVars => ChannelsTypeOK'
  <2> SUFFICES ASSUME ChannelsTypeOK, [ChannelsNext]_channelVars PROVE ChannelsTypeOK'
    OBVIOUS
  <2>1. ASSUME NEW c \in Channel, Open(c) \/ DetachFails(c) \/ TrySendFails(c) \/ CloseRefused(c) PROVE ChannelsTypeOK'
    <3>1. chan' \in [Channel -> ChannelState] /\ \A d \in Channel : chan'[d] = "queued" <=> chan[d] = "queued"
      BY <2>1 DEF Open, DetachFails, TrySendFails, CloseRefused, ChannelsTypeOK, ChannelState
    <3>2. UNCHANGED <<queue, listeners, polled, waker, rx_waker, turn, notified>>
      BY <2>1 DEF Open, DetachFails, TrySendFails, CloseRefused
    <3> QED
      BY <3>1, <3>2, SameQueue DEF ChannelsTypeOK
  <2>2. ASSUME NEW c \in Channel, TrySend(c) PROVE ChannelsTypeOK'
    BY <2>2, TrySendType
  <2>3. ASSUME NEW c \in Channel, Release(c) PROVE ChannelsTypeOK'
    <3>1. chan' \in [Channel -> ChannelState] /\ \A d \in Channel : chan'[d] = "queued" <=> chan[d] = "queued"
      BY <2>3 DEF Release, ChannelsTypeOK, ChannelState
    <3>2. UNCHANGED <<queue, listeners, polled, waker, rx_waker, turn>>
      BY <2>3 DEF Release
    <3>3. notified' \in BOOLEAN
      BY <2>3 DEF Release, ChannelsTypeOK
    <3> QED
      BY <3>1, <3>2, <3>3, SameQueue DEF ChannelsTypeOK
  <2>4. CASE Poll
    <3>1. chan' \in [Channel -> ChannelState] /\ \A d \in Channel : chan'[d] = "queued" <=> chan[d] = "queued"
      BY <2>4 DEF Poll, PollWith, Released, ChannelsTypeOK, ChannelState
    <3>2. UNCHANGED <<queue, rx_waker, notified>> /\ turn' = "inbound" /\ polled' = listeners'
          /\ listeners' \subseteq listeners
      BY <2>4 DEF Poll, PollWith
    <3>3. waker' \in BOOLEAN
      BY <2>4 DEF Poll, PollWith, ChannelsTypeOK
    <3> QED
      BY <3>1, <3>2, <3>3, SameQueue DEF ChannelsTypeOK
  <2>5. CASE PollInbound
    BY <2>5, PollInboundType
  <2>6. CASE NothingInbound
    BY <2>6 DEF NothingInbound, ChannelsTypeOK
  <2>7. CASE Resume
    BY <2>7 DEF Resume, ChannelsTypeOK
  <2>8. CASE UNCHANGED channelVars
    BY <2>8 DEF channelVars, ChannelsTypeOK
  <2> QED
    BY <2>1, <2>2, <2>3, <2>4, <2>5, <2>6, <2>7, <2>8 DEF ChannelsNext, Task, Callback
<1> QED
  BY <1>1, <1>2, PTL DEF ChannelsSpec

-----------------------------------------------------------------------------
\* The inductive invariant behind NoLostWakeup.  Between the end of poll() and
\* its next call every listener holds a waker, and a stream released since has
\* used it; and a task that sleeps was notified, or the queue it found empty
\* still is, and holds a waker too.
Watching ==
  turn \in {"inbound", "idle"} => polled = listeners /\ (Released # {} => notified)
Sleeping ==
  turn = "idle" => notified \/ (queue = <<>> /\ rx_waker)

\* The task never sleeps over work: whatever a callback sends or a handler
\* drops between its polls, a waker that the task left behind notifies it.
THEOREM WakeupsAreNotLost == ChannelsSpec => []NoLostWakeup
<1>1. ChannelsInit => Watching /\ Sleeping
  BY DEF ChannelsInit, Watching, Sleeping
<1>2. ChannelsTypeOK /\ Watching /\ Sleeping /\ [ChannelsNext]_channelVars => Watching' /\ Sleeping'
  <2> SUFFICES ASSUME ChannelsTypeOK, Watching, Sleeping, [ChannelsNext]_channelVars
               PROVE  Watching' /\ Sleeping'
    OBVIOUS
  <2>1. ASSUME NEW c \in Channel, Open(c) \/ DetachFails(c) \/ TrySendFails(c) \/ CloseRefused(c)
        PROVE  Watching' /\ Sleeping'
    <3>1. UNCHANGED <<queue, listeners, polled, waker, rx_waker, turn, notified>>
      BY <2>1 DEF Open, DetachFails, TrySendFails, CloseRefused
    <3>2. Released' \subseteq Released
      BY <2>1, <3>1 DEF Open, DetachFails, TrySendFails, CloseRefused, ChannelsTypeOK, Released
    <3> QED
      BY <3>1, <3>2 DEF Watching, Sleeping
  <2>2. ASSUME NEW c \in Channel, TrySend(c) PROVE Watching' /\ Sleeping'
    <3>1. Released' \subseteq Released
      BY <2>2 DEF TrySend, ChannelsTypeOK, Released
    <3> QED
      BY <2>2, <3>1 DEF TrySend, Watching, Sleeping
  <2>3. ASSUME NEW c \in Channel, Release(c) PROVE Watching' /\ Sleeping'
    <3>1. Released' \subseteq Released \cup ({c} \cap listeners)
      BY <2>3 DEF Release, ChannelsTypeOK, Released
    <3> QED
      BY <2>3, <3>1 DEF Release, Watching, Sleeping
  <2>4. CASE Poll
    <3>1. Released' = {}
      BY <2>4 DEF Poll, PollWith, ChannelsTypeOK, Released
    <3> QED
      BY <2>4, <3>1 DEF Poll, PollWith, Watching, Sleeping
  <2>5. CASE PollInbound
    BY <2>5 DEF PollInbound, Watching, Sleeping
  <2>6. CASE NothingInbound
    BY <2>6 DEF NothingInbound, Watching, Sleeping, Released
  <2>7. CASE Resume
    BY <2>7 DEF Resume, Watching, Sleeping
  <2>8. CASE UNCHANGED channelVars
    BY <2>8 DEF channelVars, Watching, Sleeping, Released
  <2> QED
    BY <2>1, <2>2, <2>3, <2>4, <2>5, <2>6, <2>7, <2>8 DEF ChannelsNext, Task, Callback
<1>3. Watching /\ Sleeping => NoLostWakeup
  BY DEF Watching, Sleeping, NoLostWakeup
<1> QED
  BY <1>1, <1>2, <1>3, QueueIsTyped, PTL DEF ChannelsSpec
-----------------------------------------------------------------------------
(* The DTLS handshake. *)

\* FirstIn returns the first element that can be done.
LEMMA FirstInFacts ==
  ASSUME NEW T, NEW s \in Seq(T), NEW S, FirstIn(s, S) # "none"
  PROVE  \E i \in 1..Len(s) :
           /\ s[i] = FirstIn(s, S) /\ s[i] \in S
           /\ \A j \in 1..(i - 1) : s[j] \notin S
<1> DEFINE I == {i \in 1..Len(s) : s[i] \in S}
           i == IF I # {} THEN Min(I) ELSE 0
<1>1. FirstIn(s, S) = IF i = 0 THEN "none" ELSE s[i]
  BY DEF FirstIn, SelectInSeq
<1>2. I \in SUBSET Nat /\ Len(s) \in Nat
  BY LenProperties
<1>3. I # {} /\ i = Min(I)
  BY <1>1
<1>4. i \in I /\ \A j \in I : i <= j
  <2> HIDE DEF I, i
  <2>1. Min(I) \in I /\ \A j \in I : Min(I) <= j
    BY <1>2, <1>3, MinIsLeast, Zenon
  <2> QED
    BY <1>3, <2>1
<1> HIDE DEF i
<1>5. i \in 1..Len(s) /\ i # 0 /\ s[i] \in S
  BY <1>2, <1>4
<1>6. ASSUME NEW j \in 1..(i - 1) PROVE s[j] \notin S
  <2>1. j \in 1..Len(s) /\ ~(i <= j)
    BY <1>2, <1>5
  <2> QED
    BY <1>4, <2>1
<1> QED
  BY <1>1, <1>5, <1>6

\* The curve that is chosen is listed, and nothing before it can be done.
LEMMA CurveIsListed ==
  ASSUME offer \in Offers, offer.curves # NotSent, Curve \in Supported
  PROVE  \E i \in 1..Len(offer.curves) :
           /\ offer.curves[i] = Curve
           /\ \A j \in 1..(i - 1) : offer.curves[j] \notin Supported
<1> DEFINE codes == offer.curves
           named == [i \in 1..Len(codes) |-> NamedCurve(codes[i])]
           Names == {NamedCurve(codes[i]) : i \in 1..Len(codes)}
<1>1. codes \in Seq(Curves) /\ Len(codes) \in Nat
  BY NegotiationAssumption
<1>2. Curve = FirstIn(named, Supported)
  BY DEF Curve, select_curve
<1>3. named \in Seq(Names) /\ Len(named) = Len(codes)
  <2>1. named \in [1..Len(codes) -> Names]
    OBVIOUS
  <2> HIDE DEF named, Names, codes
  <2> QED
    BY <1>1, <2>1
<1>4. FirstIn(named, Supported) # "none"
  BY <1>2 DEF Supported
<1>5. \A i \in 1..Len(codes) : named[i] = NamedCurve(codes[i])
  OBVIOUS
<1> HIDE DEF named, Names, codes
<1>6. PICK i \in 1..Len(codes) :
        /\ named[i] = Curve /\ named[i] \in Supported
        /\ \A j \in 1..(i - 1) : named[j] \notin Supported
  BY <1>2, <1>3, <1>4, FirstInFacts
<1>7. codes[i] = Curve
  BY <1>5, <1>6 DEF NamedCurve, Supported
<1>8. ASSUME NEW j \in 1..(i - 1) PROVE codes[j] \notin Supported
  <2>1. j \in 1..Len(codes)
    BY <1>1
  <2> QED
    BY <1>5, <1>6, <2>1 DEF NamedCurve
<1> QED
  BY <1>7, <1>8 DEF codes

\* So is the SRTP profile.
LEMMA ProfileIsListed ==
  ASSUME offer \in Offers, offer.profiles # NotSent, Profile # "none"
  PROVE  /\ Profile \in local_profiles
         /\ \E i \in 1..Len(offer.profiles) :
              /\ offer.profiles[i] = Profile
              /\ \A j \in 1..(i - 1) : offer.profiles[j] \notin local_profiles
<1>1. offer.profiles \in Seq(Profiles)
  BY NegotiationAssumption
<1>2. Profile = FirstIn(offer.profiles, local_profiles)
  BY DEF Profile, find_matching_srtp_profile
<1> QED
  BY <1>1, <1>2, FirstInFacts

\* The inductive invariant: from flight 2 on, the server holds what flight 0
\* chooses for this browser, and a key of that curve; the key is not made
\* before, so the one that a repeated ClientHello keeps is the right one.
Negotiated ==
  /\ offer \in Offers
  /\ flight \in {0, 2, 4, Failed}
  /\ flight = 0 => keypair = NotSent
  /\ flight \in {2, 4} =>
       /\ Acceptable
       /\ named_curve = Curve /\ keypair = Curve /\ profile = Profile

\* What the server puts into flight 4 fits together and suits both sides,
\* whatever lists the browser sends and however often the first ClientHello
\* was repeated.
THEOREM FlightFourFitsTogether == HelloSpec => []FlightFourIsConsistent
<1>1. HelloInit => Negotiated
  BY DEF HelloInit, Negotiated, Failed
<1>2. Negotiated /\ [HelloNext]_helloVars => Negotiated'
  <2> SUFFICES ASSUME Negotiated, [HelloNext]_helloVars PROVE Negotiated'
    OBVIOUS
  <2>1. ASSUME offer' = offer
        PROVE  /\ Curve' = Curve /\ Profile' = Profile
               /\ (Acceptable' <=> Acceptable)
    BY <2>1 DEF Acceptable, Curve, Profile
  <2>2. CASE NegotiateHello
    <3>1. /\ flight \in {0, 2} /\ Acceptable /\ offer' = offer /\ flight' = 2
          /\ named_curve' = Curve /\ profile' = Profile
          /\ keypair' = IF keypair = NotSent THEN Curve ELSE keypair
      BY <2>2 DEF NegotiateHello
    <3>2. keypair' = Curve
      BY <3>1 DEF Negotiated
    <3> QED
      BY <2>1, <3>1, <3>2 DEF Negotiated
  <2>3. CASE RejectHello
    <3>1. offer' = offer /\ flight' = Failed
      BY <2>3 DEF RejectHello
    <3> QED
      BY <3>1 DEF Negotiated, Failed
  <2>4. CASE AcceptCookie
    <3>1. flight = 2 /\ flight' = 4 /\ UNCHANGED <<offer, named_curve, keypair, profile>>
      BY <2>4 DEF AcceptCookie
    <3> QED
      BY <2>1, <3>1 DEF Negotiated
  <2>5. ASSUME UNCHANGED <<offer, flight, named_curve, keypair, profile>> PROVE Negotiated'
    BY <2>1, <2>5 DEF Negotiated
  <2>6. CASE Send \/ ReceiveVerify \/ UNCHANGED helloVars
    BY <2>5, <2>6 DEF Send, ReceiveVerify, helloVars, state
  <2>7. ASSUME NEW m \in wire, Lose(m) \/ Ignore(m) PROVE Negotiated'
    BY <2>5, <2>7 DEF Lose, Ignore, state
  <2> QED
    BY <2>2, <2>3, <2>4, <2>6, <2>7 DEF HelloNext, Server
<1>3. Negotiated => FlightFourIsConsistent
  <2> SUFFICES ASSUME Negotiated, flight = 4 PROVE FlightFourIsConsistent
    BY DEF FlightFourIsConsistent
  <2>1. /\ offer \in Offers /\ Curve \in Supported /\ Profile # "none"
        /\ named_curve = Curve /\ keypair = Curve /\ profile = Profile
    BY DEF Negotiated, Acceptable
  <2>2. profile # "Aead_Aes_256_Gcm"
    <3>1. CASE offer.profiles = NotSent
      BY <2>1, <3>1 DEF Profile
    <3>2. CASE offer.profiles # NotSent
      BY <2>1, <3>2, ProfileIsListed DEF local_profiles
    <3> QED
      BY <3>1, <3>2
  <2> QED
    BY <2>1, <2>2, CurveIsListed, ProfileIsListed DEF FlightFourIsConsistent
<1> QED
  BY <1>1, <1>2, <1>3, PTL DEF HelloSpec

-----------------------------------------------------------------------------
(* The identity. *)

\* Nothing is on disk, in memory or printed before the first start.
LEMMA InitIdentity == IdentityInit => IdentityInv
  BY IdentityAssumption DEF IdentityInit, IdentityInv, PublishedIsRestartable, IdentityTypeOK, Nothing, Absent, Torn, File

\* No step, of the startup sequence or a kill, breaks the identity invariant
\* as long as a file that exists can be read.
LEMMA NextIdentity ==
  ASSUME ~ReadErrors, IdentityInv, [IdentityNext]_identityVars
  PROVE  IdentityInv'
<1> USE IdentityAssumption DEF IdentityInv, PublishedIsRestartable, IdentityTypeOK, File, Absent, Torn, identityVars
<1>1. CASE Start      BY <1>1 DEF Start, Nothing
<1>2. CASE Load       BY <1>2 DEF Load, NextPhase
<1>3. CASE LoadFails  BY <1>3 DEF LoadFails
<1>4. CASE Create     BY <1>4 DEF Create, ReadFails
<1>5. CASE Persist    BY <1>5 DEF Persist, NextPhase
<1>6. CASE PersistFails  BY <1>6 DEF PersistFails
<1>7. CASE SetUp      BY <1>7 DEF SetUp
<1>8. CASE PrintMultiaddr  BY <1>8 DEF PrintMultiaddr
<1>9. CASE Shutdown   BY <1>9 DEF Shutdown
<1>10. CASE Kill      BY <1>10 DEF Kill
<1>11. ASSUME NEW f \in File, Repair(f) PROVE IdentityInv'  BY <1>11 DEF Repair
<1>12. CASE UNCHANGED identityVars  BY <1>12
<1> QED  BY <1>1, <1>2, <1>3, <1>4, <1>5, <1>6, <1>7, <1>8, <1>9, <1>10, <1>11, <1>12 DEF IdentityNext

\* The invariant holds in every state a proxy with a readable state
\* directory reaches, however often it is killed and restarted.
THEOREM IdentityKept == ASSUME ~ReadErrors PROVE IdentitySpec => []IdentityInv
<1>1. IdentityInit => IdentityInv  BY InitIdentity
<1>2. IdentityInv /\ [IdentityNext]_identityVars => IdentityInv'  BY NextIdentity
<1> QED  BY <1>1, <1>2, PTL DEF IdentitySpec

\* A set all of whose members equal one value has at most one member.
LEMMA OneMember ==
  ASSUME NEW S, NEW d, \A p \in S : p = d
  PROVE  Cardinality(S) <= 1
<1>1. CASE S = {}   BY <1>1, FS_EmptySet
<1>2. CASE S # {}
  <2>1. S = {d}  BY <1>2
  <2>2. Cardinality({d}) = 1  BY FS_Singleton
  <2> QED  BY <2>1, <2>2
<1> QED  BY <1>1, <1>2

\* Every run of the proxy prints the same multiaddr, the one browsers
\* hard-code: what main.rs says of its two files, when they can be read.
THEOREM StableMultiaddr == ASSUME ~ReadErrors PROVE IdentitySpec => []MultiaddrIsStable
<1>1. IdentityInv => MultiaddrIsStable
  BY OneMember DEF IdentityInv, PublishedIsRestartable, MultiaddrIsStable
<1> QED  BY <1>1, IdentityKept, PTL

\* Once a multiaddr was printed the state directory holds it, whole, for good.
THEOREM PublishedKept == ASSUME ~ReadErrors PROVE IdentitySpec => []PublishedIsRestartable
<1>1. IdentityInv => PublishedIsRestartable  BY DEF IdentityInv
<1> QED  BY <1>1, IdentityKept, PTL

\* A proxy past its startup uses exactly the identity and the certificate on
\* disk, so a restart finds them again.
THEOREM RestartsAlike == ASSUME ~ReadErrors PROVE IdentitySpec => []ListensWithWhatIsOnDisk
<1>1. IdentityInv => ListensWithWhatIsOnDisk
  BY DEF IdentityInv, ListensWithWhatIsOnDisk
<1> QED  BY <1>1, IdentityKept, PTL

\* load_or_create_keypair and load_or_create_certificate never overwrite a
\* file that was written completely.
THEOREM KeptOnDisk == ASSUME ~ReadErrors PROVE IdentitySpec => SecretsAreKept
<1>1. IdentityInv /\ [IdentityNext]_identityVars =>
        [\A f \in File : disk[f] > 0 => disk'[f] = disk[f]]_identityVars
  <2> SUFFICES ASSUME IdentityInv, IdentityNext, NEW f \in File, disk[f] > 0
               PROVE  disk'[f] = disk[f]
    OBVIOUS
  <2> USE DEF IdentityInv, IdentityTypeOK, Absent, Torn
  <2>1. CASE Create   BY <2>1 DEF Create, ReadFails
  <2>2. CASE Persist  BY <2>2 DEF Persist
  <2>3. CASE \E g \in File : Repair(g)  BY <2>3 DEF Repair
  <2>4. CASE UNCHANGED disk  BY <2>4
  <2> QED
    BY <2>1, <2>2, <2>3, <2>4
    DEF IdentityNext, Start, Load, LoadFails, PersistFails, SetUp, PrintMultiaddr, Shutdown, Kill
<1> QED  BY <1>1, IdentityKept, PTL DEF IdentitySpec, SecretsAreKept
=============================================================================
