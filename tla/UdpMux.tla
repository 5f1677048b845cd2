------------------------------- MODULE UdpMux -------------------------------
(***************************************************************************)
(* The UDP mux of the patched WebRTC transport (udp_mux.rs of              *)
(* libp2p-webrtc): one socket shared by the connections of all browsers.   *)
(* One poll loop reads datagrams and serves the commands that ICE agents   *)
(* and connections send it over channels; a command names a connection or  *)
(* only its ufrag, and is served at any time after it was sent.            *)
(*                                                                         *)
(* UDPMuxConn and the ICE agent are external: a connection adds an address *)
(* to its own set on the first packet it sends there, and then asks the    *)
(* mux to register it; closing an agent asks for the removal of its ufrag  *)
(* twice, by its own call and by the mux's close future.                   *)
(***************************************************************************)
EXTENDS Naturals

CONSTANTS
  Ufrag,       \* user fragments of the browsers
  SocketAddr,  \* their addresses
  MaxConns,    \* bound on the number of muxed connections ever created
  None         \* no connection

ASSUME MuxAssumption == MaxConns \in Nat /\ None \notin 1..MaxConns /\ None \notin Ufrag

Conn == 1..MaxConns

VARIABLES
  conns,          \* ufrag -> connection
  address_map,    \* address -> connection
  new_addrs,      \* addresses reported and not registered since
  key,            \* UDPMuxConn.key() of every connection, None if not created
  addresses,      \* UDPMuxConn.get_addresses() of every connection
  heard,          \* addresses each connection knows a remote candidate at
  upgrades,       \* upgrade::inbound calls that have not asked for a connection
  registrations,  \* register_conn_for_address commands under way
  closed,         \* connections whose agent has closed
  removals        \* remove_conn_by_ufrag commands under way, and who sent them

remote == <<key, addresses, heard, closed>>
vars == <<conns, address_map, new_addrs, remote, upgrades, registrations, removals>>

Init ==
  /\ conns = [u \in Ufrag |-> None]
  /\ address_map = [a \in SocketAddr |-> None]
  /\ new_addrs = {}
  /\ key = [c \in Conn |-> None]
  /\ addresses = [c \in Conn |-> {}]
  /\ heard = [c \in Conn |-> {}]
  /\ upgrades = {} /\ registrations = {} /\ removals = {} /\ closed = {}

-----------------------------------------------------------------------------
(* A STUN binding request from address a for ufrag u is read from the       *)
(* socket; a browser puts the same ufrag into both halves of the username.  *)
(* Other datagrams only follow address_map, and change nothing.             *)

\* conn_from_stun_message: a connection that has no address yet takes any.
MatchesStun(a, u) ==
  conns[u] # None /\ (addresses[conns[u]] = {} \/ a \in addresses[conns[u]])

ConnOf(a, u) ==
  IF address_map[a] # None THEN address_map[a]
  ELSE IF MatchesStun(a, u) THEN conns[u] ELSE None

\* The packet is written to a connection, whose agent learns the address; the
\* write to a closed connection fails, and the packet is lost.
Deliver(a, u) ==
  /\ ConnOf(a, u) \notin closed \cup {None}
  /\ heard' = [heard EXCEPT ![ConnOf(a, u)] = @ \cup {a}]
  /\ UNCHANGED <<conns, address_map, new_addrs, key, addresses, closed, upgrades, registrations, removals>>

\* UDPMuxEvent::NewAddr: the listener starts an upgrade.  A ufrag that is taken
\* is an error, and a known new address is ignored.
ReportNewAddr(a, u) ==
  /\ address_map[a] = None
  /\ conns[u] = None
  /\ a \notin new_addrs
  /\ new_addrs' = new_addrs \cup {a}
  /\ upgrades' = upgrades \cup {<<a, u>>}
  /\ UNCHANGED <<conns, address_map, remote, registrations, removals>>

-----------------------------------------------------------------------------
(* The commands. *)

\* get_conn: an upgrade gets the connection of its ufrag, or a new one.
GetConn(a, u) ==
  /\ <<a, u>> \in upgrades
  /\ \E c \in Conn :
       /\ c = conns[u] \/ (conns[u] = None /\ key[c] = None /\ \A d \in 1..(c - 1) : key[d] # None)
       /\ conns' = [conns EXCEPT ![u] = c]
       /\ key' = [key EXCEPT ![c] = u]
       /\ heard' = [heard EXCEPT ![c] = @ \cup {a}]
  /\ upgrades' = upgrades \ {<<a, u>>}
  /\ UNCHANGED <<address_map, new_addrs, addresses, closed, registrations, removals>>

\* An upgrade that fails before that leaves no trace but new_addrs.
UpgradeFails(a, u) ==
  /\ <<a, u>> \in upgrades
  /\ upgrades' = upgrades \ {<<a, u>>}
  /\ UNCHANGED <<conns, address_map, new_addrs, remote, registrations, removals>>

\* The first packet of a connection to an address, also while it closes.
SendTo(c, a) ==
  /\ a \in heard[c] \ addresses[c]
  /\ addresses' = [addresses EXCEPT ![c] = @ \cup {a}]
  /\ registrations' = registrations \cup {<<c, a>>}
  /\ UNCHANGED <<conns, address_map, new_addrs, key, heard, closed, upgrades, removals>>

\* Mutant: the address is taken from the new connection, not from the old one.
Register_swapped(c, a) ==
  /\ <<c, a>> \in registrations
  /\ registrations' = registrations \ {<<c, a>>}
  /\ IF address_map[a] = None
     THEN address_map' = [address_map EXCEPT ![a] = c] /\ UNCHANGED addresses
     ELSE IF key[address_map[a]] # key[c]
     THEN /\ address_map' = [address_map EXCEPT ![a] = c]
          /\ addresses' = [addresses EXCEPT ![c] = @ \ {a}]
     ELSE UNCHANGED <<address_map, addresses>>
  /\ new_addrs' = new_addrs \ {a}
  /\ UNCHANGED <<conns, key, heard, closed, upgrades, removals>>

\* The address moves to the connection, from one with another ufrag if any;
\* an entry with the same ufrag stays, even if it is another connection.
Register(c, a) ==
  /\ <<c, a>> \in registrations
  /\ registrations' = registrations \ {<<c, a>>}
  /\ IF address_map[a] = None
     THEN address_map' = [address_map EXCEPT ![a] = c] /\ UNCHANGED addresses
     ELSE IF key[address_map[a]] # key[c]
     THEN /\ address_map' = [address_map EXCEPT ![a] = c]
          /\ addresses' = [addresses EXCEPT ![address_map[a]] = @ \ {a}]
     ELSE UNCHANGED <<address_map, addresses>>
  /\ new_addrs' = new_addrs \ {a}
  /\ UNCHANGED <<conns, key, heard, closed, upgrades, removals>>

\* The agent of a connection closes.
CloseConn(c) ==
  /\ key[c] # None
  /\ c \notin closed
  /\ closed' = closed \cup {c}
  /\ removals' = removals \cup {<<c, "agent">>, <<c, "future">>}
  /\ UNCHANGED <<conns, address_map, new_addrs, key, addresses, heard, upgrades, registrations>>

\* remove_conn_by_ufrag: whatever connection has the ufrag by now is removed,
\* with the addresses it knows.
RemoveConn(r) ==
  /\ r \in removals
  /\ removals' = removals \ {r}
  /\ LET u == key[r[1]]
     IN  /\ conns' = [conns EXCEPT ![u] = None]
         /\ address_map' = [a \in SocketAddr |->
              IF conns[u] # None /\ a \in addresses[conns[u]] THEN None ELSE address_map[a]]
  /\ UNCHANGED <<new_addrs, remote, upgrades, registrations>>

-----------------------------------------------------------------------------
Next ==
  \/ \E a \in SocketAddr, u \in Ufrag :
       Deliver(a, u) \/ ReportNewAddr(a, u) \/ GetConn(a, u) \/ UpgradeFails(a, u)
  \/ \E c \in Conn, a \in SocketAddr : SendTo(c, a) \/ Register(c, a)
  \/ \E c \in Conn : CloseConn(c)
  \/ \E r \in removals : RemoveConn(r)

Spec == Init /\ [][Next]_vars

-----------------------------------------------------------------------------
(* Properties. *)

\* Every variable has its type.
TypeOK ==
  /\ conns \in [Ufrag -> Conn \cup {None}]
  /\ address_map \in [SocketAddr -> Conn \cup {None}]
  /\ new_addrs \subseteq SocketAddr
  /\ key \in [Conn -> Ufrag \cup {None}]
  /\ addresses \in [Conn -> SUBSET SocketAddr]
  /\ heard \in [Conn -> SUBSET SocketAddr]
  /\ upgrades \subseteq SocketAddr \X Ufrag
  /\ registrations \subseteq Conn \X SocketAddr
  /\ closed \subseteq Conn
  /\ removals \subseteq Conn \X {"agent", "future"}

\* The two books agree, whatever registers, moves and is removed in between:
\* an address that the mux routes to a connection is one that the connection
\* lists itself, and so is one whose registration is under way.
BooksAgree ==
  /\ \A a \in SocketAddr : address_map[a] # None => a \in addresses[address_map[a]]
  /\ \A r \in registrations : r[2] \in addresses[r[1]] /\ address_map[r[2]] # r[1]

\* The inductive invariant: the books agree, and connections have their key.
MuxInv ==
  /\ TypeOK
  /\ BooksAgree
  /\ \A u \in Ufrag : conns[u] # None => key[conns[u]] = u
  /\ \A c \in Conn : addresses[c] \subseteq heard[c] /\ (heard[c] # {} => key[c] # None)
  /\ \A r \in removals : key[r[1]] # None

\* When a connection is removed, no address is routed to it any more: the
\* removal, which only walks the addresses the connection lists, is complete.
RemovalIsComplete ==
  [][\A u \in Ufrag : conns[u] # None /\ conns'[u] # conns[u] =>
       \A a \in SocketAddr : address_map'[a] # conns[u]]_vars
=============================================================================
