---------------------------- MODULE VerifiedFetch ----------------------------
(***************************************************************************)
(* What the browser promises to whoever pastes a public address: the       *)
(* download ends with exactly the content that was published there, or     *)
(* with an error, whatever the proxy answers.  Blobs are accepted one      *)
(* address at a time, never given up again while the download is open, and *)
(* content is delivered only when every chunk of it was accepted.          *)
(***************************************************************************)
CONSTANTS
  Addr,              \* content addresses
  Stored,            \* the addresses that some blob hashes to
  Requests,          \* the public addresses that may be asked for
  Published(_),      \* the content published at an address, or Failed
  ContentChunks(_),  \* the addresses of the chunks it is made of
  Failed, NoChunk

VARIABLES
  address,    \* the public address asked for, fixed from the start
  accepted,   \* addresses whose true content the client holds
  outcome,    \* "open", "returned" or "threw"
  delivered   \* the content handed to the page, or NoChunk

vars == <<address, accepted, outcome, delivered>>

Init ==
  /\ address \in Requests
  /\ accepted = {}
  /\ outcome = "open"
  /\ delivered = NoChunk

\* Only an address that has content in the network can be accepted.
Accept(a) ==
  /\ outcome = "open"
  /\ a \in Stored
  /\ accepted' = accepted \cup {a}
  /\ UNCHANGED <<address, outcome, delivered>>

Deliver ==
  /\ outcome = "open"
  /\ Published(address) # Failed
  /\ ContentChunks(address) \subseteq accepted
  /\ outcome' = "returned"
  /\ delivered' = Published(address)
  /\ UNCHANGED <<address, accepted>>

Throw ==
  /\ outcome = "open"
  /\ outcome' = "threw"
  /\ UNCHANGED <<address, accepted, delivered>>

Next == (\E a \in Addr : Accept(a)) \/ Deliver \/ Throw

Spec == Init /\ [][Next]_vars
=============================================================================
