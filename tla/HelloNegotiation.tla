-------------------------- MODULE HelloNegotiation --------------------------
(***************************************************************************)
(* How the patched DTLS server settles on a curve and an SRTP profile:     *)
(* flights 0 and 2 of the vendored webrtc-dtls, with the profiles that the *)
(* patched upgrade.rs of libp2p-webrtc configures.  The ClientHello, the   *)
(* HelloVerifyRequest with the cookie and the second ClientHello travel    *)
(* over UDP and may be lost; the browser, which is external, repeats its   *)
(* last message, and a repeated first ClientHello is negotiated again.     *)
(***************************************************************************)
EXTENDS Naturals, SequencesExt

CONSTANTS
  Curves,     \* code points a browser may list: some this server can do, and others
  Profiles,   \* SRTP profiles a browser may list
  Offers,     \* ClientHellos: [curves, profiles : a sequence or NotSent, and
              \* whether it is DTLS 1.2 and has a common cipher suite : BOOLEAN]
  NotSent,     \* the extension is not sent
  MaxLosses   \* bound on the number of datagrams lost

ASSUME NegotiationAssumption ==
  /\ Offers \subseteq [curves : Seq(Curves) \cup {NotSent},
                       profiles : Seq(Profiles) \cup {NotSent},
                       dtls12 : BOOLEAN, suite : BOOLEAN]
  /\ MaxLosses \in Nat

Supported == {"P256", "P384", "X25519"}

\* NamedCurve::from: a code point that is not known.
NamedCurve(code) == IF code \in Supported THEN code ELSE "Unsupported"

DEFAULT_NAMED_CURVE == "X25519"

local_profiles == {"Aead_Aes_128_Gcm", "Aes128_Cm_Hmac_Sha1_80"}

VARIABLES
  offer,        \* what the browser puts into both ClientHellos
  client,       \* the browser waits for the "verify" request or for "server"
  wire,         \* messages under way: "hello0", "verify", "hello1"
  losses,       \* datagrams lost so far
  flight,       \* current_flight: 0, 2, 4, or 99 when the handshake has failed
  named_curve,  \* state.named_curve
  keypair,      \* curve of state.local_keypair, NotSent if there is none
  profile       \* state.srtp_protection_profile

state == <<flight, named_curve, keypair, profile>>
helloVars == <<offer, client, wire, losses, state>>

Failed == 99

HelloInit ==
  /\ offer \in Offers
  /\ client = "verify"
  /\ wire = {} /\ losses = 0
  /\ flight = 0 /\ named_curve = DEFAULT_NAMED_CURVE
  /\ keypair = NotSent /\ profile = "Unsupported"

-----------------------------------------------------------------------------
(* The network and the browser. *)

Send ==
  /\ wire' = wire \cup {IF client = "verify" THEN "hello0" ELSE "hello1"}
  /\ UNCHANGED <<offer, client, losses, state>>

Lose(m) ==
  /\ m \in wire
  /\ losses < MaxLosses
  /\ losses' = losses + 1
  /\ wire' = wire \ {m}
  /\ UNCHANGED <<offer, client, state>>

ReceiveVerify ==
  /\ "verify" \in wire
  /\ wire' = wire \ {"verify"}
  /\ client' = "server"
  /\ UNCHANGED <<offer, losses, state>>

-----------------------------------------------------------------------------
(* The server. *)

FirstIn(s, S) ==
  LET i == SelectInSeq(s, LAMBDA x : x \in S) IN IF i = 0 THEN "none" ELSE s[i]

\* Mutant: the unpatched choice.
select_curve_first(codes) == IF codes = <<>> THEN "none" ELSE NamedCurve(codes[1])

\* The client's most preferred curve that can be done.
select_curve(codes) ==
  FirstIn([i \in 1..Len(codes) |-> NamedCurve(codes[i])], Supported)

\* find_matching_srtp_profile: the client's order decides.
find_matching_srtp_profile(remote) == FirstIn(remote, local_profiles)

\* Flight0::parse: the choices, of which "none" ends the handshake with an
\* alert; without the extension the default, or no profile, stands.
Curve == IF offer.curves = NotSent THEN DEFAULT_NAMED_CURVE ELSE select_curve(offer.curves)

Profile ==
  IF offer.profiles = NotSent THEN "Unsupported" ELSE find_matching_srtp_profile(offer.profiles)

\* ... as do another protocol version, no common cipher suite, and the error
\* of generate_keypair for a curve it cannot do.  The extended master secret is
\* requested and never required (the default of Config), so its check passes.
Acceptable == offer.dtls12 /\ offer.suite /\ Curve \in Supported /\ Profile # "none"

\* Mutant: the key is made before the curve is chosen.
NegotiateHello_early_key ==
  /\ "hello0" \in wire /\ flight \in {0, 2} /\ Acceptable
  /\ flight' = 2 /\ named_curve' = Curve /\ profile' = Profile
  /\ keypair' = IF keypair = NotSent THEN named_curve ELSE keypair
  /\ wire' = (wire \ {"hello0"}) \cup {"verify"}
  /\ UNCHANGED <<offer, client, losses>>

\* Flight 2 begins, also again while only the first ClientHello has come: its
\* generate sends the HelloVerifyRequest.  The key of the first time is kept.
NegotiateHello ==
  /\ "hello0" \in wire
  /\ flight \in {0, 2}
  /\ Acceptable
  /\ flight' = 2
  /\ named_curve' = Curve
  /\ profile' = Profile
  /\ keypair' = IF keypair = NotSent THEN Curve ELSE keypair
  /\ wire' = (wire \ {"hello0"}) \cup {"verify"}
  /\ UNCHANGED <<offer, client, losses>>

RejectHello ==
  /\ "hello0" \in wire
  /\ flight \in {0, 2}
  /\ ~Acceptable
  /\ flight' = Failed
  /\ wire' = wire \ {"hello0"}
  /\ UNCHANGED <<offer, client, losses, named_curve, keypair, profile>>

\* Flight2::parse: the cookie has come back.  The browser echoes the cookie of
\* the HelloVerifyRequest, which Flight0::generate made once, in a hello of the
\* version it sent before, so the version and cookie checks pass.
AcceptCookie ==
  /\ "hello1" \in wire
  /\ flight = 2
  /\ flight' = 4
  /\ wire' = wire \ {"hello1"}
  /\ UNCHANGED <<offer, client, losses, named_curve, keypair, profile>>

\* A ClientHello that comes later changes nothing here.
Ignore(m) ==
  /\ m \in wire \ {"verify"}
  /\ flight \in {4, Failed}
  /\ wire' = wire \ {m}
  /\ UNCHANGED <<offer, client, losses, state>>

-----------------------------------------------------------------------------
Server == NegotiateHello \/ RejectHello \/ AcceptCookie

HelloNext ==
  \/ Send \/ ReceiveVerify \/ Server
  \/ \E m \in wire : Lose(m) \/ Ignore(m)

\* The browser repeats its message, and what is not lost is read.
HelloSpec ==
  /\ HelloInit /\ [][HelloNext]_helloVars
  /\ WF_helloVars(Send) /\ WF_helloVars(ReceiveVerify) /\ WF_helloVars(Server)

-----------------------------------------------------------------------------
(* Properties. *)

\* What goes into flight 4 (ServerHello and ServerKeyExchange) fits together
\* and suits both sides, however often the ClientHello was repeated: the key
\* is one of the announced curve, the browser listed that curve and nothing
\* this server can do before it, and so it is with the SRTP profile, which is
\* never the one whose key length panics in webrtc-srtp.
FlightFourIsConsistent ==
  flight = 4 =>
    /\ keypair = named_curve
    /\ offer.curves # NotSent =>
         \E i \in 1..Len(offer.curves) :
           /\ offer.curves[i] = named_curve
           /\ \A j \in 1..(i - 1) : offer.curves[j] \notin Supported
    /\ profile # "Aead_Aes_256_Gcm"
    /\ offer.profiles # NotSent =>
         \E i \in 1..Len(offer.profiles) :
           /\ offer.profiles[i] = profile
           /\ \A j \in 1..(i - 1) : offer.profiles[j] \notin local_profiles

\* The two sides have something in common.
Overlap ==
  /\ offer.dtls12 /\ offer.suite
  /\ offer.curves # NotSent => \E i \in 1..Len(offer.curves) : offer.curves[i] \in Supported
  /\ offer.profiles # NotSent =>
       \E i \in 1..Len(offer.profiles) :
         offer.profiles[i] \in {"Aead_Aes_128_Gcm", "Aes128_Cm_Hmac_Sha1_80"}

\* A browser that has something in common with this server, in any place of
\* its lists, gets to flight 4 although datagrams are lost; another one never
\* does, and the handshake fails as soon as its ClientHello arrives.
Negotiates == IF Overlap THEN <>(flight = 4) ELSE <>[](flight = Failed)
=============================================================================
