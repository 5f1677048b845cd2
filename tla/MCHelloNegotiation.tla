------------------------- MODULE MCHelloNegotiation -------------------------
(***************************************************************************)
(* Every list of up to three curves, the post-quantum hybrid that Chrome   *)
(* puts first among them, and of up to two profiles, or neither extension. *)
(***************************************************************************)
EXTENDS HelloNegotiation

MCCurves == {"X25519MLKEM768", "X25519", "P256"}
MCProfiles == {"Aead_Aes_256_Gcm", "Aead_Aes_128_Gcm", "Aes128_Cm_Hmac_Sha1_80"}

Lists(S, n) == UNION {[1..k -> S] : k \in 0..n}

MCOffers ==
  [curves : Lists(MCCurves, 3) \cup {NotSent}, profiles : Lists(MCProfiles, 2) \cup {NotSent},
   dtls12 : BOOLEAN, suite : BOOLEAN]
=============================================================================
