--------------------------- MODULE FixtureNetwork ---------------------------
(***************************************************************************)
(* Three files for FixtureSource: "small" has a flat data map; "large" has *)
(* a shrunk one with two wrapper chunks, lists one content chunk twice and *)
(* shares chunk c1 with "small"; "tiny" is too small to be self-encrypted. *)
(* An address is two bytes with the digits 9 and a, so that it can be      *)
(* typed; some addresses have no blob.                                     *)
(***************************************************************************)
EXTENDS FixtureSource

NetBlobs ==
  <<"small", "large", "tiny", "small.map", "large.map", "large.root",
    "w1", "w2", "c1", "c2", "c3", "c4", "garbage">>
NetBytes == {NetBlobs[i] : i \in 1..Len(NetBlobs)}
NetFiles == {"small", "large", "tiny"}

\* 0x99, 0x9a, 0xa9 and 0xaa.
NetDigits == <<153, 154, 169, 170>>
NetAddr == {<<NetDigits[i], NetDigits[j]>> : i, j \in 1..4}

NetAddressOf(b) ==
  LET i == (CHOOSE k \in 1..Len(NetBlobs) : NetBlobs[k] = b) - 1
  IN  <<NetDigits[(i \div 4) + 1], NetDigits[(i % 4) + 1]>>

ListOf(names) == [i \in 1..Len(names) |-> NetAddressOf(names[i])]

NetDecodeMap(b) ==
  CASE b = "small.map"  -> [child |-> FALSE, infos |-> ListOf(<<"c1", "c2", "c3">>)]
    [] b = "large.map"  -> [child |-> TRUE,  infos |-> ListOf(<<"w1", "w2">>)]
    [] b = "large.root" -> [child |-> FALSE, infos |-> ListOf(<<"c1", "c4", "c1">>)]
    [] OTHER            -> Failed

NetDecrypt(m, chunks) ==
  CASE chunks = <<"c1", "c2", "c3">> -> "small"
    [] chunks = <<"w1", "w2">>       -> "large.root"
    [] chunks = <<"c1", "c4", "c1">> -> "large"
    [] OTHER                         -> "garbage"

NetEncrypt(file) ==
  CASE file = "small" -> [map |-> NetDecodeMap("small.map"), chunks |-> {"c1", "c2", "c3"}]
    [] file = "large" -> [map |-> NetDecodeMap("large.map"), chunks |-> {"w1", "w2", "c1", "c4"}]
    [] OTHER          -> Failed

NetToVec(map) == IF map.child THEN "large.map" ELSE "small.map"
=============================================================================
