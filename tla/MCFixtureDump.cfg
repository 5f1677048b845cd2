SPECIFICATION Spec
\* The bound on the number of dumps is used up.
CHECK_DEADLOCK FALSE
CONSTANTS
  Addr <- NetAddr
  Bytes <- NetBytes
  Files <- NetFiles
  address_of <- NetAddressOf
  decode_map <- NetDecodeMap
  decrypt <- NetDecrypt
  encrypt <- NetEncrypt
  to_vec <- NetToVec
  Failed = Failed
  NoChunk = NoChunk
  Torn = Torn
  MaxDepth = 3
  MaxDumps = 3
INVARIANTS DumpInv FirstMarkerCommits MarkerNamesFile
PROPERTY PrintedIsReadable
