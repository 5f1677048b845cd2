SPECIFICATION TripSpec
\* A text ends refused, or its download ends.
CHECK_DEADLOCK FALSE
CONSTANTS
  Addr <- NetAddr
  Bytes <- NetBytes
  Files <- NetFiles
  address_of <- NetAddressOf
  decode_map <- NetDecodeMap
  decrypt <- NetDecrypt
  encrypt <- NetEncrypt
  to_vec <- NetToVec
  Failed = Failed
  NoChunk = NoChunk
  MaxDepth = 3
  Requests <- Unset
  getChunk <- Served
  Concurrency = 1
  ADDRESS_LEN = 2
  Char <- MCChar
  MaxText = 5
INVARIANTS ParserNeverPanics PageAndParserAgree AddressIsTheText RecordsSurvive
PROPERTY FileComesBack
