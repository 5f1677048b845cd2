SPECIFICATION FairSpec
CHECK_DEADLOCK FALSE
CONSTANTS
  Addr <- MCAddr
  Bytes <- MCBytes
  address_of <- MCAddressOf
  decode_map <- MCDecodeMap
  decrypt <- MCDecrypt
  Failed = Failed
  NoChunk = NoChunk
  MaxDepth = 3
  Requests <- Anything
  getChunk <- Hostile
  Concurrency = 3
INVARIANTS CacheSound ResultIsPublished TwoRounds RetrievalInv
PROPERTIES Termination ImplementsPromise ProgressIsHonest
