SPECIFICATION FairSpec
CONSTANTS Solid <- AllKinds
          CacheBuffers = 2
          MaxChunks = 3
          NoDir = FALSE
          Recovery = TRUE
INVARIANTS TypeOK DescriptorsTrue NothingLeft ProtocolKept
PROPERTIES CompletesOrStuck
CHECK_DEADLOCK FALSE
