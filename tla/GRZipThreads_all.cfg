SPECIFICATION FairSpec
CONSTANTS CompressionThreads = 2
          NumBlocks = 5
          Faults = {"memory", "read", "write", "codec"}
INVARIANTS TypeOK OneUser
PROPERTIES FilterSpec ReturnsOrHangs
CHECK_DEADLOCK FALSE
