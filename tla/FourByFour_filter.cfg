SPECIFICATION FairSpec
CONSTANTS Workers = {w1, w2}
          NumBlocks = 5
          Faults = {"alloc", "read", "write", "codec"}
INVARIANTS TypeOK OneUser
PROPERTIES FilterSpec ReturnsOrStranded
CHECK_DEADLOCK FALSE
