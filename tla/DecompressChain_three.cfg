SPECIFICATION FairSpec
CONSTANTS NumStages = 3
          MaxOut = 3
          MaxBuf = 2
INVARIANTS TypeOK BufferIntact InputComplete
PROPERTIES ChainEnds
CHECK_DEADLOCK FALSE
