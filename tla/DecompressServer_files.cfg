SPECIFICATION FairSpec
CONSTANTS Blocks = {solid, stored}
          Stored = {stored}
          NoBlock = NoBlock
          BlockSize = 4
          MaxBuf = 3
          MaxFiles = 3
INVARIANTS TypeOK DataTrue BufferLent
PROPERTIES Joined
CHECK_DEADLOCK FALSE
