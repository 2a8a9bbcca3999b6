SPECIFICATION FairSpec
CONSTANTS Solid <- ThreeSolid
          CacheBuffers = 1
          MaxChunks = 1
          NoDir = FALSE
          Recovery = FALSE
PROPERTIES Completes
CHECK_DEADLOCK FALSE
