SPECIFICATION FairSpec
CONSTANTS HeapSize = 13
          BufferSize = 7
          Alignment = 2
INVARIANTS TypeOK NoOverlap NeverAddToAvail NothingLeaks
PROPERTIES PoolSpec GetBlockReturns
