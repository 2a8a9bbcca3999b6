SPECIFICATION FairSpec
CONSTANTS NumBlocks = 5
          DictBlocks = 2
          Faults = {"size", "read", "save", "matches", "main"}
INVARIANTS TypeOK DictionaryIntact CleanedUpAlone
PROPERTIES FilterSpec EndsOrStarves
CHECK_DEADLOCK FALSE
