SPECIFICATION RecordSpec
CONSTANTS ArcSizes = {7, 18}
          Amounts = {0, 28, 32}
          Numbers = {0, 2, 8}
          SectorSizes = {4}
INVARIANTS RecordTypeOK RepairExact BurstRecovered
CHECK_DEADLOCK FALSE
