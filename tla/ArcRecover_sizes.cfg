SPECIFICATION RecordSpec
CONSTANTS ArcSizes = {4190208, 4194304}
          Amounts = {}
          Numbers = {0}
          SectorSizes = {4096}
INVARIANTS RecordMade
CHECK_DEADLOCK FALSE
