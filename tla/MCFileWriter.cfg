CONSTANTS
  NumCols = 2
  RowGroupSize = 3
  ChunkSize = 3
  EncunitLen <- NoCustomLen
  UnitSizes = {1, 3}
  BatchRows = {0, 1, 2}
  MaxRows = 5
  MaxBatches = 4
  U32 = 7
  Faults = {}
SPECIFICATION Spec
INVARIANTS TypeOK UnitsPairUp NoOrphans
PROPERTIES FileIsTable
