CONSTANTS
  NumCols = 2
  RowGroupSize = 3
  ChunkSize = 3
  EncunitLen <- CustomLen
  UnitSizes = {1, 3}
  BatchRows = {0, 2, 4}
  MaxRows = 6
  MaxBatches = 3
  U32 = 7
  Faults = {"encode", "write", "position"}
SPECIFICATION Spec
INVARIANTS ChunksPlaced GroupExtents BufferBounded ColumnsComplete
