SPECIFICATION Spec
CONSTANTS
  Null = Null
  Alignment = 4
  BlockLen = 2
  MaxIdx = 3
  Confs <- EmbeddedConfs
  Shapes <- UnslicedShapes
  MaxBatches = 1
  ChunkSize = 12
  RowGroupSize = 4
CHECK_DEADLOCK FALSE
INVARIANT EmbeddedReads
