SPECIFICATION Spec
CONSTANTS
  Null = Null
  Alignment = 4
  BlockLen = 2
  MaxIdx = 3
  Confs <- AllConfs
  Shapes <- SmallShapes
  MaxBatches = 3
  ChunkSize = 9
  RowGroupSize = 4
CHECK_DEADLOCK FALSE
INVARIANTS
  ReadRight
  FailsOnlyWhere
  ProjectionRight
  PointAccessRight
