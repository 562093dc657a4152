\* Two Utf8 columns, up to 3 rows of 2 values and null (of 3 values where columns share
\* dictionaries) in up to 2 batches; index types change at 2, 3 and 4 values; sketches keep
\* 2 hash values.
CONSTANTS
  Null = Null
  SketchLen = 2
  NumCols = 2
  ColType <- TwoColumns
  MaxBatches = 2
  Configs <- AllConfigs
  HashFns <- Hashes
  NumHashes = 1
  Widths <- Widths3
  MinSimilar <- OneHundredth
  MinOverlap <- NinetyNine
  MinShared = 2
SPECIFICATION Spec
CHECK_DEADLOCK FALSE
INVARIANTS
  TypeOK
  ReadsBack
  RightOrFails
  ChunksRightOrFail
  BatchesAlign
  SharingReported
  SketchRight
  FinishCompletes
