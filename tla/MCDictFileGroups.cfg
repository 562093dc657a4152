\* Two Utf8 columns that share dictionaries, in a file with row groups of 2 rows.
CONSTANTS
  Null = Null
  SketchLen = 2
  NumCols = 2
  ColType <- TwoColumns
  MaxBatches = 2
  Configs <- GroupConfigs
  HashFns <- Hashes
  NumHashes = 1
  Widths <- Widths3
  MinSimilar <- OneHundredth
  MinOverlap <- NinetyNine
  MinShared = 2
SPECIFICATION Spec
CHECK_DEADLOCK FALSE
INVARIANTS
  ReadsBack
