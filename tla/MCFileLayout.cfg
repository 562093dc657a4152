CONSTANTS
  NumGroups = 2
  NumCols = 2
  DataSizes = {0, 50}
  NumDicts = 1
  WasmIds = {0, 1}
  Sizes = {3, 9}
  FooterSizes = {8, 40}
  Window = 72
  FewColumns = 1
  Projections <- TwoColumnProjections
  U32 = 100
SPECIFICATION Spec
INVARIANTS OpensRight RefusesTorn CorruptionCaught NoFalseAlarm PanicsOnlyPastWindow WasmIdResolves
