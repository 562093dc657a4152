SPECIFICATION Spec
CONSTANTS
  Null = Null
  Alignment = 4
  BlockLen = 2
  MaxIdx = 3
  Units <- SmallUnits
  Arguments <- SmallArguments
  NoArguments = NoArguments
  MaxInits = 2
  MaxDecodes = 3
  MaxNulls = 1
CHECK_DEADLOCK FALSE
INVARIANTS
  SafeUnlessMisused
  ResultRight
  FailsOnlyAfter
