\* Files of up to 4 rows in every shape; up to 2 selected rows; ranges of up to 3 rows.
CONSTANTS
  MaxRows = 4
  MaxWants = 2
  Files <- SmallFiles
  Wants <- SortedWants
  RangeLens = {1, 2, 3}
SPECIFICATION Spec
INVARIANTS
  SelectRight
  PointRight
  RangeRight
