------------------------------- MODULE Table --------------------------------
(***************************************************************************)
(* What a file writer promises a reader: rows are only appended; a row     *)
(* group is cut as soon as it has RowGroupSize rows, not earlier; closing  *)
(* the table cuts one last group; and a group gives back, for every        *)
(* column, the same interval lo .. hi-1 of rows.                           *)
(***************************************************************************)
EXTENDS Integers, Sequences

CONSTANTS Columns, RowGroupSize, BatchRows

VARIABLES
  table,   \* number of rows appended
  groups,  \* the row groups cut so far
  closed

tvars == <<table, groups, closed>>

(* The first row that is in no group yet.                                  *)
Cutoff ==
  IF groups = << >> THEN 0
  ELSE LET c == CHOOSE c \in Columns : TRUE IN groups[Len(groups)][c].hi
Pending == table - Cutoff
Filling == Pending < RowGroupSize \/ Pending = 0
NewGroup == [c \in Columns |-> [lo |-> Cutoff, hi |-> table]]

TableInit == table = 0 /\ groups = << >> /\ closed = FALSE

(* A batch of n rows is added to the group that is being filled.           *)
AppendRows(n) ==
  /\ ~closed /\ Filling
  /\ table' = table + n
  /\ UNCHANGED <<groups, closed>>

(* The group has reached its threshold.                                    *)
CutGroup ==
  /\ ~closed /\ Pending >= RowGroupSize
  /\ groups' = Append(groups, NewGroup)
  /\ UNCHANGED <<table, closed>>

(* The remaining rows, possibly none, make the last group.                 *)
CloseTable ==
  /\ ~closed /\ Filling
  /\ groups' = Append(groups, NewGroup)
  /\ closed' = TRUE
  /\ UNCHANGED table

TableNext == (\E n \in BatchRows : AppendRows(n)) \/ CutGroup \/ CloseTable

TableSpec == TableInit /\ [][TableNext]_tvars
=============================================================================
