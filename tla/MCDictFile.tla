----------------------------- MODULE MCDictFile -----------------------------
(***************************************************************************)
(* DictFile for two columns of one type.                                   *)
(***************************************************************************)
EXTENDS DictFile

Uncut == 100   \* a row group, scope or chunk size no table reaches

(* The options of a writer, for tables of up to rows rows over values.     *)
Config(mode, cut, tiny, packed, rows, values) ==
  [mode |-> mode, scope |-> IF mode = "fixed" THEN 2 ELSE Uncut, cut |-> cut,
   tiny |-> tiny, packed |-> packed, wasm |-> FALSE, rows |-> rows, values |-> values]

(* Dictionaries shared by columns, in a file with row groups, of one value *)
(* each: a merge has nothing to move.                                      *)
OneValueGroups == Config("multicol", 2, FALSE, FALSE, 3, {1})

(* Every mode, with and without row groups of two rows, chunks of one unit *)
(* or of all, compression and WASM decoders.                               *)
AllConfigs ==
  LET plain == {Config(m, cut, tiny, FALSE, 3, {1, 2}) :
                  m \in {"encoder", "local", "fixed", "global", "glbest"},
                  cut \in {2, Uncut}, tiny \in BOOLEAN}
      some == {Config(m, 2, FALSE, FALSE, 2, {1, 2}) :
                 m \in {"encoder", "local", "fixed", "global", "glbest"}}
  IN plain
     \cup {[c EXCEPT !.packed = TRUE] : c \in some}
     \cup {[c EXCEPT !.wasm = TRUE] : c \in some}
     \cup {Config("multicol", Uncut, FALSE, FALSE, 3, {1, 2, 3}),
           Config("multicol", Uncut, TRUE, FALSE, 2, {1, 2, 3})}
     \cup {OneValueGroups, Config("local", 1, FALSE, FALSE, 3, {1, 2})}

(* The same with two values.                                               *)
GroupConfigs == {Config("multicol", 2, FALSE, FALSE, 3, {1, 2})}

TwoColumns == <<"Utf8", "Utf8">>

(* Three hash functions: the order of the values, its reverse, and one     *)
(* that maps two values to one.                                            *)
Hashes ==
  {[v \in 1 .. 3 |-> v], [v \in 1 .. 3 |-> 4 - v], [v \in 1 .. 3 |-> v \div 2]}
Widths3 == <<2, 3, 4>>
OneHundredth == <<1, 100>>
NinetyNine == <<99, 100>>
=============================================================================
