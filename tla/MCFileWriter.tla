---------------------------- MODULE MCFileWriter ----------------------------
(***************************************************************************)
(* FileWriter and FileTable on small instances.                            *)
(***************************************************************************)
EXTENDS FileTable

NoCustomLen == [c \in Columns |-> 0]

(* The second column has a custom encunit length of two rows.              *)
CustomLen == [c \in Columns |-> IF c = 2 THEN 2 ELSE 0]
=============================================================================
