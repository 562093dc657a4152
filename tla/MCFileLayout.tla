---------------------------- MODULE MCFileLayout ----------------------------
(***************************************************************************)
(* FileLayout with two columns: all of them (fetched at once), one of them *)
(* (fetched on its own) and both in the other order.                       *)
(***************************************************************************)
EXTENDS FileLayout

TwoColumnProjections == {<<1, 2>>, <<2>>, <<2, 1>>}
=============================================================================
