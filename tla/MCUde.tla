------------------------------- MODULE MCUde --------------------------------
(***************************************************************************)
(* Ude with small units and the arguments of format/kwargs.md.             *)
(***************************************************************************)
EXTENDS Ude

UnitOf(id, rows, dict) == [bytes |-> EncodeArr(FlatArray(id, rows)), dict |-> dict]
SmallUnits ==
  {UnitOf("Int32", <<1, 2, 1>>, TRUE), UnitOf("Int32", <<1, Null>>, FALSE),
   UnitOf("Int64", <<1>>, FALSE),
   [bytes |-> SubSeq(EncodeArr(FlatArray("Int32", <<1>>)), 1, 2), dict |-> FALSE]}

Word(key, word) == [key |-> key, word |-> word]
SmallArguments ==
  {NoArguments, << >>,
   <<Word(Ppd, <<"Eq", 1>>)>>, <<Word(Ppd, <<"Gt", 1>>)>>,
   <<Word(PartialDecode, <<1>>)>>, <<Word(PartialDecode, << >>)>>,
   <<Word(PartialDecode, <<1>>), Word(PartialDecode, <<0>>)>>,
   <<Word(PartialDecode, <<1>>), Word(Ppd, <<"Eq", 2>>)>>}
=============================================================================
