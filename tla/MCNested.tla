------------------------------ MODULE MCNested ------------------------------
(***************************************************************************)
(* Nested on small batches of a handful of schemas.                        *)
(***************************************************************************)
EXTENDS Nested

Field(name, nullable, t) == [name |-> name, nullable |-> nullable, type |-> t]
I32 == Flat("Int32")
Utf8 == Flat("Utf8")

Plain ==
  {<<Field("a", FALSE, I32), Field("b", TRUE, Utf8)>>}
Nestings ==
  {<<Field("a", TRUE, I32), Field("b", TRUE, ListOf(I32))>>,
   <<Field("a", TRUE, StructOf(<<Utf8, ListOf(I32)>>)), Field("b", FALSE, I32)>>,
   <<Field("a", TRUE, StructOf(<<Utf8, I32>>))>>,
   <<Field("a", TRUE, LargeListOf(Utf8))>>,
   <<Field("a", TRUE, ListOf(ListOf(I32)))>>,
   <<Field("a", TRUE, ListOf(ListOf(Utf8)))>>}
ListStructs ==
  {<<Field("a", TRUE, ListOf(StructOf(<<I32, I32>>)))>>,
   <<Field("a", TRUE, ListOf(StructOf(<<I32, Utf8>>)))>>}

Conf(schema, ctx, version, pushdown, unitLen, compression) ==
  [schema |-> schema, ctx |-> ctx, version |-> version, pushdown |-> pushdown,
   unitLen |-> unitLen, compression |-> compression]

Contexts == {EmptyContext, AlwaysContext, CustomContext("pco"), CustomContext("custom")}

(* Every context on every schema; other versions, compression, unit        *)
(* lengths and pushdown where they matter.                                 *)
AllConfs ==
  {Conf(s, c, ReaderVersion, FALSE, 0, "Uncompressed") :
     s \in Plain \cup Nestings \cup ListStructs, c \in Contexts}
  \cup {Conf(s, c, v, FALSE, 0, "Lz4") :
     s \in Plain, c \in Contexts, v \in {<<0, 20, 9>>, <<0, 21, 1>>, <<1, 0, 0>>}}
  \cup {Conf(s, c, ReaderVersion, FALSE, 2, "Lz4") :
     s \in Plain \cup Nestings, c \in {EmptyContext, CustomContext("pco")}}
  \cup {Conf(s, c, ReaderVersion, TRUE, 0, "Lz4") :
     s \in Plain \cup ListStructs, c \in {EmptyContext, AlwaysContext}}

EmbeddedConfs ==
  {Conf(s, AlwaysContext, ReaderVersion, FALSE, 0, "Uncompressed") :
     s \in {<<Field("a", TRUE, I32), Field("b", TRUE, ListOf(I32))>>}}

Shape(n, nulls, first, lens) ==
  [n |-> n, nulls |-> nulls, first |-> first, same |-> nulls, lens |-> lens]
SmallShapes ==
  {Shape(1, FALSE, 0, <<2, 0>>), Shape(2, FALSE, 0, <<0, 1>>), Shape(2, TRUE, 0, <<2, 1>>),
   Shape(3, TRUE, 0, <<2, 0>>), Shape(4, FALSE, 0, <<1, 1>>), Shape(6, FALSE, 0, <<0, 1>>),
   Shape(2, TRUE, 1, <<1, 2>>)}
UnslicedShapes == {sh \in SmallShapes : sh.first = 0}
=============================================================================
