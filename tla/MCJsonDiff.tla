------------------------------ MODULE MCJsonDiff ------------------------------
(***************************************************************************)
(* A small instance of JsonDiff for TLC.                                   *)
(***************************************************************************)
EXTENDS JsonDiffReference

\* Two names that differ in case only, and another one.
SomeNames == {"a", "A", "b", EMPTY}

SomeFold == [k \in SomeNames |-> IF k = "A" THEN "a" ELSE k]

\* 1 and 2 are less than an epsilon apart, and 3 is infinite.
SomeClose == {<<0, 0>>, <<1, 1>>, <<2, 2>>, <<1, 2>>, <<2, 1>>}
SomePrint == [n \in Numbers |-> IF n = 0 THEN "0" ELSE IF n = 3 THEN "inf" ELSE "1"]

Number(k, n) == [Item(k, "Number") EXCEPT !.valuedouble = n]
String(k, s) == [Item(k, "String") EXCEPT !.valuestring = s]
Array(k, items) == [Item(k, "Array") EXCEPT !.child = items]
Object(k, items) == [Item(k, "Object") EXCEPT !.child = items]

Scalars(k) ==
  {Item(k, "False"), Item(k, "True"), Item(k, "NULL"), Number(k, 0), Number(k, 1),
   Number(k, 2), Number(k, 3), String(k, "s"), String(k, "t")}

Arrays(k) ==
  {Array(k, <<>>), Array(k, <<Number(NULL, 1)>>), Array(k, <<String(NULL, "s")>>),
   Array(k, <<Number(NULL, 3), String(NULL, "t")>>), Array(k, <<Object(NULL, <<>>)>>)}

Nested(k) ==
  {Object(k, <<>>), Object(k, <<Number("a", 1)>>), Object(k, <<String("A", "s")>>),
   Object(k, <<Number("a", 3), Array("b", <<Number(NULL, 1)>>)>>),
   Object(k, <<Object("b", <<Item("a", "True")>>)>>)}

First == UNION { Scalars(k) \cup Arrays(k) \cup Nested(k) : k \in {"a", "A"} }

Second ==
  {Item("b", "True"), Item("b", "False"), Array("b", <<Number(NULL, 2)>>),
   Object("a", <<Number("a", 1)>>), String("A", "t"), Item(EMPTY, "NULL")}

Pairs == { <<f, s>> : f \in First, s \in Second }

SomeObjects == { Object(NULL, items) : items \in {<<>>} \cup { <<f>> : f \in First } \cup Pairs }

Children(items) == UNION { ToSet(it.child) : it \in items }

\* Nothing is nested more than three levels deep.
SomeItems ==
  LET S1 == Children(SomeObjects)
      S2 == Children(S1)
  IN  SomeObjects \cup S1 \cup S2 \cup Children(S2)

SomeComparable ==
  LET objects == {it \in SomeItems : it.type = "Object"}
  IN  {p \in objects \X objects : Alike(p[1], p[2])}
===============================================================================
