--------------------------- MODULE MCJsonAttributes ---------------------------
(***************************************************************************)
(* A small instance of JsonAttributes for TLC.                             *)
(***************************************************************************)
EXTENDS JsonAttributes

\* Two names that differ in case only, and the empty name as the other name.
SomeKeys == {"a", "A", EMPTY}

SomeFold == [k \in SomeKeys |-> IF k = "A" THEN "a" ELSE k]

\* The smallest int, in proportion.
SomeInt == -2

\* The second contents lose digits when they are printed, the third do not parse.
SomeReprint == <<1, 1>>

\* Names in both cases, an empty one, and what does not parse; a merge of one item.
SomeSources ==
  { <<NumberItem("a", 1), [Blank("A", "Composite") EXCEPT !.text = 2]>>,
    <<StringItem("a", 1), [Blank("A", "Composite") EXCEPT !.text = 3]>>,
    <<Blank("A", "True")>>,
    <<Blank(EMPTY, "True")>> }
===============================================================================
