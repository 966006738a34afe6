------------------------------ MODULE MCJsonMaps ------------------------------
(***************************************************************************)
(* A small instance of JsonMaps for TLC.                                   *)
(***************************************************************************)
EXTENDS JsonMaps

\* "01" is another name of the integer 1, "x" is none, and an element of an array
\* has the empty string for its key.
SomeNames == {"1", "2", "01", "x", ""}

SomeKeys == [knd \in Kinds |-> IF knd = "int" THEN {"1", "2"} ELSE SomeNames]

SomeKeyOf ==
  [knd \in Kinds |-> [k \in SomeNames \cup {NULL} |->
     IF knd = "int"
     THEN IF k = NULL THEN FAIL
          ELSE CASE k = "01" -> "1" [] k \in {"x", ""} -> FAIL [] OTHER -> k
     ELSE IF k = NULL THEN "" ELSE k]]

SomePlace ==
  [knd \in Kinds |->
     IF knd = "int" THEN [k \in {"1", "2"} |-> IF k = "1" THEN 1 ELSE 2]
     ELSE [k \in SomeNames |-> SelectInSeq(<<"", "01", "1", "2", "x">>, LAMBDA j : j = k)]]

\* Two or three items: numbers under any name, and something else.
SomeItems ==
  { NumberItem(k, x) : k \in {"1", "2", "01", "x"}, x \in Numbers }
    \cup {[string |-> "1", type |-> "String", valuedouble |-> 0]}

SomeDocuments ==
  { <<i, j>> : i, j \in SomeItems } \cup { <<i, j, NumberItem("01", 0)>> : i, j \in SomeItems }
    \cup { << NumberItem(NULL, x), NumberItem(NULL, 1) >> : x \in Numbers }
===============================================================================
