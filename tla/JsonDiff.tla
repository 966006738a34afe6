------------------------------- MODULE JsonDiff -------------------------------
(***************************************************************************)
(* diffJSONObjects: what it says of the attributes of one JSON object that *)
(* another one lacks or has with another value.  The recursion is a stack  *)
(* of calls, an item is one step.  Names are compared exactly to ask       *)
(* whether an attribute exists and regardless of case to fetch it, and the *)
(* question, asked of an item that is no object, is answered by the items  *)
(* behind it.                                                              *)
(*                                                                         *)
(* A pointer to an item is the sequence of that item and the ones behind   *)
(* it, a null pointer is empty.                                            *)
(***************************************************************************)
EXTENDS Integers, Sequences, SequencesExt

CONSTANTS
  Names,    \* the names of items
  EMPTY,    \* the empty name
  NULL,     \* the name of an array's element, and the text of a non-string
  Fold,     \* a name in lower case
  Numbers,
  Close,    \* the pairs of numbers that are less than an epsilon apart
  Printed,  \* a number as a stream prints it: two may look the same
  Texts,    \* the strings of string items
  Items,    \* the items there are, from the objects down
  Objects,  \* the objects that are compared
  Comparable  \* pairs of objects with unambiguous names and the same types

ASSUME NamesAssumption == EMPTY \in Names /\ NULL \notin Names /\ Fold \in [Names -> Names]

ASSUME ValuesAssumption == 0 \in Numbers /\ Printed \in [Numbers -> STRING] /\ NULL \notin Texts

\* An infinite number is not close to itself: their difference is no number.
ASSUME CloseAssumption == Close \subseteq Numbers \X Numbers

Bools == {"False", "True"}

Types == Bools \cup {"NULL", "Number", "String", "Array", "Object"}

\* Only a string item has a text.
ASSUME ItemsAssumption ==
  /\ \A it \in Items :
       /\ it.string \in Names \cup {NULL} /\ it.type \in Types
       /\ it.valuedouble \in Numbers /\ it.child \in Seq(Items)
       /\ it.valuestring \in IF it.type = "String" THEN Texts ELSE {NULL}
  /\ Objects \subseteq {it \in Items : it.type = "Object"}

\* Every attribute has a name of its own, case ignored.
Unambiguous(obj) ==
  /\ \A i \in DOMAIN obj.child : obj.child[i].string \notin {NULL, EMPTY}
  /\ \A i, j \in DOMAIN obj.child :
       Fold[obj.child[i].string] = Fold[obj.child[j].string] => i = j

SameType(it1, it2) == it1.type = it2.type \/ {it1.type, it2.type} = Bools

\* What both objects have under exactly the same name has the same type in both, and
\* so have the elements of arrays there.
SameTypes(obj1, obj2) ==
  \A it1 \in ToSet(obj1.child), it2 \in ToSet(obj2.child) : it1.string = it2.string =>
    /\ SameType(it1, it2)
    /\ it1.type = "Array" =>
         \A n \in DOMAIN it1.child \cap DOMAIN it2.child : SameType(it1.child[n], it2.child[n])

\* Objects of the same name in comparable objects are comparable in turn.
ASSUME ComparableAssumption ==
  \A obj1, obj2 \in Items : <<obj1, obj2>> \in Comparable =>
    /\ Unambiguous(obj1) /\ Unambiguous(obj2) /\ SameTypes(obj1, obj2)
    /\ \A it1 \in ToSet(obj1.child), it2 \in ToSet(obj2.child) :
         it1.string = it2.string /\ it1.type = "Object" => <<it1, it2>> \in Comparable

Item(k, type) ==
  [string |-> k, type |-> type, valuedouble |-> 0, valuestring |-> NULL, child |-> <<>>]

VARIABLES
  root1, root2,  \* the objects
  JSONObjDiff,   \* the entries so far: the name, the index if any, and the text
  stack,         \* the calls, the innermost first: their arguments and item
  state          \* "run", "done", or "dead" once undefined behaviour or an
                 \* exception has ended the process

vars == <<root1, root2, JSONObjDiff, stack, state>>

(***************************************************************************)
(* Looking up.                                                             *)
(***************************************************************************)
\* doesAttributeExist, which only goes down from an array or object.
Exists(obj, k) ==
  LET items == IF Head(obj).type \in {"Array", "Object"} THEN Head(obj).child ELSE obj
  IN  \E i \in DOMAIN items : items[i].string = k

\* cJSON_GetObjectItem.
GetObjectItem(obj, k) ==
  LET items == Head(obj).child
      i == SelectInSeq(items, LAMBDA it : it.string # NULL /\ Fold[it.string] = Fold[k])
  IN  IF i = 0 THEN <<>> ELSE SubSeq(items, i, Len(items))

(***************************************************************************)
(* diffJSONObject.                                                         *)
(***************************************************************************)
Arrow(from, to) == << <<from, to>> >>

\* Mutant of AreSame: the epsilon is forgotten.
AreSameExactly(a, b) == a = b

\* How numbers are compared.
AreSame(a, b) == <<a, b>> \in Close

\* Mutant of Change: a boolean that is not false any more goes unnoticed.
ChangeToFalseOnly(it1, it2) ==
  CASE it1.type = "True" /\ it2.type # "True" -> Arrow("True", "False")
    [] it1.type = "NULL" /\ it2.type # "NULL" -> Arrow("NULL", Printed[it2.valuedouble])
    [] it1.type = "Number" /\ ~AreSame(it1.valuedouble, it2.valuedouble) ->
         Arrow(Printed[it1.valuedouble], Printed[it2.valuedouble])
    [] it1.type = "String" /\ it1.valuestring # it2.valuestring ->
         Arrow(it1.valuestring, it2.valuestring)
    [] OTHER -> <<>>

\* What it says: nothing, or one text. Arrays and objects say nothing.
Change(it1, it2) ==
  CASE it1.type = "False" /\ it2.type = "True" -> Arrow("False", "True")
    [] it1.type = "True" /\ it2.type # "True" -> Arrow("True", "False")
    [] it1.type = "NULL" /\ it2.type # "NULL" -> Arrow("NULL", Printed[it2.valuedouble])
    [] it1.type = "Number" /\ ~AreSame(it1.valuedouble, it2.valuedouble) ->
         Arrow(Printed[it1.valuedouble], Printed[it2.valuedouble])
    [] it1.type = "String" /\ it1.valuestring # it2.valuestring ->
         Arrow(it1.valuestring, it2.valuestring)
    [] OTHER -> <<>>

\* A string is made of the second text without asking whether there is one.
Throws(it1, it2) == it1.type = "String" /\ it2.valuestring = NULL

Entries(k, index, texts) ==
  [n \in DOMAIN texts |-> [string |-> k, index |-> index, text |-> texts[n]]]

NoIndex == -1

(***************************************************************************)
(* diffJSONObjects.                                                        *)
(***************************************************************************)
\* Mutant of Call: it starts in front of the first item.
CallEarly(obj1, obj2) == [obj1 |-> obj1, obj2 |-> obj2, i |-> 0]

Call(obj1, obj2) == [obj1 |-> obj1, obj2 |-> obj2, i |-> 1]

Init ==
  /\ root1 \in Objects /\ root2 \in Objects
  /\ JSONObjDiff = <<>> /\ state = "run"
  /\ stack = << Call(<<root1>>, <<root2>>) >>

Top == Head(stack)
Attributes == Head(Top.obj1).child
item1 == Attributes[Top.i]

AtItem == state = "run" /\ Top.i <= Len(Attributes)
Named == item1.string \notin {NULL, EMPTY}

\* The "continue" for an item without a name does not fetch the next one.
DiffUnnamed == AtItem /\ ~Named /\ UNCHANGED vars

\* Mutant of There: everything is.
ThereAlways == TRUE

There == Exists(Top.obj2, item1.string)
Found == GetObjectItem(Top.obj2, item1.string)

NextItem == stack' = << [Top EXCEPT !.i = @ + 1] >> \o Tail(stack)

Say(entries) == JSONObjDiff' = JSONObjDiff \o entries

Goes == UNCHANGED <<root1, root2, state>>

Dies == state' = "dead" /\ UNCHANGED <<root1, root2, JSONObjDiff, stack>>

\* The elements that both arrays have.
Common(item2) == 1 .. IF Len(item1.child) < Len(item2.child)
                      THEN Len(item1.child) ELSE Len(item2.child)

ArrayEntries(item2) ==
  FlattenSeq([n \in Common(item2) |->
    Entries(item1.string, n - 1, Change(item1.child[n], item2.child[n]))])

\* Mutant of SkipArray: the next item is not fetched.
SkipArrayStays == AtItem /\ Named /\ item1.type = "Array" /\ ~There /\ UNCHANGED vars

\* An array that the second object lacks is not mentioned.
SkipArray ==
  /\ AtItem /\ Named /\ item1.type = "Array" /\ ~There
  /\ UNCHANGED JSONObjDiff /\ NextItem /\ Goes

\* Two arrays; a null item2 is not expected.
DiffArray ==
  /\ AtItem /\ Named /\ item1.type = "Array" /\ There
  /\ IF Found = <<>> THEN Dies
     ELSE LET item2 == Head(Found) IN
       IF item2.type # "Array"
       THEN Say(Entries(item2.string, NoIndex, << <<"Type mismatch">> >>)) /\ NextItem /\ Goes
       ELSE IF \E n \in Common(item2) : Throws(item1.child[n], item2.child[n]) THEN Dies
       ELSE Say(ArrayEntries(item2)) /\ NextItem /\ Goes

\* An object: the recursive call, unless there is nothing to compare with. The first
\* argument is fetched too, and may be another item.
DiffObject ==
  /\ AtItem /\ Named /\ item1.type = "Object" /\ There
  /\ LET obj1 == GetObjectItem(Top.obj1, item1.string)
         rest == << [Top EXCEPT !.i = @ + 1] >> \o Tail(stack)
     IN  stack' = IF Found = <<>> THEN rest ELSE << Call(obj1, Found) >> \o rest
  /\ UNCHANGED JSONObjDiff /\ Goes

\* Any other item.
DiffScalar ==
  /\ AtItem /\ Named /\ item1.type \notin {"Array", "Object"} /\ There
  /\ IF Found = <<>> THEN UNCHANGED JSONObjDiff /\ NextItem /\ Goes
     ELSE IF Throws(item1, Head(Found)) THEN Dies
     ELSE Say(Entries(item1.string, NoIndex, Change(item1, Head(Found)))) /\ NextItem /\ Goes

\* An item that the second object lacks "was added"; a null text, which all but
\* strings have, makes the whole message empty.
DiffAdded ==
  /\ AtItem /\ Named /\ item1.type # "Array" /\ ~There
  /\ LET text == IF item1.valuestring = NULL THEN <<>> ELSE <<item1.valuestring, "was added">>
     IN  Say(Entries(item1.string, NoIndex, <<text>>))
  /\ NextItem /\ Goes

Return ==
  /\ state = "run" /\ Top.i > Len(Attributes)
  /\ stack' = Tail(stack)
  /\ state' = IF Tail(stack) = <<>> THEN "done" ELSE "run"
  /\ UNCHANGED <<root1, root2, JSONObjDiff>>

Step == SkipArray \/ DiffArray \/ DiffObject \/ DiffScalar \/ DiffAdded \/ Return

Next == DiffUnnamed \/ Step

Spec == Init /\ [][Next]_vars

\* The call goes on.
FairSpec == Spec /\ WF_vars(Step)

(***************************************************************************)
(* Properties.                                                             *)
(***************************************************************************)
Word ==
  {"False", "True", "NULL", "Type mismatch", "was added"} \cup Texts
    \cup {Printed[x] : x \in Numbers}

Entry == [string : Names, index : Nat \cup {NoIndex}, text : Seq(Word)]

TypeOK ==
  /\ root1 \in Objects /\ root2 \in Objects /\ state \in {"run", "done", "dead"}
  /\ JSONObjDiff \in Seq(Entry)
  /\ state = "run" => stack # <<>>
  /\ \A n \in DOMAIN stack :
       /\ stack[n].obj1 # <<>> /\ stack[n].obj2 # <<>>
       /\ stack[n].i \in 1..(Len(Head(stack[n].obj1).child) + 1)

\* Comparable objects are compared without reading through a null pointer
\* (valuestring in diffJSONObject, item2 in diffJSONObjects).
ComparableSurvives == <<root1, root2>> \in Comparable => state # "dead"

(***************************************************************************)
(* What comparable objects should make the comparison say.                 *)
(***************************************************************************)
\* The pairs of objects of the same name in a pair of objects.
Below(p) ==
  {q \in ToSet(p[1].child) \X ToSet(p[2].child) :
     q[1].string = q[2].string /\ q[1].type = "Object"}

Differ(it1, it2) ==
  \/ it1.type \in Bools /\ it2.type # it1.type
  \/ it1.type = "Number" /\ <<it1.valuedouble, it2.valuedouble>> \notin Close
  \/ it1.type = "String" /\ it1.valuestring # it2.valuestring

Shown(it) ==
  IF it.type = "Number" THEN Printed[it.valuedouble]
  ELSE IF it.type = "String" THEN it.valuestring ELSE it.type

Due(k, index, it1, it2) ==
  IF Differ(it1, it2)
  THEN {[string |-> k, index |-> index, text |-> <<Shown(it1), Shown(it2)>>]} ELSE {}

\* The entries for an attribute that the second object has too, and has not.
ChangeDue(it1, it2) ==
  IF it1.type = "Array"
  THEN UNION {Due(it1.string, n - 1, it1.child[n], it2.child[n]) :
                n \in DOMAIN it1.child \cap DOMAIN it2.child}
  ELSE Due(it1.string, NoIndex, it1, it2)

AddedDue(it1) ==
  IF it1.type = "Array" THEN {}
  ELSE {[string |-> it1.string, index |-> NoIndex,
         text |-> IF it1.type = "String" THEN <<it1.valuestring, "was added">> ELSE <<>>]}

AttributeDue(it1, obj2) ==
  LET its == {it2 \in ToSet(obj2.child) : it2.string = it1.string}
  IN  IF its = {} THEN AddedDue(it1) ELSE UNION {ChangeDue(it1, it2) : it2 \in its}

AllDue(pairs) == UNION {UNION {AttributeDue(it1, p[2]) : it1 \in ToSet(p[1].child)} : p \in pairs}
===============================================================================
