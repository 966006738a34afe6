---------------------------- MODULE JsonAttributes ----------------------------
(***************************************************************************)
(* The attribute calls of CNT_JSON on one JSON object: typed getters and   *)
(* setters, increments, addParamsMap, copyItem and mergeJSONObjects, over  *)
(* the list of items that cJSON keeps.  The library compares names exactly *)
(* when it looks for an attribute and leaves the replacement to cJSON,     *)
(* which ignores case; and an attribute is found by name and type, so that *)
(* one name may occur with several types.  The calls are sequential; what  *)
(* is hard is what a sequence of them does to such an object.              *)
(*                                                                         *)
(* A double is counted in halves, a string is represented by its length,   *)
(* an array or object by a number that stands for its contents.  Contents  *)
(* in which a number is infinite print as text that does not parse; the    *)
(* calls that copy them do not ask.                                        *)
(***************************************************************************)
EXTENDS Integers, Sequences, SequencesExt

CONSTANTS
  Keys,       \* the names of items
  EMPTY,      \* the empty name
  Fold,       \* a name in lower case
  MaxInt,     \* the ints handed over are 0..MaxInt; the largest is INT_MAX
  INT_MIN,    \* what the conversion of a larger double to int gives
  Doubles,    \* the doubles, in halves
  Params,     \* those that are handed to addParamsMap
  Lengths,    \* the lengths of the strings handed over
  Contents,   \* the contents of arrays and objects
  Reprint,    \* contents after cJSON_Print and cJSON_Parse, where that succeeds
  Sources,    \* the objects that are merged and copied from
  MaxItems    \* calls make no larger object; a bound, which is not in the code

Types == {"False", "True", "NULL", "Number", "String", "Composite"}

Bools == {"False", "True"}

Ints == 0 .. MaxInt

\* An item; text is valuestring, or the contents of an array or object, and room
\* the size of the buffer behind valuestring.
Item ==
  {it \in [string : Keys, type : Types, valueint : Ints \cup {INT_MIN}, valuedouble : Doubles,
           text : Lengths \cup Contents \cup {0}, room : Lengths \cup {0}] :
     /\ it.type = "String" => it.text \in Lengths
     /\ it.type = "Composite" => it.text \in Contents}

ASSUME KeysAssumption == EMPTY \in Keys /\ Fold \in [Keys -> Keys]

ASSUME NumberAssumption ==
  /\ MaxInt \in Nat /\ MaxItems \in Nat /\ INT_MIN \in Int
  /\ Doubles \subseteq Nat /\ Params \subseteq Doubles /\ \A v \in Ints : 2 * v \in Doubles
  /\ Lengths \subseteq Nat /\ Contents \subseteq Nat

\* Printing a number in an array or object may round it.
Parsable == DOMAIN Reprint

ASSUME ReprintAssumption == Parsable \subseteq Contents /\ Reprint \in [Parsable -> Contents]

ASSUME SourcesAssumption == Sources \subseteq Seq(Item)

VARIABLES
  doc,     \* the object the calls work on
  alive,   \* FALSE once undefined behaviour has ended the process
  call,    \* "none", or "merge" while mergeJSONObjects is in its loop
  src,     \* its source
  item,    \* its position in the source
  before   \* the object when it was called (history)

vars == <<doc, alive, call, src, item, before>>
mergeVars == <<call, src, item, before>>

(***************************************************************************)
(* Items and the cJSON calls that the library makes.                       *)
(***************************************************************************)
Blank(k, type) == [string |-> k, type |-> type, valueint |-> 0,
                   valuedouble |-> 0, text |-> 0, room |-> 0]

\* The conversion of a double that no int holds is undefined; the instruction that
\* the compiler uses gives INT_MIN.
ToInt(x) == IF x \div 2 <= MaxInt THEN x \div 2 ELSE INT_MIN

NumberItem(k, x) == [Blank(k, "Number") EXCEPT !.valueint = ToInt(x), !.valuedouble = x]

StringItem(k, s) == [Blank(k, "String") EXCEPT !.text = s, !.room = s]

\* Without this cJSON_Parse returns no item.
Readable(it) == it.type = "Composite" => it.text \in Parsable

\* The copy of a readable item that mergeJSONObjects and copyItem make under the
\* name k.
Clone(k, it) ==
  CASE it.type = "Number"    -> NumberItem(k, it.valuedouble)
    [] it.type = "String"    -> StringItem(k, it.text)
    [] it.type = "Composite" -> [Blank(k, "Composite") EXCEPT !.text = Reprint[it.text]]
    [] OTHER                 -> Blank(k, it.type)

\* The position of the first item whose name is k when case is ignored, or 0.
GetObjectItem(d, k) == SelectInSeq(d, LAMBDA it : Fold[it.string] = Fold[k])

AddItem(d, new) == Append(d, new)

\* Mutant of ReplaceItem: it replaces the item behind the one it has found.
ReplaceNextItem(d, new) ==
  LET i == GetObjectItem(d, new.string) IN
    IF i = 0 THEN d ELSE [d EXCEPT ![IF i < Len(d) THEN i + 1 ELSE i] = new]

\* cJSON_ReplaceItemInObject replaces the first item of that name, in any case.
ReplaceItem(d, new) ==
  LET i == GetObjectItem(d, new.string) IN
    IF i = 0 THEN d ELSE [d EXCEPT ![i] = new]

(***************************************************************************)
(* Getters: the first item with the name and the type.                     *)
(***************************************************************************)
\* Mutant of DoesAttributeExist: it looks a name up the way cJSON does.
DoesAttributeExistFolded(d, k) == GetObjectItem(d, k) # 0

\* An empty name never exists.
DoesAttributeExist(d, k) == k # EMPTY /\ \E i \in DOMAIN d : d[i].string = k

Find(d, k, types) == SelectInSeq(d, LAMBDA it : it.string = k /\ it.type \in types)

GetInt(d, k, missing) ==
  LET i == Find(d, k, {"Number"}) IN IF i = 0 THEN missing ELSE d[i].valueint

GetDouble(d, k, missing) ==
  LET i == Find(d, k, {"Number"}) IN IF i = 0 THEN missing ELSE d[i].valuedouble

GetString(d, k, missing) ==
  LET i == Find(d, k, {"String"}) IN IF i = 0 THEN missing ELSE d[i].text

\* The getter of booleans stops at the first item of the name, of any type.
GetBool(d, k, missing) ==
  LET i == Find(d, k, Types) IN
    IF i = 0 \/ d[i].type \notin Bools THEN missing ELSE d[i].type

(***************************************************************************)
(* Setters: they look for the item like the getters, then replace the      *)
(* first of the name, or add an item.                                      *)
(***************************************************************************)
Replaced(d, new) ==
  IF Find(d, new.string, {new.type}) = 0 THEN AddItem(d, new) ELSE ReplaceItem(d, new)

\* After the replacement the item that was found is written once more.  When it
\* is the one replaced, that is freed memory and nothing reads it again.
WithInt(d, k, v) ==
  LET i == Find(d, k, {"Number"})
      r == Replaced(d, NumberItem(k, 2 * v)) IN
    IF i = 0 \/ i = GetObjectItem(d, k) THEN r ELSE [r EXCEPT ![i].valueint = v]

\* Mutant of WithDouble: it does not look for the item.
WithDoubleAdded(d, k, x) == AddItem(d, NumberItem(k, x))

WithDouble(d, k, x) == Replaced(d, NumberItem(k, x))

WithString(d, k, s) == Replaced(d, StringItem(k, s))

WithBool(d, k, b) ==
  LET i == Find(d, k, Bools) IN
    IF i = 0 THEN AddItem(d, Blank(k, b)) ELSE [d EXCEPT ![i].type = b]

\* What mergeJSONObjects and copyItem do with one item of the source; to add no item
\* changes nothing.
WithCopy(d, k, it) ==
  IF ~Readable(it) THEN d
  ELSE IF DoesAttributeExist(d, k) THEN ReplaceItem(d, Clone(k, it))
  ELSE AddItem(d, Clone(k, it))

(***************************************************************************)
(* The calls as actions.                                                   *)
(***************************************************************************)
Init ==
  /\ doc = <<>> /\ alive = TRUE
  /\ call = "none" /\ src = <<>> /\ item = 0 /\ before = <<>>

Call == alive /\ call = "none" /\ UNCHANGED mergeVars

Die == alive' = FALSE /\ UNCHANGED doc

SetInt(k, v) == Call /\ doc' = WithInt(doc, k, v) /\ UNCHANGED alive

SetDouble(k, x) == Call /\ doc' = WithDouble(doc, k, x) /\ UNCHANGED alive

SetString(k, s) == Call /\ doc' = WithString(doc, k, s) /\ UNCHANGED alive

SetBool(k, b) == Call /\ doc' = WithBool(doc, k, b) /\ UNCHANGED alive

IncrInt(k, n) ==
  /\ Call
  /\ LET v == GetInt(doc, k, -1) IN
       /\ v # -1 /\ v + n \in Ints
       /\ doc' = WithInt(doc, k, v + n)
  /\ UNCHANGED alive

IncrDouble(k, n) ==
  /\ Call
  /\ LET x == GetDouble(doc, k, -1) IN
       /\ x # -1 /\ x + n \in Doubles
       /\ doc' = WithDouble(doc, k, x + n)
  /\ UNCHANGED alive

\* One pair of addParamsMap(map<string, double>), doc being the "params" object:
\* only valuedouble is set in an item that is there, whatever its type and case.
AddParamNumber(k, x) ==
  /\ Call
  /\ LET i == GetObjectItem(doc, k) IN
       doc' = IF i = 0 THEN AddItem(doc, NumberItem(k, x))
                       ELSE [doc EXCEPT ![i].valuedouble = x]
  /\ UNCHANGED alive

\* One pair of addParamsMap(map<string, string>): strcpy into the buffer of the
\* item, which may be missing or too small.
AddParamString(k, s) ==
  /\ Call
  /\ LET i == GetObjectItem(doc, k) IN
       \/ i = 0 /\ doc' = AddItem(doc, StringItem(k, s)) /\ UNCHANGED alive
       \/ i # 0 /\ doc[i].type = "String"
          /\ doc' = [doc EXCEPT ![i].text = s] /\ UNCHANGED alive
       \/ i # 0 /\ doc[i].type = "String" /\ s > doc[i].room /\ Die
       \/ i # 0 /\ doc[i].type # "String" /\ Die

\* What mergeJSONObjects and copyItem do with one item of the source: when there is
\* no item, cJSON_ReplaceItemInObject dereferences a null pointer.
Copy(k, it) ==
  IF ~Readable(it) /\ DoesAttributeExist(doc, k) THEN Die
  ELSE doc' = WithCopy(doc, k, it) /\ UNCHANGED alive

\* copyItem finds the source in any case.
CopyItem(k, s, sk) ==
  /\ Call
  /\ LET i == GetObjectItem(s, sk) IN
       i # 0 /\ Copy(k, s[i])

Missing(s) == {i \in DOMAIN s : ~DoesAttributeExist(doc, s[i].string)}

MergeCall(s) ==
  /\ alive /\ call = "none" /\ Len(doc) + Cardinality(Missing(s)) <= MaxItems
  /\ call' = "merge" /\ src' = s /\ item' = 1 /\ before' = doc
  /\ UNCHANGED <<doc, alive>>

AtItem == alive /\ call = "merge" /\ item <= Len(src)

\* Mutants of MergeItem: the next item is fetched twice; it is not fetched after an
\* array or object; the attribute is added without asking whether it exists.
MergeItemSkips ==
  /\ AtItem /\ src[item].string # EMPTY
  /\ Copy(src[item].string, src[item])
  /\ item' = IF alive' THEN item + 2 ELSE item
  /\ UNCHANGED <<call, src, before>>

MergeItemStays ==
  /\ AtItem /\ src[item].string # EMPTY
  /\ Copy(src[item].string, src[item])
  /\ item' = IF alive' /\ src[item].type # "Composite" THEN item + 1 ELSE item
  /\ UNCHANGED <<call, src, before>>

MergeItemAdds ==
  /\ AtItem /\ src[item].string # EMPTY
  /\ Readable(src[item])
  /\ doc' = AddItem(doc, Clone(src[item].string, src[item]))
  /\ item' = item + 1
  /\ UNCHANGED <<alive, call, src, before>>

MergeItem ==
  /\ AtItem /\ src[item].string # EMPTY
  /\ Copy(src[item].string, src[item])
  /\ item' = IF alive' THEN item + 1 ELSE item
  /\ UNCHANGED <<call, src, before>>

\* The "continue" for an item without a name does not fetch the next one.
MergeUnnamed == AtItem /\ src[item].string = EMPTY /\ UNCHANGED vars

MergeReturn ==
  /\ alive /\ call = "merge" /\ item > Len(src)
  /\ call' = "none" /\ src' = <<>> /\ item' = 0 /\ before' = <<>>
  /\ UNCHANGED <<doc, alive>>

Attribute(k) ==
  \/ \E v \in Ints : SetInt(k, v)
  \/ \E x \in Doubles : SetDouble(k, x)
  \/ \E s \in Lengths : SetString(k, s)
  \/ \E b \in Bools : SetBool(k, b)
  \/ IncrInt(k, 1)
  \/ \E n \in {1, 2} : IncrDouble(k, n)
  \/ \E x \in Params : AddParamNumber(k, x)
  \/ \E s \in Lengths : AddParamString(k, s)
  \/ \E s \in Sources, sk \in Keys : CopyItem(k, s, sk)

Next ==
  \/ \E k \in Keys : Attribute(k) /\ Len(doc') <= MaxItems
  \/ \E s \in Sources : MergeCall(s)
  \/ MergeItem
  \/ MergeUnnamed
  \/ MergeReturn

Spec == Init /\ [][Next]_vars

\* A call that is in its loop goes on.
FairSpec == Spec /\ WF_vars(MergeItem) /\ WF_vars(MergeReturn)

(***************************************************************************)
(* Properties.                                                             *)
(***************************************************************************)
\* Every variable keeps its type.
TypeOK ==
  /\ doc \in Seq(Item) /\ alive \in BOOLEAN
  /\ call \in {"none", "merge"}
  /\ src \in Seq(Item) /\ before \in Seq(Item)
  /\ item \in 0 .. Len(src) + 1

Names(d) == {d[i].string : i \in DOMAIN d}

\* No two items have the same name when case is ignored.
Distinct(d) ==
  \A i, j \in DOMAIN d : Fold[d[i].string] = Fold[d[j].string] => i = j

\* A getter returns what a setter has just stored, also when the object holds the
\* name several times, with several types and in several cases, and also when the
\* one is of integers and the other of doubles that an int holds: the two numbers
\* of the item agree, and of two items of the name the same is read.
\* Booleans need an object in which the name has no other type
\* (setAttributeValue_Int, setAttributeValue_Double, setAttributeValue_String,
\* setAttributeValue_Bool).
ReadYourWrite ==
  call = "none" => \A k \in Keys :
    /\ \A v \in Ints :
         LET d == WithInt(doc, k, v) IN GetInt(d, k, -1) = v /\ GetDouble(d, k, -1) = 2 * v
    /\ \A x \in Doubles :
         LET d == WithDouble(doc, k, x) IN
           GetDouble(d, k, -1) = x /\ (x \div 2 \in Ints => GetInt(d, k, -1) = x \div 2)
    /\ \A s \in Lengths : GetString(WithString(doc, k, s), k, -1) = s
    /\ Find(doc, k, Types \ Bools) = 0 =>
         \A b \in Bools : GetBool(WithBool(doc, k, b), k, "none") = b

\* A step changes items of one name only, upper and lower case taken together:
\* all others stay as they are and where they are (cJSON_ReplaceItemInObject as
\* the setters, addParamsMap, copyItem and mergeJSONObjects use it).
OthersUntouched ==
  [][\E name \in {Fold[k] : k \in Keys} :
       LET Others(d) == {i \in DOMAIN d : Fold[d[i].string] # name} IN
         /\ Others(doc') = Others(doc)
         /\ \A i \in Others(doc) : doc'[i] = doc[i]]_doc

\* As long as no two names are the same but for case, no call loses a name, not
\* even when it adds one that another differs from in case only (the exact search
\* of doesAttributeExist before the replacement that ignores case).
NoNameLost == [][Distinct(doc) => Names(doc) \subseteq Names(doc')]_doc

\* The names of the items among the first n that parse once they are printed.
CopiedNames(s, n) == {s[j].string : j \in {i \in 1..n : Readable(s[i])}}

\* Where no names of the target are the same but for case, and none of the source
\* are the same, a merge ends with every attribute of the source that parses once
\* it is printed, values included (an array or object as it prints), every other
\* one of the target in its place and as it was, and nothing else: an array or
\* object that does not parse is left out without a word (mergeJSONObjects).
MergeAgrees ==
  call = "merge" /\ item > Len(src)
    /\ Distinct(before) /\ Cardinality(Names(src)) = Len(src) =>
    LET copied == CopiedNames(src, Len(src)) IN
      /\ \A i \in DOMAIN src :
           Readable(src[i]) => Clone(src[i].string, src[i]) \in ToSet(doc)
      /\ \A i \in DOMAIN before : before[i].string \notin copied => doc[i] = before[i]
      /\ Len(doc) = Cardinality(Names(before) \cup copied)

\* mergeJSONObjects returns when every item of the source has a name, unless one that
\* does not parse back is to replace another: that ends the process.
MergeEnds ==
  call = "merge" /\ EMPTY \notin Names(src) ~>
    \/ call = "none"
    \/ ~alive /\ \E i \in DOMAIN src :
         ~Readable(src[i]) /\ DoesAttributeExist(doc, src[i].string)
===============================================================================
