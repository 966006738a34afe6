------------------------------- MODULE JsonMaps -------------------------------
(***************************************************************************)
(* The conversions of CNT_JSON between maps from strings or integers to    *)
(* doubles and JSON objects: MapToJSON_Str_Double, MapToJSON_Int_Double,   *)
(* JSONToMap_Str_Double, JSONToMap_Int_Double.  The way back merges into   *)
(* the map it is given, item by item; a key is written to a stringstream   *)
(* that all items share, and an integer is read from it again.             *)
(*                                                                         *)
(* An integer is represented by the text it prints as.                     *)
(***************************************************************************)
EXTENDS Integers, Sequences, SequencesExt

CONSTANTS
  Names,      \* the names of items
  NULL,       \* no name: an element of an array
  Keys,       \* for "str" and for "int": the keys of a map
  FAIL,       \* what an integer cannot be read from
  KeyOf,      \* for "str" and for "int": the key that a name is read as
  Place,      \* for "str" and for "int": where std::map puts a key
  Numbers,    \* values
  Documents   \* the objects and arrays that are converted

Kinds == {"str", "int"}

Types == {"False", "True", "NULL", "Number", "String", "Array", "Object"}

Item == [string : Names \cup {NULL}, type : Types, valuedouble : Numbers]

ASSUME KeysAssumption ==
  /\ NULL \notin Names /\ FAIL \notin Names
  /\ \A knd \in Kinds :
       /\ Keys[knd] \subseteq Names /\ IsFiniteSet(Keys[knd])
       /\ KeyOf[knd] \in [Names \cup {NULL} -> Keys[knd] \cup {FAIL}]
       /\ Place[knd] \in [Keys[knd] -> Int] /\ IsInjective(Place[knd])

\* A string is read as it is, and an integer that was printed is read again. From a
\* stream into which nothing was written a string can be read, and no integer.
ASSUME PrintAssumption ==
  /\ \A k \in Names : KeyOf["str"][k] = k
  /\ \A knd \in Kinds : \A k \in Keys[knd] : KeyOf[knd][k] = k
  /\ KeyOf["str"][NULL] # FAIL /\ KeyOf["int"][NULL] = FAIL

ASSUME DocumentsAssumption == Documents \subseteq Seq(Item)

VARIABLES
  kind,        \* of the map
  map_double,
  JSONObj,     \* the items of the object
  call,        \* "none", or "convert" in the loop of JSONToMap
  item,        \* its position; 0 before the loop
  ss,          \* its stream: "good", "eof" or "bad"
  result,      \* what the last JSONToMap returned, or "none"
  before       \* history: the map it was given

vars == <<kind, map_double, JSONObj, call, item, ss, result, before>>

NoMap == [k \in {} |-> 0]

Maps(knd) == UNION { [S -> Numbers] : S \in SUBSET Keys[knd] }

NumberItem(k, x) == [string |-> k, type |-> "Number", valuedouble |-> x]

\* The n-th key of a map.
UpTo(map, k) == {j \in DOMAIN map : Place[kind][j] <= Place[kind][k]}

KeyAt(map, n) == CHOOSE k \in DOMAIN map : Cardinality(UpTo(map, k)) = n

\* The object that MapToJSON makes.
ToJSON(map) ==
  [n \in 1..Cardinality(DOMAIN map) |-> NumberItem(KeyAt(map, n), map[KeyAt(map, n)])]

Init ==
  /\ kind \in Kinds /\ map_double \in Maps(kind) /\ JSONObj \in Documents
  /\ call = "none" /\ item = 0 /\ ss = "good"
  /\ result = "none" /\ before = map_double

(***************************************************************************)
(* The callers.                                                            *)
(***************************************************************************)
Idle == call = "none"

NewMap ==
  /\ Idle /\ map_double' = NoMap /\ result' = "none"
  /\ UNCHANGED <<kind, JSONObj, call, item, ss, before>>

MapToJSON ==
  /\ Idle /\ JSONObj' = ToJSON(map_double) /\ result' = "none" /\ item' = 0
  /\ UNCHANGED <<kind, map_double, call, ss, before>>

\* With a null pointer for the object or the map it returns before its loop.
JSONToMap ==
  /\ Idle /\ before' = map_double
  /\ \/ call' = "convert" /\ item' = 1 /\ ss' = "good" /\ result' = "none"
     \/ item' = 0 /\ result' = "false" /\ UNCHANGED <<call, ss>>
  /\ UNCHANGED <<kind, map_double, JSONObj>>

(***************************************************************************)
(* The loop of JSONToMap.                                                  *)
(***************************************************************************)
AtItem == call = "convert" /\ item <= Len(JSONObj)

Number(n) == JSONObj[n].type = "Number"

\* Mutants of SkipItem: the next item is not fetched, or fetched twice.
SkipItemStays == AtItem /\ ~Number(item) /\ UNCHANGED vars

SkipItemTwice ==
  /\ AtItem /\ ~Number(item) /\ item' = item + 2
  /\ UNCHANGED <<kind, map_double, JSONObj, call, ss, result, before>>

SkipItem ==
  /\ AtItem /\ ~Number(item) /\ item' = item + 1
  /\ UNCHANGED <<kind, map_double, JSONObj, call, ss, result, before>>

\* Mutant of Cleared: the stream is not cleared.
NotCleared == ss

\* ss.clear() and ss << string; a null pointer spoils the stream again.
Cleared == IF JSONObj[item].string = NULL THEN "bad" ELSE "good"

\* The key in the stream; the string can be taken out of any stream.
Key == IF kind = "int" /\ Cleared # "good" THEN FAIL ELSE KeyOf[kind][JSONObj[item].string]

\* Mutant of Insert: insert does not replace the value of a key that is there.
InsertOnly(map, k, x) ==
  [j \in DOMAIN map \cup {k} |-> IF j \in DOMAIN map THEN map[j] ELSE x]

Insert(map, k, x) == [j \in DOMAIN map \cup {k} |-> IF j = k THEN x ELSE map[j]]

\* Reading an integer leaves the stream at its end.
ConvertItem ==
  /\ AtItem /\ Number(item) /\ Key # FAIL
  /\ map_double' = Insert(map_double, Key, JSONObj[item].valuedouble)
  /\ ss' = IF kind = "int" THEN "eof" ELSE Cleared
  /\ item' = item + 1
  /\ UNCHANGED <<kind, JSONObj, call, result, before>>

\* Mutant of Return: it returns before the last item.
ReturnEarly ==
  /\ call = "convert" /\ item >= Len(JSONObj)
  /\ call' = "none" /\ result' = "true"
  /\ UNCHANGED <<kind, map_double, JSONObj, item, ss, before>>

Return ==
  /\ call = "convert" /\ item > Len(JSONObj)
  /\ call' = "none" /\ result' = "true"
  /\ UNCHANGED <<kind, map_double, JSONObj, item, ss, before>>

\* What was converted before the name that is no integer stays in the map.
ReturnFalse ==
  /\ AtItem /\ Number(item) /\ Key = FAIL
  /\ call' = "none" /\ result' = "false"
  /\ UNCHANGED <<kind, map_double, JSONObj, item, ss, before>>

Loop == SkipItem \/ ConvertItem \/ Return \/ ReturnFalse

Next == NewMap \/ MapToJSON \/ JSONToMap \/ Loop

Spec == Init /\ [][Next]_vars

\* A call goes on.
FairSpec == Spec /\ WF_vars(Loop)

(***************************************************************************)
(* Properties.                                                             *)
(***************************************************************************)
TypeOK ==
  /\ kind \in Kinds
  /\ map_double \in Maps(kind) /\ before \in Maps(kind)
  /\ JSONObj \in Seq(Item)
  /\ call \in {"none", "convert"} /\ item \in 0..(Len(JSONObj) + 1)
  /\ ss \in {"good", "eof", "bad"} /\ result \in {"none", "true", "false"}

\* The last JSONToMap was given an object and a map.
InLoop == item > 0

\* The numbers of the object that stand for key k, among the first n items.
For(k, n) == {i \in 1..n : Number(i) /\ KeyOf[kind][JSONObj[i].string] = k}

\* The map holds the last number of every key among the first n items, and what it
\* held before under every other key.
Merged(n) ==
  /\ DOMAIN map_double = DOMAIN before \cup {k \in Keys[kind] : For(k, n) # {}}
  /\ \A k \in DOMAIN map_double :
       IF For(k, n) = {} THEN map_double[k] = before[k]
       ELSE \E i \in For(k, n) :
              /\ \A j \in For(k, n) : j <= i
              /\ map_double[k] = JSONObj[i].valuedouble

\* A conversion that returns true has merged all numbers, of which the last one of a
\* key counts, and two names may be one integer. It returns false for a null pointer,
\* with the map as it was, and at the first number whose name is no integer, never for
\* another reason, and then exactly what comes before that is merged: the map is left
\* half done (JSONToMap_Str_Double, JSONToMap_Int_Double).
MergedUpToFailure ==
  CASE result = "true"  -> InLoop /\ Merged(Len(JSONObj))
    [] result = "false" /\ InLoop ->
         /\ kind = "int" /\ item \in For(FAIL, item)
         /\ For(FAIL, item - 1) = {} /\ Merged(item - 1)
    [] result = "false" /\ ~InLoop -> map_double = before
    [] OTHER -> TRUE

\* A map that is converted to JSON and back into an empty map is the same.
RoundTrip ==
  call = "none" /\ result # "none" /\ InLoop /\ before = NoMap =>
    \A map \in Maps(kind) : JSONObj = ToJSON(map) => result = "true" /\ map_double = map

\* Unlike a merge of two objects a conversion returns, whatever the names.
ConversionReturns == call = "convert" ~> call = "none"
===============================================================================
