---------------------------- MODULE JsonMapsProofs ----------------------------
(***************************************************************************)
(* Proofs about the conversions between maps and JSON objects: what a      *)
(* conversion has merged when it returns, whatever it returns, and that a  *)
(* map survives the way there and back.                                    *)
(***************************************************************************)
EXTENDS JsonMaps, FiniteSetTheorems, TLAPS

\* While a call is in its loop the items before the one it is at are merged; it has
\* not met a name that is no integer.
LoopInv ==
  call = "convert" =>
    /\ item \in 1..(Len(JSONObj) + 1) /\ result = "none"
    /\ Merged(item - 1)
    /\ kind = "int" => For(FAIL, item - 1) = {}

\* A call that fails in its loop does so at an item, and one that succeeds has been
\* in its loop.
FailInv ==
  /\ result = "false" /\ InLoop => item \in 1..Len(JSONObj)
  /\ result = "true" => InLoop

IndInv == TypeOK /\ LoopInv /\ FailInv /\ MergedUpToFailure

(***************************************************************************)
(* The keys of a map, in order.                                            *)
(***************************************************************************)
\* A map has finitely many keys, each of which has a place.
LEMMA KeysOfMap ==
  ASSUME NEW knd \in Kinds, NEW map \in Maps(knd)
  PROVE  /\ DOMAIN map \subseteq Keys[knd] /\ IsFiniteSet(DOMAIN map)
         /\ map \in [DOMAIN map -> Numbers]
         /\ \A j, k \in DOMAIN map : Place[knd][k] \in Int /\ (Place[knd][j] = Place[knd][k] => j = k)
<1>1. DOMAIN map \subseteq Keys[knd] /\ map \in [DOMAIN map -> Numbers]
  BY DEF Maps
<1>2. IsFiniteSet(DOMAIN map)
  BY <1>1, KeysAssumption, FS_Subset
<1>3. Place[knd] \in [Keys[knd] -> Int] /\ IsInjective(Place[knd])
  BY KeysAssumption
<1> QED
  BY <1>1, <1>2, <1>3 DEF IsInjective

\* The number of a key among the keys of a map.
Rank(map) == [k \in DOMAIN map |-> Cardinality(UpTo(map, k))]

LEMMA RankType ==
  ASSUME kind \in Kinds, NEW map \in Maps(kind), NEW k \in DOMAIN map
  PROVE  /\ UpTo(map, k) \subseteq DOMAIN map /\ k \in UpTo(map, k)
         /\ IsFiniteSet(UpTo(map, k))
         /\ Rank(map)[k] \in 1..Cardinality(DOMAIN map)
<1>1. UpTo(map, k) \subseteq DOMAIN map /\ k \in UpTo(map, k)
  BY KeysOfMap DEF UpTo
<1>2. IsFiniteSet(DOMAIN map) /\ Cardinality(DOMAIN map) \in Nat
  BY KeysOfMap, FS_CardinalityType
<1>3. /\ IsFiniteSet(UpTo(map, k)) /\ Cardinality(UpTo(map, k)) <= Cardinality(DOMAIN map)
      /\ Cardinality(UpTo(map, k)) \in Nat
  BY <1>1, <1>2, FS_Subset, FS_CardinalityType
<1>4. Cardinality(UpTo(map, k)) # 0
  BY <1>1, <1>3, FS_EmptySet
<1> QED
  BY <1>1, <1>2, <1>3, <1>4 DEF Rank

\* A key that comes later has a higher number.
LEMMA RankGrows ==
  ASSUME kind \in Kinds, NEW map \in Maps(kind), NEW j \in DOMAIN map, NEW k \in DOMAIN map,
         Place[kind][j] < Place[kind][k]
  PROVE  Rank(map)[j] # Rank(map)[k]
<1>1. UpTo(map, j) \subseteq UpTo(map, k) /\ k \notin UpTo(map, j)
  BY KeysOfMap DEF UpTo
<1>2. IsFiniteSet(UpTo(map, k)) /\ k \in UpTo(map, k)
  BY RankType
<1>3. Cardinality(UpTo(map, k)) # Cardinality(UpTo(map, j))
  BY <1>1, <1>2, FS_Subset
<1> QED
  BY <1>3 DEF Rank

\* Every number up to that of all keys has its key, and every key its number.
LEMMA KeysInOrder ==
  ASSUME kind \in Kinds, NEW map \in Maps(kind)
  PROVE  /\ Cardinality(DOMAIN map) \in Nat
         /\ \A n \in 1..Cardinality(DOMAIN map) : KeyAt(map, n) \in DOMAIN map
         /\ \A k \in DOMAIN map : \E n \in 1..Cardinality(DOMAIN map) : KeyAt(map, n) = k
<1> DEFINE S == DOMAIN map
           r == Rank(map)
           N == Cardinality(S)
<1>1. IsFiniteSet(S) /\ N \in Nat
  BY KeysOfMap, FS_CardinalityType
<1>2. r \in [S -> 1..N]
  BY RankType DEF Rank
<1>3. ASSUME NEW j \in S, NEW k \in S, r[j] = r[k] PROVE j = k
  <2>1. /\ Place[kind][j] \in Int /\ Place[kind][k] \in Int
        /\ Place[kind][j] = Place[kind][k] => j = k
    BY KeysOfMap
  <2>2. ~(Place[kind][j] < Place[kind][k]) /\ ~(Place[kind][k] < Place[kind][j])
    BY <1>3, RankGrows
  <2> QED
    BY <2>1, <2>2
<1>4. IsFiniteSet(1..N) /\ Cardinality(1..N) = N
  BY <1>1, FS_Interval
<1>5. \A n \in 1..N : \E k \in S : r[k] = n
  <2>1. r \in Injection(S, 1..N)
    BY <1>2, <1>3 DEF Injection, IsInjective
  <2>2. r \in Surjection(S, 1..N)
    BY <1>4, <2>1, FS_Injection
  <2> QED
    BY <2>2 DEF Surjection
<1>6. ASSUME NEW n \in 1..N, NEW k \in S, r[k] = n PROVE KeyAt(map, n) \in S /\ KeyAt(map, n) = k
  <2>1. \A j \in S : r[j] = Cardinality(UpTo(map, j))
    BY DEF Rank
  <2>2. KeyAt(map, n) \in S /\ Cardinality(UpTo(map, KeyAt(map, n))) = n
    BY <1>6, <2>1 DEF KeyAt
  <2> QED
    BY <1>3, <1>6, <2>1, <2>2
<1> QED
  BY <1>1, <1>2, <1>5, <1>6

\* The object of a map is a list of numbers.
LEMMA ObjectOfMap ==
  ASSUME kind \in Kinds, NEW map \in Maps(kind)
  PROVE  /\ ToJSON(map) \in Seq(Item) /\ Len(ToJSON(map)) = Cardinality(DOMAIN map)
         /\ \A n \in 1..Cardinality(DOMAIN map) :
              ToJSON(map)[n] = NumberItem(KeyAt(map, n), map[KeyAt(map, n)])
<1> DEFINE N == Cardinality(DOMAIN map)
<1>1. N \in Nat /\ \A n \in 1..N : KeyAt(map, n) \in DOMAIN map
  BY KeysInOrder
<1>2. DOMAIN map \subseteq Names /\ map \in [DOMAIN map -> Numbers]
  BY KeysOfMap, KeysAssumption
<1>3. \A n \in 1..N : NumberItem(KeyAt(map, n), map[KeyAt(map, n)]) \in Item
  BY <1>1, <1>2 DEF NumberItem, Item, Types
<1>4. ToJSON(map) = [n \in 1..N |-> NumberItem(KeyAt(map, n), map[KeyAt(map, n)])]
  BY DEF ToJSON
<1> HIDE DEF N
<1>5. ToJSON(map) \in [1..N -> Item]
  BY <1>3, <1>4
<1> QED
  BY <1>1, <1>4, <1>5 DEF N

(***************************************************************************)
(* The way there.                                                          *)
(***************************************************************************)
\* Maps are changed key by key.
LEMMA InsertType ==
  ASSUME NEW knd \in Kinds, NEW map \in Maps(knd), NEW k \in Keys[knd], NEW x \in Numbers
  PROVE  Insert(map, k, x) \in Maps(knd)
<1>1. DOMAIN map \cup {k} \in SUBSET Keys[knd] /\ map \in [DOMAIN map -> Numbers]
  BY KeysOfMap
<1>2. Insert(map, k, x) \in [DOMAIN map \cup {k} -> Numbers]
  BY <1>1 DEF Insert
<1> QED
  BY <1>1, <1>2 DEF Maps

\* An item that there is.
LEMMA ItemType ==
  ASSUME TypeOK, NEW n \in 1..Len(JSONObj)
  PROVE  JSONObj[n].string \in Names \cup {NULL} /\ JSONObj[n].valuedouble \in Numbers
<1>1. JSONObj \in Seq(Item)
  BY DEF TypeOK
<1>2. JSONObj[n] \in Item
  BY <1>1
<1> QED
  BY <1>2 DEF Item

\* The key that is read is the one that the properties speak of.
LEMMA KeyIsRead ==
  ASSUME TypeOK, AtItem
  PROVE  /\ item \in 1..Len(JSONObj) => Key = KeyOf[kind][JSONObj[item].string]
         /\ item \in 1..Len(JSONObj) => Key \in Keys[kind] \cup {FAIL}
         /\ item \in 1..Len(JSONObj) /\ kind = "str" => Key # FAIL
         /\ FAIL \notin Keys[kind]
<1>1. FAIL \notin Keys[kind]
  BY KeysAssumption DEF TypeOK
<1>2. SUFFICES ASSUME item \in 1..Len(JSONObj)
               PROVE  /\ Key = KeyOf[kind][JSONObj[item].string]
                      /\ Key \in Keys[kind] \cup {FAIL}
                      /\ kind = "str" => Key # FAIL
  BY <1>1
<1>3. JSONObj[item].string \in Names \cup {NULL}
  BY <1>2, ItemType
<1>4. Key = KeyOf[kind][JSONObj[item].string]
  BY PrintAssumption DEF Key, Cleared
<1>5. KeyOf[kind][JSONObj[item].string] \in Keys[kind] \cup {FAIL}
  BY <1>3, KeysAssumption DEF TypeOK
<1>6. ASSUME kind = "str" PROVE KeyOf[kind][JSONObj[item].string] # FAIL
  BY <1>3, <1>6, KeysAssumption, PrintAssumption
<1> QED
  BY <1>4, <1>5, <1>6

\* One item more: it counts for its own key.
LEMMA ForNext ==
  ASSUME NEW k, NEW n \in Nat
  PROVE  For(k, n + 1) = IF Number(n + 1) /\ KeyOf[kind][JSONObj[n + 1].string] = k
                         THEN For(k, n) \cup {n + 1} ELSE For(k, n)
<1>1. 1..(n + 1) = (1..n) \cup {n + 1}
  OBVIOUS
<1> QED
  BY <1>1 DEF For

\* Nothing is merged by an item that is no number.
LEMMA MergedSkip ==
  ASSUME NEW n \in Nat, Merged(n), ~Number(n + 1)
  PROVE  Merged(n + 1)
<1>1. \A k : For(k, n + 1) = For(k, n)
  BY ForNext
<1> QED
  BY <1>1 DEF Merged

\* For and Merged of the data at hand, which a step may leave as it is.
ForIn(obj, knd, k, n) == {i \in 1..n : obj[i].type = "Number" /\ KeyOf[knd][obj[i].string] = k}

MergedIn(map, bef, obj, knd, n) ==
  /\ DOMAIN map = DOMAIN bef \cup {k \in Keys[knd] : ForIn(obj, knd, k, n) # {}}
  /\ \A k \in DOMAIN map :
       IF ForIn(obj, knd, k, n) = {} THEN map[k] = bef[k]
       ELSE \E i \in ForIn(obj, knd, k, n) :
              /\ \A j \in ForIn(obj, knd, k, n) : j <= i
              /\ map[k] = obj[i].valuedouble

SameData == map_double' = map_double /\ JSONObj' = JSONObj /\ kind' = kind /\ before' = before

LEMMA DataFrame ==
  ASSUME SameData, NEW n, n = item' - 1
  PROVE  /\ Merged(item - 1)' <=> Merged(n)
         /\ For(FAIL, item - 1)' = For(FAIL, n)
<1>1. Merged(n) <=> MergedIn(map_double, before, JSONObj, kind, n)
  BY DEF Merged, MergedIn, For, ForIn, Number
<1>2. Merged(item - 1)' <=> MergedIn(map_double', before', JSONObj', kind', item' - 1)
  BY DEF Merged, MergedIn, For, ForIn, Number
<1>3. For(FAIL, n) = ForIn(JSONObj, kind, FAIL, n)
  BY DEF For, ForIn, Number
<1>4. For(FAIL, item - 1)' = ForIn(JSONObj', kind', FAIL, item' - 1)
  BY DEF For, ForIn, Number
<1> QED
  BY <1>1, <1>2, <1>3, <1>4 DEF SameData

\* The object, the kind and what was given never change in the loop.
LEMMA ForFrame ==
  ASSUME JSONObj' = JSONObj, kind' = kind
  PROVE  \A k, n : For(k, n)' = For(k, n)
BY DEF For, Number

\* A number that is converted is merged, and takes the place of an earlier one.
LEMMA MergedNumber ==
  ASSUME TypeOK, item \in 1..Len(JSONObj), Merged(item - 1), ConvertItem
  PROVE  Merged(item - 1)' /\ map_double' \in Maps(kind)
<1> DEFINE n == item - 1
<1>0. PICK key, num : key = Key /\ num = JSONObj[item].valuedouble
  OBVIOUS
<1>1. kind \in Kinds /\ map_double \in Maps(kind) /\ n \in Nat /\ n + 1 = item
  BY DEF TypeOK
<1>2. key \in Keys[kind] /\ key = KeyOf[kind][JSONObj[item].string] /\ Number(item)
  BY <1>0, KeyIsRead DEF ConvertItem
<1>3. num \in Numbers
  BY <1>0, ItemType
<1>4. map_double' = Insert(map_double, key, num) /\ JSONObj' = JSONObj /\ kind' = kind /\ before' = before
  BY <1>0 DEF ConvertItem
<1>5. For(key, item) = For(key, n) \cup {item}
  BY <1>1, <1>2, ForNext
<1>6. ASSUME NEW k, k # key PROVE For(k, item) = For(k, n)
  BY <1>1, <1>2, <1>6, ForNext
<1>7. \A k, m : For(k, m)' = For(k, m)
  BY <1>4, ForFrame
<1>8. /\ map_double' \in Maps(kind) /\ DOMAIN map_double' = DOMAIN map_double \cup {key}
      /\ map_double'[key] = num
      /\ \A k \in DOMAIN map_double \ {key} : map_double'[k] = map_double[k]
  <2>1. map_double' \in Maps(kind)
    BY <1>1, <1>2, <1>3, <1>4, InsertType
  <2>2. map_double' = [j \in DOMAIN map_double \cup {key} |-> IF j = key THEN num ELSE map_double[j]]
    BY <1>4 DEF Insert
  <2> QED
    BY <2>1, <2>2
<1>9. DOMAIN map_double' = DOMAIN before \cup {k \in Keys[kind] : For(k, item) # {}}
  <2>1. DOMAIN map_double = DOMAIN before \cup {k \in Keys[kind] : For(k, n) # {}}
    BY DEF Merged
  <2> QED
    BY <1>2, <1>5, <1>6, <1>8, <2>1
<1>10. ASSUME NEW k \in DOMAIN map_double'
       PROVE  IF For(k, item) = {} THEN map_double'[k] = before[k]
              ELSE \E i \in For(k, item) : /\ \A j \in For(k, item) : j <= i
                                           /\ map_double'[k] = JSONObj[i].valuedouble
  <2>1. CASE k = key
    <3>1. \A j \in For(k, item) : j <= item
      BY <1>1 DEF For
    <3> QED
      BY <1>0, <1>5, <1>8, <2>1, <3>1
  <2>2. CASE k # key
    <3>1. k \in DOMAIN map_double /\ map_double'[k] = map_double[k] /\ For(k, item) = For(k, n)
      BY <1>6, <1>8, <2>2
    <3>2. IF For(k, n) = {} THEN map_double[k] = before[k]
          ELSE \E i \in For(k, n) : /\ \A j \in For(k, n) : j <= i
                                    /\ map_double[k] = JSONObj[i].valuedouble
      BY <3>1 DEF Merged
    <3> QED
      BY <3>1, <3>2
  <2> QED
    BY <2>1, <2>2
<1>11. item' - 1 = item
  BY <1>1 DEF ConvertItem
<1> QED
  BY <1>4, <1>7, <1>8, <1>9, <1>10, <1>11 DEF Merged

(***************************************************************************)
(* Every step.                                                             *)
(***************************************************************************)
LEMMA InitInv == Init => IndInv
<1> SUFFICES ASSUME Init PROVE IndInv
  OBVIOUS
<1>1. JSONObj \in Seq(Item)
  BY DocumentsAssumption DEF Init
<1>2. TypeOK
  BY <1>1 DEF Init, TypeOK
<1> QED
  BY <1>2 DEF Init, IndInv, LoopInv, FailInv, InLoop, MergedUpToFailure

\* A caller's step leaves no result behind.
LEMMA CallerStep ==
  ASSUME IndInv, NewMap \/ MapToJSON \/ JSONToMap
  PROVE  IndInv'
<1>1. TypeOK
  BY DEF IndInv
<1>2. NoMap \in Maps(kind)
  BY DEF NoMap, Maps
<1>3. ToJSON(map_double) \in Seq(Item)
  BY <1>1, ObjectOfMap DEF TypeOK
<1>4. CASE NewMap
  BY <1>1, <1>2, <1>4 DEF NewMap, Idle, IndInv, TypeOK, LoopInv, FailInv, InLoop, MergedUpToFailure
<1>5. CASE MapToJSON
  <2>1. Len(ToJSON(map_double)) \in Nat
    BY <1>3
  <2> QED
    BY <1>1, <1>3, <1>5, <2>1 DEF MapToJSON, Idle, IndInv, TypeOK, LoopInv, FailInv, InLoop, MergedUpToFailure
<1>7. CASE JSONToMap /\ call' = call
  BY <1>1, <1>7 DEF JSONToMap, Idle, IndInv, TypeOK, LoopInv, FailInv, InLoop, MergedUpToFailure
<1>6. CASE JSONToMap /\ call' = "convert" /\ item' = 1 /\ ss' = "good" /\ result' = "none"
  <2>1. TypeOK'
    <3>1. Len(JSONObj) \in Nat
      BY <1>1 DEF TypeOK
    <3> QED
      BY <1>1, <1>6, <3>1 DEF JSONToMap, TypeOK
  <2>2. \A k : For(k, 0)' = {}
    BY DEF For
  <2>3. Merged(item - 1)'
    <3>1. item' - 1 = 0 /\ map_double' = before'
      BY <1>6 DEF JSONToMap
    <3> QED
      BY <2>2, <3>1 DEF Merged
  <2>4. For(FAIL, item - 1)' = {}
    <3>1. item' - 1 = 0
      BY <1>6 DEF JSONToMap
    <3> QED
      BY <3>1 DEF For
  <2>5. item' \in 1..(Len(JSONObj') + 1) /\ result' = "none" /\ call' = "convert"
    <3>1. Len(JSONObj) \in Nat
      BY <1>1 DEF TypeOK
    <3> QED
      BY <1>6, <3>1 DEF JSONToMap
  <2> QED
    BY <2>1, <2>3, <2>4, <2>5 DEF IndInv, LoopInv, FailInv, InLoop, MergedUpToFailure
<1> QED
  BY <1>4, <1>5, <1>6, <1>7 DEF JSONToMap

\* The loop goes on.
LEMMA SkipStep ==
  ASSUME IndInv, SkipItem
  PROVE  IndInv'
<1>1. TypeOK /\ Len(JSONObj) \in Nat /\ item \in 1..Len(JSONObj) /\ Merged(item - 1)
      /\ result = "none" /\ (kind = "int" => For(FAIL, item - 1) = {}) /\ ~Number(item)
  BY DEF IndInv, LoopInv, SkipItem, AtItem, TypeOK
<1>2. item - 1 \in Nat /\ (item - 1) + 1 = item /\ item' - 1 = item
  BY <1>1 DEF SkipItem
<1>3. SameData /\ call' = "convert" /\ result' = "none" /\ item' \in 1..(Len(JSONObj') + 1)
  BY <1>1 DEF SkipItem, AtItem, SameData
<1>4. TypeOK'
  BY <1>1, <1>3 DEF SkipItem, TypeOK
<1>5. Merged(item)
  BY <1>1, <1>2, MergedSkip
<1>6. For(FAIL, item) = For(FAIL, item - 1)
  <2>1. For(FAIL, (item - 1) + 1) = For(FAIL, item - 1)
    BY <1>1, <1>2, ForNext
  <2> QED
    BY <1>2, <2>1
<1>7. Merged(item - 1)' /\ (kind' = "int" => For(FAIL, item - 1)' = {})
  <2>1. (Merged(item - 1)' <=> Merged(item)) /\ For(FAIL, item - 1)' = For(FAIL, item)
    BY <1>2, <1>3, DataFrame
  <2> QED
    BY <1>1, <1>3, <1>5, <1>6, <2>1 DEF SameData
<1> QED
  BY <1>3, <1>4, <1>7 DEF IndInv, LoopInv, FailInv, InLoop, MergedUpToFailure

LEMMA ConvertStep ==
  ASSUME IndInv, ConvertItem
  PROVE  IndInv'
<1>1. TypeOK /\ Len(JSONObj) \in Nat /\ item \in 1..Len(JSONObj) /\ Merged(item - 1)
      /\ result = "none" /\ (kind = "int" => For(FAIL, item - 1) = {}) /\ Key # FAIL
  BY DEF IndInv, LoopInv, ConvertItem, AtItem, TypeOK
<1>2. item - 1 \in Nat /\ (item - 1) + 1 = item /\ item' - 1 = item
  BY <1>1 DEF ConvertItem
<1>3. Merged(item - 1)' /\ map_double' \in Maps(kind)
  BY <1>1, MergedNumber
<1>4. call' = "convert" /\ result' = "none" /\ item' \in 1..(Len(JSONObj') + 1)
  BY <1>1 DEF ConvertItem, AtItem
<1>5. TypeOK'
  <2>1. ss' \in {"good", "eof", "bad"}
    BY DEF ConvertItem, Cleared
  <2> QED
    BY <1>1, <1>3, <1>4, <2>1 DEF ConvertItem, TypeOK
<1>6. For(FAIL, item) = For(FAIL, item - 1)
  <2>1. KeyOf[kind][JSONObj[item].string] # FAIL
    BY <1>1, KeyIsRead DEF ConvertItem
  <2> QED
    BY <1>2, <2>1, ForNext, ZenonT(60)
<1>7. kind' = "int" => For(FAIL, item - 1)' = {}
  BY <1>1, <1>2, <1>6 DEF ConvertItem, For, Number
<1> QED
  BY <1>3, <1>4, <1>5, <1>7 DEF IndInv, LoopInv, FailInv, InLoop, MergedUpToFailure

\* The call returns.
LEMMA ReturnStep ==
  ASSUME IndInv, Return \/ ReturnFalse
  PROVE  IndInv'
<1>1. TypeOK /\ Len(JSONObj) \in Nat /\ item \in 1..(Len(JSONObj) + 1) /\ Merged(item - 1)
      /\ (kind = "int" => For(FAIL, item - 1) = {})
  BY DEF IndInv, LoopInv, Return, ReturnFalse, AtItem, TypeOK
<1>2. TypeOK' /\ call' = "none" /\ SameData /\ item' = item
  BY <1>1 DEF Return, ReturnFalse, TypeOK, SameData
<1>3. (Merged(item - 1)' <=> Merged(item - 1)) /\ For(FAIL, item - 1)' = For(FAIL, item - 1)
  BY <1>2, DataFrame
<1>4. CASE Return
  <2>1. item - 1 = Len(JSONObj) /\ result' = "true"
    BY <1>1, <1>4 DEF Return
  <2>2. Merged(Len(JSONObj))'
    <3>1. Merged(Len(JSONObj))' <=> MergedIn(map_double', before', JSONObj', kind', Len(JSONObj'))
      BY DEF Merged, MergedIn, For, ForIn, Number
    <3>2. Merged(item - 1) <=> MergedIn(map_double, before, JSONObj, kind, item - 1)
      BY DEF Merged, MergedIn, For, ForIn, Number
    <3> QED
      BY <1>1, <1>2, <2>1, <3>1, <3>2 DEF SameData
  <2>3. InLoop'
    BY <1>1, <1>2 DEF InLoop
  <2> QED
    BY <1>2, <2>1, <2>2, <2>3 DEF IndInv, LoopInv, FailInv, MergedUpToFailure
<1>5. CASE ReturnFalse
  <2>1. item \in 1..Len(JSONObj) /\ Number(item) /\ Key = FAIL /\ result' = "false"
    BY <1>1, <1>5 DEF ReturnFalse, AtItem
  <2>2. kind = "int" /\ KeyOf[kind][JSONObj[item].string] = FAIL
    BY <1>1, <1>5, <2>1, KeyIsRead DEF ReturnFalse, TypeOK, Kinds
  <2>3. item \in For(FAIL, item) /\ For(FAIL, item - 1) = {} /\ Merged(item - 1)
    BY <1>1, <2>1, <2>2 DEF For
  <2>4. kind' = "int" /\ For(FAIL, item - 1)' = {} /\ Merged(item - 1)'
    BY <1>2, <1>3, <2>2, <2>3 DEF SameData
  <2>5. (item \in For(FAIL, item))' /\ item' \in 1..Len(JSONObj')
    BY <1>2, <2>1, <2>3 DEF SameData, For, Number
  <2> QED
    BY <1>2, <2>1, <2>4, <2>5 DEF IndInv, LoopInv, FailInv, InLoop, MergedUpToFailure
<1> QED
  BY <1>4, <1>5

LEMMA StepInv == IndInv /\ [Next]_vars => IndInv'
<1>1. ASSUME IndInv, Next PROVE IndInv'
  BY <1>1, CallerStep, SkipStep, ConvertStep, ReturnStep DEF Next, Loop
<1>2. ASSUME IndInv, UNCHANGED vars PROVE IndInv'
  <2>1. SameData /\ UNCHANGED <<kind, map_double, JSONObj, call, item, ss, result, before>>
    BY <1>2 DEF vars, SameData
  <2>2. TypeOK'
    BY <1>2, <2>1 DEF IndInv, TypeOK
  <2>3. LoopInv' /\ FailInv' /\ MergedUpToFailure'
    BY <1>2, <2>1 DEF IndInv, LoopInv, FailInv, InLoop, MergedUpToFailure, Merged, For, Number
  <2> QED
    BY <2>2, <2>3 DEF IndInv
<1> QED
  BY <1>1, <1>2

\* The invariant that the proofs are about holds in every state of every run.
THEOREM Invariance == Spec => []IndInv
<1> QED
  BY InitInv, StepInv, PTL DEF Spec

\* Every variable keeps its type; the object that MapToJSON makes is a list of items
\* whatever the map (MapToJSON_Str_Double, MapToJSON_Int_Double).
THEOREM TypeCorrectness == Spec => []TypeOK
<1>1. IndInv => TypeOK
  BY DEF IndInv
<1> QED
  BY <1>1, Invariance, PTL

\* A conversion that returns true has merged every number of the object, the last one
\* of a key; one that returns false has merged exactly what comes before the first
\* name that is no integer (JSONToMap_Str_Double, JSONToMap_Int_Double).
THEOREM ConversionMerges == Spec => []MergedUpToFailure
<1>1. IndInv => MergedUpToFailure
  BY DEF IndInv
<1> QED
  BY <1>1, Invariance, PTL

(***************************************************************************)
(* There and back.                                                         *)
(***************************************************************************)
\* In the object of a map the numbers that stand for a key are its own.
LEMMA ForOfMap ==
  ASSUME kind \in Kinds, NEW map \in Maps(kind), JSONObj = ToJSON(map), NEW k,
         NEW n \in 0..Len(JSONObj)
  PROVE  For(k, n) = {i \in 1..n : KeyAt(map, i) = k}
<1>1. \A i \in 1..n : i \in 1..Cardinality(DOMAIN map)
  BY ObjectOfMap, KeysInOrder
<1>2. ASSUME NEW i \in 1..n
      PROVE  Number(i) /\ JSONObj[i].string = KeyAt(map, i) /\ KeyOf[kind][KeyAt(map, i)] = KeyAt(map, i)
  <2>1. JSONObj[i] = NumberItem(KeyAt(map, i), map[KeyAt(map, i)]) /\ KeyAt(map, i) \in DOMAIN map
    BY <1>1, ObjectOfMap, KeysInOrder
  <2>2. KeyAt(map, i) \in Keys[kind]
    BY <2>1, KeysOfMap
  <2> QED
    BY <2>1, <2>2, PrintAssumption DEF Number, NumberItem
<1> QED
  BY <1>2 DEF For

\* A map that is converted to an object and back into an empty map is the same, for
\* maps of any size (MapToJSON_Str_Double, MapToJSON_Int_Double,
\* JSONToMap_Str_Double, JSONToMap_Int_Double).
THEOREM ThereAndBack == Spec => []RoundTrip
<1>1. ASSUME IndInv, call = "none", result # "none", InLoop, before = NoMap,
             NEW map \in Maps(kind), JSONObj = ToJSON(map)
      PROVE  result = "true" /\ map_double = map
  <2> DEFINE N == Cardinality(DOMAIN map)
  <2>1. kind \in Kinds /\ N \in Nat /\ Len(JSONObj) = N
    BY <1>1, ObjectOfMap, KeysInOrder DEF IndInv, TypeOK
  <2>2. DOMAIN map \subseteq Keys[kind] /\ FAIL \notin Keys[kind] /\ map \in [DOMAIN map -> Numbers]
    BY <2>1, KeysOfMap, KeysAssumption
  <2>3. \A k : For(k, N) = {i \in 1..N : KeyAt(map, i) = k}
    BY <1>1, <2>1, ForOfMap
  <2>4. \A i \in 1..N : KeyAt(map, i) \in DOMAIN map /\ JSONObj[i].valuedouble = map[KeyAt(map, i)]
    <3>1. \A i \in 1..N : KeyAt(map, i) \in DOMAIN map
      BY <2>1, KeysInOrder
    <3>2. \A i \in 1..N : JSONObj[i] = NumberItem(KeyAt(map, i), map[KeyAt(map, i)])
      BY <1>1, <2>1, ObjectOfMap
    <3>3. \A k, d : NumberItem(k, d).valuedouble = d
      BY DEF NumberItem
    <3> HIDE DEF N
    <3> QED
      BY <3>1, <3>2, <3>3
  <2>5. result = "true"
    <3>1. SUFFICES ASSUME result = "false" PROVE FALSE
      BY <1>1 DEF IndInv, TypeOK
    <3>2. item \in For(FAIL, item) /\ item \in 1..Len(JSONObj)
      BY <1>1, <3>1 DEF IndInv, MergedUpToFailure, FailInv
    <3>3. For(FAIL, item) = {i \in 1..item : KeyAt(map, i) = FAIL}
      BY <1>1, <2>1, <3>2, ForOfMap
    <3>4. KeyAt(map, item) = FAIL
      BY <3>2, <3>3
    <3> QED
      BY <2>1, <2>2, <2>4, <3>2, <3>4
  <2>6. Merged(N)
    BY <1>1, <2>1, <2>5 DEF IndInv, MergedUpToFailure
  <2>7. DOMAIN map_double = DOMAIN map
    <3>1. DOMAIN before = {}
      BY <1>1 DEF NoMap
    <3>2. \A k \in DOMAIN map : For(k, N) # {}
      BY <1>1, <2>1, <2>3, KeysInOrder
    <3>3. \A k : For(k, N) # {} => k \in DOMAIN map
      BY <2>3, <2>4
    <3> QED
      BY <2>2, <2>6, <3>1, <3>2, <3>3 DEF Merged
  <2>8. ASSUME NEW k \in DOMAIN map PROVE map_double[k] = map[k]
    <3>1. For(k, N) # {}
      BY <1>1, <2>1, <2>3, KeysInOrder
    <3>2. PICK i \in For(k, N) : map_double[k] = JSONObj[i].valuedouble
      BY <2>6, <2>7, <3>1 DEF Merged
    <3> QED
      BY <2>3, <2>4, <3>2
  <2>9. map_double \in [DOMAIN map_double -> Numbers]
    BY <1>1, <2>1, KeysOfMap DEF IndInv, TypeOK
  <2> QED
    BY <2>2, <2>5, <2>7, <2>8, <2>9
<1>2. IndInv => RoundTrip
  BY <1>1 DEF RoundTrip
<1> QED
  BY <1>2, Invariance, PTL
===============================================================================
