------------------------- MODULE JsonAttributesProofs -------------------------
(***************************************************************************)
(* Proofs about the attribute calls: what a getter returns after a setter, *)
(* what a call leaves alone, and what a merge ends with, for objects of    *)
(* any size and any names.                                                 *)
(***************************************************************************)
EXTENDS JsonAttributes, ListLemmas, FiniteSetTheorems

(***************************************************************************)
(* Searches.                                                               *)
(***************************************************************************)
Folded(d, k) == {i \in 1..Len(d) : Fold[d[i].string] = Fold[k]}

Exact(d, k, types) == {i \in 1..Len(d) : d[i].string = k /\ d[i].type \in types}

\* i is the least number of S, or 0.
IsFirst(S, i) == IF S = {} THEN i = 0 ELSE i \in S /\ \A j \in S : i <= j

LEMMA MinIsFirst ==
  ASSUME NEW S, S \subseteq Nat
  PROVE  IsFirst(S, IF S # {} THEN Min(S) ELSE 0)
<1>1. ASSUME S # {} PROVE Min(S) \in S /\ \A j \in S : Min(S) <= j
  <2>1. \E m \in S : \A j \in S : m <= j
    BY <1>1, Least
  <2> QED
    BY <2>1 DEF Min
<1> QED
  BY <1>1 DEF IsFirst

\* cJSON finds the first item whose name is the one asked for, in any case.
LEMMA FoldedFirst ==
  ASSUME NEW d \in Seq(Item), NEW k
  PROVE  IsFirst(Folded(d, k), GetObjectItem(d, k))
<1>1. Folded(d, k) \subseteq Nat
  BY DEF Folded
<1>2. GetObjectItem(d, k) = IF Folded(d, k) # {} THEN Min(Folded(d, k)) ELSE 0
  BY DEF GetObjectItem, SelectInSeq, Folded
<1> QED
  BY <1>1, <1>2, MinIsFirst

\* The library finds the first item with the name and one of the types.
LEMMA ExactFirst ==
  ASSUME NEW d \in Seq(Item), NEW k, NEW types
  PROVE  IsFirst(Exact(d, k, types), Find(d, k, types))
<1>1. Exact(d, k, types) \subseteq Nat
  BY DEF Exact
<1>2. Find(d, k, types) = IF Exact(d, k, types) # {} THEN Min(Exact(d, k, types)) ELSE 0
  BY DEF Find, SelectInSeq, Exact
<1> QED
  BY <1>1, <1>2, MinIsFirst

\* There is only one first.
LEMMA OneFirst ==
  ASSUME NEW S, S \subseteq Nat \ {0}, NEW i, NEW j, IsFirst(S, i), IsFirst(S, j)
  PROVE  i = j
<1>1. CASE S = {}
  BY <1>1 DEF IsFirst
<1>2. CASE S # {}
  <2>1. i \in S /\ j \in S /\ i <= j /\ j <= i
    BY <1>2 DEF IsFirst
  <2> QED
    BY <2>1
<1> QED
  BY <1>1, <1>2

\* What is at position i, and nothing before it, is what is found.
LEMMA FoundAt ==
  ASSUME NEW d \in Seq(Item), NEW k, NEW types, NEW i \in 1..Len(d),
         d[i].string = k, d[i].type \in types,
         \A j \in 1..(i - 1) : ~(d[j].string = k /\ d[j].type \in types)
  PROVE  Find(d, k, types) = i
<1>1. Exact(d, k, types) \subseteq Nat \ {0}
  BY DEF Exact
<1>2. IsFirst(Exact(d, k, types), i)
  <2>1. i \in Exact(d, k, types)
    BY DEF Exact
  <2>2. ASSUME NEW j \in Exact(d, k, types) PROVE i <= j
    <3>1. j \in Nat /\ j >= 1 /\ ~(j \in 1..(i - 1))
      BY <2>2 DEF Exact
    <3> QED
      BY <3>1
  <2> QED
    BY <2>1, <2>2 DEF IsFirst
<1> QED
  BY <1>1, <1>2, ExactFirst, OneFirst

\* What a search finds.
LEMMA FindType ==
  ASSUME NEW d \in Seq(Item), NEW k, NEW types
  PROVE  /\ Find(d, k, types) \in 0..Len(d)
         /\ Find(d, k, types) = 0 => \A i \in 1..Len(d) : ~(d[i].string = k /\ d[i].type \in types)
         /\ Find(d, k, types) # 0 => /\ Find(d, k, types) \in 1..Len(d)
                                     /\ d[Find(d, k, types)].string = k
                                     /\ d[Find(d, k, types)].type \in types
         /\ \A i \in 1..(Find(d, k, types) - 1) : ~(d[i].string = k /\ d[i].type \in types)
<1> DEFINE n == Find(d, k, types)
<1>1. IsFirst(Exact(d, k, types), n) /\ Len(d) \in Nat
  BY ExactFirst
<1> HIDE DEF n
<1> QED
  BY <1>1 DEF IsFirst, Exact, n

LEMMA ObjectItemType ==
  ASSUME NEW d \in Seq(Item), NEW k
  PROVE  /\ GetObjectItem(d, k) \in 0..Len(d)
         /\ GetObjectItem(d, k) = 0 => \A i \in 1..Len(d) : Fold[d[i].string] # Fold[k]
         /\ GetObjectItem(d, k) # 0 => /\ GetObjectItem(d, k) \in 1..Len(d)
                                       /\ Fold[d[GetObjectItem(d, k)].string] = Fold[k]
         /\ \A i \in 1..(GetObjectItem(d, k) - 1) : Fold[d[i].string] # Fold[k]
<1> DEFINE n == GetObjectItem(d, k)
<1>1. IsFirst(Folded(d, k), n) /\ Len(d) \in Nat
  BY FoldedFirst
<1> HIDE DEF n
<1> QED
  BY <1>1 DEF IsFirst, Folded, n

(***************************************************************************)
(* Items.                                                                  *)
(***************************************************************************)
LEMMA NumbersType ==
  /\ \A v \in Ints : 2 * v \in Doubles /\ ToInt(2 * v) = v
  /\ \A x \in Doubles : x \in Nat /\ ToInt(x) \in Ints \cup {INT_MIN}
  /\ \A x \in Doubles : x \div 2 \in Ints => ToInt(x) = x \div 2
BY NumberAssumption DEF Ints, ToInt

LEMMA ZeroType == 0 \in Ints /\ 0 \in Doubles
<1>1. 0 \in Ints
  BY NumberAssumption DEF Ints
<1> QED
  BY <1>1, NumberAssumption

\* An item, field by field.
LEMMA ItemFields ==
  ASSUME NEW k \in Keys, NEW type \in Types, NEW v \in Ints \cup {INT_MIN},
         NEW x \in Doubles, NEW t \in Lengths \cup Contents \cup {0}, NEW r \in Lengths \cup {0},
         type = "String" => t \in Lengths, type = "Composite" => t \in Contents
  PROVE  [string |-> k, type |-> type, valueint |-> v, valuedouble |-> x,
          text |-> t, room |-> r] \in Item
BY DEF Item

LEMMA NumberItemType ==
  ASSUME NEW k \in Keys, NEW x \in Doubles
  PROVE  /\ NumberItem(k, x) \in Item
         /\ NumberItem(k, x).string = k /\ NumberItem(k, x).type = "Number"
         /\ NumberItem(k, x).valueint = ToInt(x) /\ NumberItem(k, x).valuedouble = x
<1>1. NumberItem(k, x) = [string |-> k, type |-> "Number", valueint |-> ToInt(x),
                          valuedouble |-> x, text |-> 0, room |-> 0]
  <2> DEFINE blank == Blank(k, "Number")
             half == [blank EXCEPT !.valueint = ToInt(x)]
  <2>1. NumberItem(k, x) = [half EXCEPT !.valuedouble = x]
    BY DEF NumberItem
  <2>2. blank = [string |-> k, type |-> "Number", valueint |-> 0, valuedouble |-> 0,
                 text |-> 0, room |-> 0]
    BY DEF Blank
  <2> HIDE DEF blank
  <2>3. half = [string |-> k, type |-> "Number", valueint |-> ToInt(x), valuedouble |-> 0,
                text |-> 0, room |-> 0]
    BY <2>2
  <2> HIDE DEF half
  <2> QED
    BY <2>1, <2>3
<1>2. "Number" \in Types /\ ToInt(x) \in Ints \cup {INT_MIN}
  BY NumbersType DEF Types
<1>3. NumberItem(k, x) \in Item
  BY <1>1, <1>2, ItemFields
<1> QED
  BY <1>1, <1>3

LEMMA StringItemType ==
  ASSUME NEW k \in Keys, NEW s \in Lengths
  PROVE  /\ StringItem(k, s) \in Item
         /\ StringItem(k, s).string = k /\ StringItem(k, s).type = "String"
         /\ StringItem(k, s).text = s
<1>1. StringItem(k, s) = [string |-> k, type |-> "String", valueint |-> 0,
                          valuedouble |-> 0, text |-> s, room |-> s]
  <2> DEFINE blank == Blank(k, "String")
             half == [blank EXCEPT !.text = s]
  <2>1. StringItem(k, s) = [half EXCEPT !.room = s]
    BY DEF StringItem
  <2>2. blank = [string |-> k, type |-> "String", valueint |-> 0, valuedouble |-> 0,
                 text |-> 0, room |-> 0]
    BY DEF Blank
  <2> HIDE DEF blank
  <2>3. half = [string |-> k, type |-> "String", valueint |-> 0, valuedouble |-> 0,
                text |-> s, room |-> 0]
    BY <2>2
  <2> HIDE DEF half
  <2> QED
    BY <2>1, <2>3
<1>2. "String" \in Types
  BY DEF Types
<1>3. StringItem(k, s) \in Item
  BY <1>1, <1>2, ZeroType, ItemFields
<1> QED
  BY <1>1, <1>3

LEMMA BlankType ==
  ASSUME NEW k \in Keys, NEW type \in {"False", "True", "NULL"}
  PROVE  Blank(k, type) \in Item /\ Blank(k, type).string = k /\ Blank(k, type).type = type
BY ZeroType DEF Blank, Item, Types

\* A copy of what parses is an item of the name it is given.
LEMMA CloneType ==
  ASSUME NEW k \in Keys, NEW it \in Item, Readable(it)
  PROVE  Clone(k, it) \in Item /\ Clone(k, it).string = k
<1>1. CASE it.type = "Number"
  <2>1. Clone(k, it) = NumberItem(k, it.valuedouble) /\ it.valuedouble \in Doubles
    BY <1>1 DEF Clone, Item
  <2> QED
    BY <2>1, NumberItemType
<1>2. CASE it.type = "String"
  <2>1. Clone(k, it) = StringItem(k, it.text) /\ it.text \in Lengths
    BY <1>2 DEF Clone, Item
  <2> QED
    BY <2>1, StringItemType
<1>3. CASE it.type = "Composite"
  <2>1. it.text \in Contents /\ Reprint[it.text] \in Contents
    BY <1>3, ReprintAssumption DEF Item, Readable
  <2>2. Clone(k, it) = [string |-> k, type |-> "Composite", valueint |-> 0,
                        valuedouble |-> 0, text |-> Reprint[it.text], room |-> 0]
    BY <1>3 DEF Clone, Blank
  <2> QED
    BY <2>1, <2>2, ZeroType DEF Item, Types
<1>4. CASE it.type \notin {"Number", "String", "Composite"}
  <2>1. Clone(k, it) = Blank(k, it.type) /\ it.type \in {"False", "True", "NULL"}
    BY <1>4 DEF Clone, Item, Types
  <2> QED
    BY <2>1, BlankType
<1> QED
  BY <1>1, <1>2, <1>3, <1>4

(***************************************************************************)
(* Changes of an object.                                                   *)
(***************************************************************************)
LEMMA AddItemType ==
  ASSUME NEW d \in Seq(Item), NEW new \in Item
  PROVE  /\ AddItem(d, new) \in Seq(Item) /\ Len(AddItem(d, new)) = Len(d) + 1
         /\ Len(d) \in Nat /\ \A i \in 1..Len(d) : AddItem(d, new)[i] = d[i]
         /\ AddItem(d, new)[Len(d) + 1] = new
BY AppendProperties DEF AddItem

LEMMA PutType ==
  ASSUME NEW d \in Seq(Item), NEW i \in 1..Len(d), NEW new \in Item
  PROVE  /\ [d EXCEPT ![i] = new] \in Seq(Item) /\ Len([d EXCEPT ![i] = new]) = Len(d)
         /\ [d EXCEPT ![i] = new][i] = new
         /\ \A j \in 1..Len(d) : j # i => [d EXCEPT ![i] = new][j] = d[j]
BY ExceptSeq

\* A replacement puts the new item where cJSON finds its name.
LEMMA ReplaceItemType ==
  ASSUME NEW d \in Seq(Item), NEW new \in Item
  PROVE  /\ ReplaceItem(d, new) \in Seq(Item) /\ Len(ReplaceItem(d, new)) = Len(d)
         /\ GetObjectItem(d, new.string) # 0 =>
              ReplaceItem(d, new)[GetObjectItem(d, new.string)] = new
         /\ \A i \in 1..Len(d) :
              i # GetObjectItem(d, new.string) => ReplaceItem(d, new)[i] = d[i]
<1> DEFINE g == GetObjectItem(d, new.string)
<1>1. g \in 0..Len(d) /\ (g # 0 => g \in 1..Len(d))
  BY ObjectItemType
<1>2. ReplaceItem(d, new) = IF g = 0 THEN d ELSE [d EXCEPT ![g] = new]
  BY DEF ReplaceItem
<1> HIDE DEF g
<1>3. CASE g = 0
  BY <1>1, <1>2, <1>3 DEF g
<1>4. CASE g # 0
  BY <1>1, <1>2, <1>4, PutType DEF g
<1> QED
  BY <1>3, <1>4

\* A step of the calls: items are changed that have, when case is ignored, the
\* name k, or one is added; names are lost only where a replacement changes them.
Touches(d, e, k) ==
  /\ e \in Seq(Item) /\ Len(e) \in {Len(d), Len(d) + 1}
  /\ \A i \in 1..Len(d) : Fold[d[i].string] # Fold[k] => e[i] = d[i]
  /\ \A i \in 1..Len(d) : Fold[d[i].string] = Fold[k] => Fold[e[i].string] = Fold[k]
  /\ Len(e) = Len(d) + 1 => e[Len(d) + 1].string = k

\* The name of an item changes only where the name itself is in the object too.
KeepsNames(d, e, k) ==
  \A i \in 1..Len(d) : e[i].string # d[i].string =>
    /\ e[i].string = k /\ Fold[d[i].string] = Fold[k]
    /\ \E j \in 1..Len(d) : d[j].string = k

\* A new value in a field of an item.
LEMMA FieldType ==
  ASSUME NEW it \in Item
  PROVE  /\ \A v \in Ints :
              /\ [it EXCEPT !.valueint = v] \in Item
              /\ [it EXCEPT !.valueint = v].string = it.string
              /\ [it EXCEPT !.valueint = v].type = it.type
         /\ \A x \in Doubles :
              /\ [it EXCEPT !.valuedouble = x] \in Item
              /\ [it EXCEPT !.valuedouble = x].string = it.string
         /\ \A s \in Lengths : it.type = "String" =>
              /\ [it EXCEPT !.text = s] \in Item
              /\ [it EXCEPT !.text = s].string = it.string
         /\ \A b \in Bools : it.type \in Bools =>
              /\ [it EXCEPT !.type = b] \in Item
              /\ [it EXCEPT !.type = b].string = it.string
              /\ [it EXCEPT !.type = b].type = b
BY DEF Item, Types, Bools

LEMMA FieldTouches ==
  ASSUME NEW d \in Seq(Item), NEW i \in 1..Len(d), NEW new \in Item, new.string = d[i].string,
         NEW k, Fold[d[i].string] = Fold[k]
  PROVE  Touches(d, [d EXCEPT ![i] = new], k) /\ KeepsNames(d, [d EXCEPT ![i] = new], k)
<1> DEFINE e == [d EXCEPT ![i] = new]
<1>1. e \in Seq(Item) /\ Len(e) = Len(d) /\ e[i] = new /\ Len(d) \in Nat
      /\ \A j \in 1..Len(d) : j # i => e[j] = d[j]
  BY PutType
<1> HIDE DEF e
<1>2. \A j \in 1..Len(d) : e[j].string = d[j].string
  BY <1>1
<1>3. \A j \in 1..Len(d) : Fold[d[j].string] # Fold[k] => e[j] = d[j]
  BY <1>1
<1>4. Touches(d, e, k)
  BY <1>1, <1>2, <1>3 DEF Touches
<1>5. KeepsNames(d, e, k)
  BY <1>2 DEF KeepsNames
<1> QED
  BY <1>4, <1>5 DEF e

LEMMA AddTouches ==
  ASSUME NEW d \in Seq(Item), NEW new \in Item
  PROVE  Touches(d, AddItem(d, new), new.string) /\ KeepsNames(d, AddItem(d, new), new.string)
<1> DEFINE e == AddItem(d, new)
<1>1. e \in Seq(Item) /\ Len(e) = Len(d) + 1 /\ Len(d) \in Nat
      /\ (\A j \in 1..Len(d) : e[j] = d[j]) /\ e[Len(d) + 1] = new
  BY AddItemType
<1> HIDE DEF e
<1> QED
  BY <1>1 DEF Touches, KeepsNames, e

LEMMA ReplaceTouches ==
  ASSUME NEW d \in Seq(Item), NEW new \in Item, \E j \in 1..Len(d) : d[j].string = new.string
  PROVE  Touches(d, ReplaceItem(d, new), new.string) /\ KeepsNames(d, ReplaceItem(d, new), new.string)
<1> DEFINE e == ReplaceItem(d, new)
           g == GetObjectItem(d, new.string)
<1>1. g \in 1..Len(d) /\ Fold[d[g].string] = Fold[new.string]
  BY ObjectItemType
<1>2. e \in Seq(Item) /\ Len(e) = Len(d) /\ Len(d) \in Nat /\ (g # 0 => e[g] = new)
      /\ \A j \in 1..Len(d) : j # g => e[j] = d[j]
  BY ReplaceItemType
<1> HIDE DEF e, g
<1>3. e[g] = new
  BY <1>1, <1>2
<1>4. Touches(d, e, new.string)
  BY <1>1, <1>2, <1>3 DEF Touches
<1>5. KeepsNames(d, e, new.string)
  BY <1>1, <1>2, <1>3 DEF KeepsNames
<1> QED
  BY <1>4, <1>5 DEF e

(***************************************************************************)
(* The setters.                                                            *)
(***************************************************************************)
\* A setter puts its item where the getter of the type will find it.
LEMMA ReplacedFound ==
  ASSUME NEW d \in Seq(Item), NEW new \in Item, NEW k, k = new.string,
         NEW types, new.type \in types, NEW f, f = Find(d, k, types),
         NEW r, r = IF f = 0 THEN AddItem(d, new) ELSE ReplaceItem(d, new)
  PROVE  /\ Touches(d, r, k) /\ KeepsNames(d, r, k)
         /\ f = 0 => Find(r, k, types) = Len(d) + 1 /\ r[Len(d) + 1] = new
         /\ f # 0 => /\ f \in 1..Len(d) /\ Len(r) = Len(d)
                     /\ GetObjectItem(d, k) \in 1..f
                     /\ Find(r, k, types) = GetObjectItem(d, k)
                     /\ r[GetObjectItem(d, k)] = new
                     /\ \A i \in 1..Len(d) : i # GetObjectItem(d, k) => r[i] = d[i]
<1> DEFINE g == GetObjectItem(d, k)
<1>0. f \in 0..Len(d) /\ Len(d) \in Nat
  BY FindType
<1>1. CASE f = 0
  <2>1. r = AddItem(d, new)
    BY <1>1
  <2>2. r \in Seq(Item) /\ Len(r) = Len(d) + 1 /\ r[Len(d) + 1] = new
        /\ \A i \in 1..Len(d) : r[i] = d[i]
    <3>1. /\ AddItem(d, new) \in Seq(Item) /\ Len(AddItem(d, new)) = Len(d) + 1
          /\ AddItem(d, new)[Len(d) + 1] = new
          /\ \A i \in 1..Len(d) : AddItem(d, new)[i] = d[i]
      BY AddItemType
    <3> QED
      BY <2>1, <3>1
  <2>3. \A i \in 1..Len(d) : ~(d[i].string = k /\ d[i].type \in types)
    <3>1. Find(d, k, types) = 0
      BY <1>1
    <3> QED
      BY <3>1, FindType
  <2>4. Len(d) + 1 \in 1..Len(r) /\ r[Len(d) + 1].string = k /\ r[Len(d) + 1].type \in types
    BY <1>0, <2>2
  <2>5. \A i \in 1..((Len(d) + 1) - 1) : ~(r[i].string = k /\ r[i].type \in types)
    BY <1>0, <2>2, <2>3
  <2>6. Find(r, k, types) = Len(d) + 1
    <3> QED
      BY <2>2, <2>4, <2>5, FoundAt
  <2>7. Touches(d, r, k) /\ KeepsNames(d, r, k)
    BY <2>1, AddTouches
  <2> QED
    BY <1>1, <2>2, <2>6, <2>7
<1>2. CASE f # 0
  <2>1. r = ReplaceItem(d, new)
    BY <1>2
  <2>2. f \in 1..Len(d) /\ d[f].string = k
    BY <1>2, FindType
  <2>3. g \in 0..Len(d) /\ g # 0 /\ \A i \in 1..(g - 1) : Fold[d[i].string] # Fold[k]
    BY <2>2, ObjectItemType
  <2>4. g \in 1..Len(d) /\ g <= f
    <3>1. ~(f \in 1..(g - 1))
      BY <2>2, <2>3
    <3> QED
      BY <1>0, <2>2, <2>3, <3>1
  <2>5. r \in Seq(Item) /\ Len(r) = Len(d) /\ r[g] = new /\ \A i \in 1..Len(d) : i # g => r[i] = d[i]
    <3>1. /\ ReplaceItem(d, new) \in Seq(Item) /\ Len(ReplaceItem(d, new)) = Len(d)
          /\ GetObjectItem(d, new.string) # 0 =>
               ReplaceItem(d, new)[GetObjectItem(d, new.string)] = new
          /\ \A i \in 1..Len(d) :
               i # GetObjectItem(d, new.string) => ReplaceItem(d, new)[i] = d[i]
      BY ReplaceItemType
    <3> QED
      BY <2>1, <2>3, <3>1
  <2>6. \A i \in 1..(g - 1) : ~(r[i].string = k /\ r[i].type \in types)
    <3>1. \A i \in 1..(g - 1) : i \in 1..Len(d) /\ i # g
      BY <1>0, <2>4
    <3> QED
      BY <2>3, <2>5, <3>1
  <2>7. Find(r, k, types) = g
    <3>1. g \in 1..Len(r) /\ r[g].string = k /\ r[g].type \in types
      BY <2>4, <2>5
    <3> HIDE DEF g
    <3> QED
      BY <2>5, <2>6, <3>1, FoundAt
  <2>8. Touches(d, r, k) /\ KeepsNames(d, r, k)
    BY <2>1, <2>2, ReplaceTouches
  <2> QED
    BY <1>0, <1>2, <2>2, <2>4, <2>5, <2>7, <2>8
<1> QED
  BY <1>1, <1>2

\* The setter of doubles, and what the getters return after it.
LEMMA SetDoubleWorks ==
  ASSUME NEW d \in Seq(Item), NEW k \in Keys, NEW x \in Doubles
  PROVE  /\ Touches(d, WithDouble(d, k, x), k) /\ KeepsNames(d, WithDouble(d, k, x), k)
         /\ GetDouble(WithDouble(d, k, x), k, -1) = x
         /\ x \div 2 \in Ints => GetInt(WithDouble(d, k, x), k, -1) = x \div 2
<1> DEFINE new == NumberItem(k, x)
           r == WithDouble(d, k, x)
           types == {"Number"}
           p == Find(r, k, types)
<1>1. /\ new \in Item /\ new.string = k /\ new.type = "Number"
      /\ (x \div 2 \in Ints => new.valueint = x \div 2) /\ new.valuedouble = x
  BY NumberItemType, NumbersType
<1>2. new.type \in types /\ r = IF Find(d, k, types) = 0 THEN AddItem(d, new) ELSE ReplaceItem(d, new)
  <2>1. r = IF Find(d, new.string, {new.type}) = 0 THEN AddItem(d, new) ELSE ReplaceItem(d, new)
    BY DEF WithDouble, Replaced
  <2>2. {new.type} = types /\ new.type \in types
    BY <1>1
  <2> HIDE DEF new, r, types
  <2> QED
    BY <1>1, <2>1, <2>2
<1>3. Touches(d, r, k) /\ KeepsNames(d, r, k) /\ p # 0 /\ r[p] = new
  <2> HIDE DEF new, r, types
  <2>1. PICK f : f = Find(d, k, types)
    OBVIOUS
  <2>2. r = IF f = 0 THEN AddItem(d, new) ELSE ReplaceItem(d, new)
    BY <1>2, <2>1
  <2>3. /\ Touches(d, r, k) /\ KeepsNames(d, r, k)
        /\ f = 0 => p = Len(d) + 1 /\ r[Len(d) + 1] = new
        /\ f # 0 => p = GetObjectItem(d, k) /\ GetObjectItem(d, k) \in 1..f
                   /\ r[GetObjectItem(d, k)] = new
    BY <1>1, <1>2, <2>1, <2>2, ReplacedFound
  <2>4. Len(d) \in Nat
    OBVIOUS
  <2> QED
    BY <2>3, <2>4
<1> QED
  BY <1>1, <1>3 DEF GetDouble, GetInt

LEMMA SetStringWorks ==
  ASSUME NEW d \in Seq(Item), NEW k \in Keys, NEW s \in Lengths
  PROVE  /\ Touches(d, WithString(d, k, s), k) /\ KeepsNames(d, WithString(d, k, s), k)
         /\ GetString(WithString(d, k, s), k, -1) = s
<1> DEFINE new == StringItem(k, s)
           r == WithString(d, k, s)
           types == {"String"}
           p == Find(r, k, types)
<1>1. new \in Item /\ new.string = k /\ new.type = "String" /\ new.text = s
  BY StringItemType
<1>2. new.type \in types /\ r = IF Find(d, k, types) = 0 THEN AddItem(d, new) ELSE ReplaceItem(d, new)
  <2>1. r = IF Find(d, new.string, {new.type}) = 0 THEN AddItem(d, new) ELSE ReplaceItem(d, new)
    BY DEF WithString, Replaced
  <2>2. {new.type} = types /\ new.type \in types
    BY <1>1
  <2> HIDE DEF new, r, types
  <2> QED
    BY <1>1, <2>1, <2>2
<1>3. Touches(d, r, k) /\ KeepsNames(d, r, k) /\ p # 0 /\ r[p] = new
  <2> HIDE DEF new, r, types
  <2>1. PICK f : f = Find(d, k, types)
    OBVIOUS
  <2>2. r = IF f = 0 THEN AddItem(d, new) ELSE ReplaceItem(d, new)
    BY <1>2, <2>1
  <2>3. /\ Touches(d, r, k) /\ KeepsNames(d, r, k)
        /\ f = 0 => p = Len(d) + 1 /\ r[Len(d) + 1] = new
        /\ f # 0 => p = GetObjectItem(d, k) /\ GetObjectItem(d, k) \in 1..f
                   /\ r[GetObjectItem(d, k)] = new
    BY <1>1, <1>2, <2>1, <2>2, ReplacedFound
  <2>4. Len(d) \in Nat
    OBVIOUS
  <2> QED
    BY <2>3, <2>4
<1> QED
  BY <1>1, <1>3 DEF GetString

\* A new value in a field of an item of the name, after other changes.
LEMMA TouchesMore ==
  ASSUME NEW d \in Seq(Item), NEW k, NEW r, Touches(d, r, k), KeepsNames(d, r, k),
         NEW i \in 1..Len(d), Fold[d[i].string] = Fold[k],
         NEW new \in Item, new.string = r[i].string
  PROVE  Touches(d, [r EXCEPT ![i] = new], k) /\ KeepsNames(d, [r EXCEPT ![i] = new], k)
<1> DEFINE e == [r EXCEPT ![i] = new]
<1>1. r \in Seq(Item) /\ Len(d) \in Nat /\ Len(r) \in {Len(d), Len(d) + 1} /\ i \in 1..Len(r)
  BY DEF Touches
<1>2. e \in Seq(Item) /\ Len(e) = Len(r) /\ e[i] = new
      /\ \A j \in 1..Len(r) : j # i => e[j] = r[j]
  BY <1>1, PutType
<1> HIDE DEF e
<1>3. \A j \in 1..Len(r) : e[j].string = r[j].string
  BY <1>2
<1>4. \A j \in 1..Len(d) : j \in 1..Len(r) /\ (Fold[d[j].string] # Fold[k] => j # i)
  BY <1>1
<1>5. Touches(d, e, k)
  <2>1. \A j \in 1..Len(d) : Fold[d[j].string] # Fold[k] => e[j] = d[j]
    BY <1>2, <1>4 DEF Touches
  <2>2. \A j \in 1..Len(d) : Fold[d[j].string] = Fold[k] => Fold[e[j].string] = Fold[k]
    BY <1>3, <1>4 DEF Touches
  <2>3. Len(e) = Len(d) + 1 => e[Len(d) + 1].string = k
    <3>1. ASSUME Len(e) = Len(d) + 1 PROVE e[Len(d) + 1].string = k
      <4>1. Len(d) + 1 \in 1..Len(r) /\ r[Len(d) + 1].string = k
        BY <1>1, <1>2, <3>1 DEF Touches
      <4> QED
        BY <1>3, <4>1
    <3> QED
      BY <3>1
  <2> QED
    BY <1>1, <1>2, <2>1, <2>2, <2>3 DEF Touches
<1>6. KeepsNames(d, e, k)
  BY <1>3, <1>4 DEF KeepsNames
<1> QED
  BY <1>5, <1>6 DEF e

\* The setter of integers writes to an item behind the one it has replaced as well.
LEMMA SetIntWorks ==
  ASSUME NEW d \in Seq(Item), NEW k \in Keys, NEW v \in Ints
  PROVE  /\ Touches(d, WithInt(d, k, v), k) /\ KeepsNames(d, WithInt(d, k, v), k)
         /\ GetInt(WithInt(d, k, v), k, -1) = v
         /\ GetDouble(WithInt(d, k, v), k, -1) = 2 * v
<1> DEFINE types == {"Number"}
           new == NumberItem(k, 2 * v)
           r == Replaced(d, new)
           e == WithInt(d, k, v)
           g == GetObjectItem(d, k)
           p == Find(e, k, types)
<1>1. /\ new \in Item /\ new.string = k /\ new.type = "Number" /\ new.type \in types
      /\ new.valueint = v /\ new.valuedouble = 2 * v
  BY NumberItemType, NumbersType
<1>2. PICK f : f = Find(d, k, types)
  OBVIOUS
<1>3. r = IF f = 0 THEN AddItem(d, new) ELSE ReplaceItem(d, new)
  <2>1. r = IF Find(d, new.string, {new.type}) = 0 THEN AddItem(d, new) ELSE ReplaceItem(d, new)
    BY DEF Replaced
  <2>2. {new.type} = types
    BY <1>1
  <2> HIDE DEF new, r, types
  <2> QED
    BY <1>1, <1>2, <2>1, <2>2
<1>4. e = IF f = 0 \/ f = g THEN r ELSE [r EXCEPT ![f].valueint = v]
  BY <1>2 DEF WithInt
<1> HIDE DEF new, r, e, types
<1>5. /\ Touches(d, r, k) /\ KeepsNames(d, r, k)
      /\ f = 0 => Find(r, k, types) = Len(d) + 1 /\ r[Len(d) + 1] = new
      /\ f # 0 => /\ f \in 1..Len(d) /\ Len(r) = Len(d) /\ g \in 1..f
                  /\ Find(r, k, types) = g /\ r[g] = new
                  /\ \A i \in 1..Len(d) : i # g => r[i] = d[i]
  BY <1>1, <1>2, <1>3, ReplacedFound
<1>6. Len(d) \in Nat /\ r \in Seq(Item)
  BY <1>5 DEF Touches
<1>7. Touches(d, e, k) /\ KeepsNames(d, e, k) /\ p # 0 /\ e[p] = new
  <2>1. CASE f = 0 \/ f = g
    BY <1>4, <1>5, <1>6, <2>1
  <2>2. CASE f # 0 /\ f # g
    <3> DEFINE other == [r[f] EXCEPT !.valueint = v]
    <3>1. f \in 1..Len(d) /\ Len(r) = Len(d) /\ g \in 1..f /\ g \in 1..Len(r) /\ r[g] = new
      BY <1>5, <1>6, <2>2
    <3>2. r[f] = d[f] /\ d[f].string = k /\ r[f] \in Item
      <4>1. d[f].string = k
        BY <1>2, <2>2, FindType
      <4> QED
        BY <1>5, <2>2, <3>1, <4>1
    <3>3. other \in Item /\ other.string = r[f].string /\ e = [r EXCEPT ![f] = other]
      BY <1>4, <2>2, <3>2, FieldType
    <3> HIDE DEF other
    <3>4. Touches(d, e, k) /\ KeepsNames(d, e, k)
      BY <1>5, <3>1, <3>2, <3>3, TouchesMore
    <3>5. e \in Seq(Item) /\ Len(e) = Len(r) /\ \A i \in 1..Len(r) : i # f => e[i] = r[i]
      BY <1>6, <3>1, <3>3, PutType
    <3>6. \A i \in 1..(g - 1) : ~(r[i].string = k /\ r[i].type \in types)
      <4>1. Find(r, k, types) = g
        BY <1>5, <2>2
      <4> QED
        BY <1>6, <4>1, FindType
    <3>7. \A i \in 1..(g - 1) : ~(e[i].string = k /\ e[i].type \in types)
      <4>1. \A i \in 1..(g - 1) : i \in 1..Len(r) /\ i # f
        BY <1>6, <3>1
      <4> QED
        BY <3>5, <3>6, <4>1
    <3>8. g \in 1..Len(e) /\ e[g] = new
      BY <2>2, <3>1, <3>5
    <3>9. p = g
      <4> HIDE DEF g
      <4> QED
        BY <1>1, <3>5, <3>7, <3>8, FoundAt
    <3> QED
      BY <1>6, <3>1, <3>4, <3>8, <3>9
  <2> QED
    BY <2>1, <2>2
<1> QED
  BY <1>1, <1>7 DEF GetInt, GetDouble, e, types

\* The setter of booleans.
LEMMA SetBoolWorks ==
  ASSUME NEW d \in Seq(Item), NEW k \in Keys, NEW b \in Bools
  PROVE  /\ Touches(d, WithBool(d, k, b), k) /\ KeepsNames(d, WithBool(d, k, b), k)
         /\ Find(d, k, Types \ Bools) = 0 => GetBool(WithBool(d, k, b), k, "none") = b
<1> DEFINE i == Find(d, k, Bools)
           e == WithBool(d, k, b)
<1>0. b \in {"False", "True", "NULL"} /\ Bools \subseteq Types /\ b \in Types
  BY DEF Bools, Types
<1>1. CASE i = 0
  <2> DEFINE new == Blank(k, b)
  <2>1. new \in Item /\ new.string = k /\ new.type = b
    BY <1>0, BlankType
  <2>2. e = AddItem(d, new)
    BY <1>1 DEF WithBool
  <2> HIDE DEF new, e
  <2>3. Touches(d, e, k) /\ KeepsNames(d, e, k)
    BY <2>1, <2>2, AddTouches
  <2>4. ASSUME Find(d, k, Types \ Bools) = 0 PROVE GetBool(e, k, "none") = b
    <3>1. \A j \in 1..Len(d) : ~(d[j].string = k /\ d[j].type \in Types)
      <4>1. \A j \in 1..Len(d) : ~(d[j].string = k /\ d[j].type \in Bools)
        BY <1>1, FindType
      <4>2. \A j \in 1..Len(d) : ~(d[j].string = k /\ d[j].type \in Types \ Bools)
        BY <2>4, FindType
      <4> QED
        BY <4>1, <4>2
    <3>2. e \in Seq(Item) /\ Len(e) = Len(d) + 1 /\ e[Len(d) + 1] = new /\ Len(d) \in Nat
          /\ \A j \in 1..Len(d) : e[j] = d[j]
      BY <2>1, <2>2, AddItemType
    <3>3. Find(e, k, Types) = Len(d) + 1
      <4>1. \A j \in 1..((Len(d) + 1) - 1) : ~(e[j].string = k /\ e[j].type \in Types)
        BY <3>1, <3>2
      <4>2. Len(d) + 1 \in 1..Len(e) /\ e[Len(d) + 1].string = k /\ e[Len(d) + 1].type \in Types
        BY <1>0, <2>1, <3>2
      <4> QED
        BY <3>2, <4>1, <4>2, FoundAt
    <3> QED
      BY <2>1, <3>2, <3>3 DEF GetBool
  <2> QED
    BY <2>3, <2>4 DEF e
<1>2. CASE i # 0
  <2> DEFINE new == [d[i] EXCEPT !.type = b]
  <2>1. i \in 1..Len(d) /\ d[i].string = k /\ d[i].type \in Bools /\ Len(d) \in Nat
    BY <1>2, FindType
  <2>2. e = [d EXCEPT ![i] = new]
    BY <1>2 DEF WithBool
  <2>3. new \in Item /\ new.string = d[i].string /\ new.type = b
    <3>1. d[i] \in Item
      BY <2>1
    <3> QED
      BY <2>1, <3>1, FieldType
  <2> HIDE DEF new, e
  <2>4. Touches(d, e, k) /\ KeepsNames(d, e, k)
    BY <2>1, <2>2, <2>3, FieldTouches
  <2>5. ASSUME Find(d, k, Types \ Bools) = 0 PROVE GetBool(e, k, "none") = b
    <3>1. \A j \in 1..(i - 1) : ~(d[j].string = k /\ d[j].type \in Types)
      <4>1. \A j \in 1..(i - 1) : ~(d[j].string = k /\ d[j].type \in Bools)
        BY FindType
      <4>2. \A j \in 1..Len(d) : ~(d[j].string = k /\ d[j].type \in Types \ Bools)
        BY <2>5, FindType
      <4>3. \A j \in 1..(i - 1) : j \in 1..Len(d)
        BY <2>1
      <4> QED
        BY <4>1, <4>2, <4>3
    <3>2. e \in Seq(Item) /\ Len(e) = Len(d) /\ e[i] = new /\ \A j \in 1..Len(d) : j # i => e[j] = d[j]
      BY <2>1, <2>2, <2>3, PutType
    <3>3. Find(e, k, Types) = i
      <4>1. \A j \in 1..(i - 1) : ~(e[j].string = k /\ e[j].type \in Types)
        <5>1. \A j \in 1..(i - 1) : j \in 1..Len(d) /\ j # i
          BY <2>1
        <5> QED
          BY <3>1, <3>2, <5>1
      <4>2. i \in 1..Len(e) /\ e[i].string = k /\ e[i].type \in Types
        BY <1>0, <2>1, <2>3, <3>2
      <4> HIDE DEF i
      <4> QED
        BY <3>2, <4>1, <4>2, FoundAt
    <3> QED
      BY <2>1, <2>3, <3>2, <3>3 DEF GetBool
  <2> QED
    BY <2>4, <2>5 DEF e
<1> QED
  BY <1>1, <1>2

\* What mergeJSONObjects and copyItem do with an item that parses.
LEMMA CopyTouches ==
  ASSUME NEW d \in Seq(Item), NEW k \in Keys, NEW it \in Item, Readable(it)
  PROVE  Touches(d, WithCopy(d, k, it), k) /\ KeepsNames(d, WithCopy(d, k, it), k)
<1> DEFINE new == Clone(k, it)
<1>1. new \in Item /\ new.string = k
  BY CloneType
<1> HIDE DEF new
<1>2. CASE DoesAttributeExist(d, k)
  <2>1. \E j \in 1..Len(d) : d[j].string = k
    BY <1>2 DEF DoesAttributeExist
  <2>2. WithCopy(d, k, it) = ReplaceItem(d, new)
    BY <1>2 DEF WithCopy, new
  <2> QED
    BY <1>1, <2>1, <2>2, ReplaceTouches
<1>3. CASE ~DoesAttributeExist(d, k)
  <2>1. WithCopy(d, k, it) = AddItem(d, new)
    BY <1>3 DEF WithCopy, new
  <2> QED
    BY <1>1, <2>1, AddTouches
<1> QED
  BY <1>2, <1>3

(***************************************************************************)
(* What a step does to the object.                                         *)
(***************************************************************************)
\* In its loop a call is at an item or behind the last one.
LoopType == call = "merge" => item \in 1..(Len(src) + 1)

Changes == \E k \in Keys : Touches(doc, doc', k) /\ KeepsNames(doc, doc', k)

\* What mergeJSONObjects and copyItem do with any item.
LEMMA CopyChanges ==
  ASSUME doc \in Seq(Item), alive = TRUE, NEW k \in Keys, NEW it \in Item, Copy(k, it)
  PROVE  (doc' = doc \/ Changes) /\ alive' \in BOOLEAN
         /\ (alive' => doc' = WithCopy(doc, k, it)) /\ (~alive' => doc' = doc)
<1>1. CASE ~Readable(it)
  <2>1. WithCopy(doc, k, it) = doc
    BY <1>1 DEF WithCopy
  <2> QED
    BY <2>1 DEF Copy, Die
<1>2. CASE Readable(it)
  <2>1. doc' = WithCopy(doc, k, it) /\ alive' = alive
    BY <1>2 DEF Copy
  <2> QED
    BY <1>2, <2>1, CopyTouches DEF Changes
<1> QED
  BY <1>1, <1>2

LEMMA SetterChanges ==
  ASSUME TypeOK, NEW k \in Keys, Attribute(k)
  PROVE  (doc' = doc \/ Changes) /\ alive' \in BOOLEAN /\ UNCHANGED mergeVars
<1>1. doc \in Seq(Item) /\ alive \in BOOLEAN
  BY DEF TypeOK
<1>2. ASSUME NEW v \in Ints, SetInt(k, v) PROVE Changes
  BY <1>1, <1>2, SetIntWorks DEF SetInt, Changes
<1>3. ASSUME NEW x \in Doubles, SetDouble(k, x) PROVE Changes
  BY <1>1, <1>3, SetDoubleWorks DEF SetDouble, Changes
<1>4. ASSUME NEW s \in Lengths, SetString(k, s) PROVE Changes
  BY <1>1, <1>4, SetStringWorks DEF SetString, Changes
<1>5. ASSUME NEW b \in Bools, SetBool(k, b) PROVE Changes
  BY <1>1, <1>5, SetBoolWorks DEF SetBool, Changes
<1>6. ASSUME IncrInt(k, 1) PROVE Changes
  <2> DEFINE i == Find(doc, k, {"Number"})
             v == GetInt(doc, k, -1)
  <2>1. v + 1 \in Ints /\ doc' = WithInt(doc, k, v + 1)
    BY <1>6 DEF IncrInt
  <2> QED
    BY <1>1, <2>1, SetIntWorks DEF Changes
<1>7. ASSUME NEW n \in {1, 2}, IncrDouble(k, n) PROVE Changes
  <2>1. PICK x \in Doubles : doc' = WithDouble(doc, k, x)
    BY <1>7 DEF IncrDouble
  <2> QED
    BY <1>1, <2>1, SetDoubleWorks DEF Changes
<1>8. ASSUME NEW x \in Params, AddParamNumber(k, x) PROVE Changes
  <2>0. x \in Doubles
    BY NumberAssumption
  <2> DEFINE i == GetObjectItem(doc, k)
  <2>1. CASE i = 0
    <3>1. doc' = AddItem(doc, NumberItem(k, x))
      BY <1>8, <2>1 DEF AddParamNumber
    <3> QED
      BY <1>1, <2>0, <3>1, NumberItemType, AddTouches DEF Changes
  <2>2. CASE i # 0
    <3> DEFINE new == [doc[i] EXCEPT !.valuedouble = x]
    <3>1. doc' = [doc EXCEPT ![i] = new]
      BY <1>8, <2>2 DEF AddParamNumber
    <3>2. i \in 1..Len(doc) /\ Fold[doc[i].string] = Fold[k]
      BY <1>1, <2>2, ObjectItemType
    <3>3. doc[i] \in Item
      BY <1>1, <3>2
    <3>4. new \in Item /\ new.string = doc[i].string
      BY <2>0, <3>3, FieldType
    <3> HIDE DEF new, i
    <3> QED
      BY <1>1, <3>1, <3>2, <3>4, FieldTouches DEF Changes
  <2> QED
    BY <2>1, <2>2
<1>9. ASSUME NEW s \in Lengths, AddParamString(k, s) PROVE (doc' = doc \/ Changes) /\ alive' \in BOOLEAN
  <2> DEFINE i == GetObjectItem(doc, k)
  <2>1. CASE i = 0
    <3>1. doc' = AddItem(doc, StringItem(k, s)) /\ alive' = alive
      BY <1>9, <2>1 DEF AddParamString
    <3> QED
      BY <1>1, <3>1, StringItemType, AddTouches DEF Changes
  <2>2. CASE i # 0 /\ alive' # FALSE
    <3> DEFINE new == [doc[i] EXCEPT !.text = s]
    <3>1. doc' = [doc EXCEPT ![i] = new] /\ doc[i].type = "String" /\ alive' = alive
      BY <1>9, <2>2 DEF AddParamString, Die
    <3>2. i \in 1..Len(doc) /\ Fold[doc[i].string] = Fold[k]
      BY <1>1, <2>2, ObjectItemType
    <3>3. doc[i] \in Item
      BY <1>1, <3>2
    <3>4. new \in Item /\ new.string = doc[i].string
      BY <3>1, <3>3, FieldType
    <3> HIDE DEF new, i
    <3> QED
      BY <1>1, <3>1, <3>2, <3>4, FieldTouches DEF Changes
  <2>3. CASE i # 0 /\ alive' = FALSE
    <3>1. alive = TRUE
      BY <1>1, <1>9 DEF AddParamString, Call
    <3>2. doc' = doc
      BY <1>9, <2>3, <3>1 DEF AddParamString, Die
    <3> QED
      BY <2>3, <3>2
  <2> QED
    BY <2>1, <2>2, <2>3
<1>10. ASSUME NEW s \in Sources, NEW sk \in Keys, CopyItem(k, s, sk)
       PROVE  (doc' = doc \/ Changes) /\ alive' \in BOOLEAN
  <2> DEFINE i == GetObjectItem(s, sk)
  <2>1. i # 0 /\ Copy(k, s[i]) /\ s \in Seq(Item) /\ alive = TRUE
    BY <1>1, <1>10, SourcesAssumption DEF CopyItem, Call
  <2>2. i \in 1..Len(s)
    BY <2>1, ObjectItemType
  <2>3. s[i] \in Item
    BY <2>1, <2>2
  <2> HIDE DEF i
  <2> QED
    BY <1>1, <2>1, <2>3, CopyChanges
<1>11. UNCHANGED mergeVars
  BY DEF Attribute, SetInt, SetDouble, SetString, SetBool, IncrInt, IncrDouble, AddParamNumber,
         AddParamString, CopyItem, Call
<1>12. \/ \E s \in Lengths : AddParamString(k, s)
       \/ \E s \in Sources, sk \in Keys : CopyItem(k, s, sk)
       \/ alive' = alive
  BY DEF Attribute, SetInt, SetDouble, SetString, SetBool, IncrInt, IncrDouble, AddParamNumber
<1>13. doc' = doc \/ Changes
  BY <1>2, <1>3, <1>4, <1>5, <1>6, <1>7, <1>8, <1>9, <1>10 DEF Attribute
<1> QED
  BY <1>1, <1>9, <1>10, <1>11, <1>12, <1>13

\* The item that a merge is at.
LEMMA AtItemType ==
  ASSUME TypeOK, LoopType, AtItem
  PROVE  /\ item \in 1..Len(src) /\ Len(src) \in Nat
         /\ src[item] \in Item /\ src[item].string \in Keys
<1>1. src \in Seq(Item) /\ Len(src) \in Nat /\ item \in 1..Len(src)
  BY DEF TypeOK, LoopType, AtItem
<1>2. src[item] \in Item
  BY <1>1
<1> QED
  BY <1>1, <1>2 DEF Item

LEMMA MergeChanges ==
  ASSUME TypeOK, LoopType, MergeItem
  PROVE  /\ (doc' = doc \/ Changes) /\ alive' \in BOOLEAN
         /\ alive' => doc' = WithCopy(doc, src[item].string, src[item])
         /\ ~alive' => doc' = doc
<1>1. src[item] \in Item /\ src[item].string \in Keys /\ doc \in Seq(Item)
  BY AtItemType DEF MergeItem, TypeOK
<1>2. Copy(src[item].string, src[item]) /\ alive = TRUE
  BY DEF MergeItem, AtItem, TypeOK
<1> QED
  BY <1>1, <1>2, CopyChanges

LEMMA StepChanges ==
  ASSUME TypeOK, LoopType, [Next]_vars
  PROVE  doc' = doc \/ Changes
<1>1. ASSUME NEW k \in Keys, Attribute(k) PROVE doc' = doc \/ Changes
  BY <1>1, SetterChanges
<1>2. ASSUME NEW s \in Sources, MergeCall(s) PROVE doc' = doc
  BY <1>2 DEF MergeCall
<1>3. ASSUME MergeUnnamed \/ MergeReturn \/ UNCHANGED vars PROVE doc' = doc
  BY <1>3 DEF MergeUnnamed, MergeReturn, vars
<1> QED
  BY <1>1, <1>2, <1>3, MergeChanges DEF Next

LEMMA StepTypes ==
  ASSUME TypeOK, LoopType, [Next]_vars
  PROVE  TypeOK' /\ LoopType'
<1>1. doc' \in Seq(Item)
  BY StepChanges DEF Changes, Touches, TypeOK
<1>2. CASE \E k \in Keys : Attribute(k)
  BY <1>1, <1>2, SetterChanges DEF mergeVars, TypeOK, LoopType
<1>3. ASSUME NEW s \in Sources, MergeCall(s) PROVE TypeOK' /\ LoopType'
  <2>1. s \in Seq(Item) /\ Len(s) \in Nat
    BY SourcesAssumption
  <2> QED
    BY <1>1, <1>3, <2>1 DEF MergeCall, TypeOK, LoopType
<1>4. CASE MergeItem
  <2>1. item \in 1..Len(src) /\ Len(src) \in Nat
    BY <1>4, AtItemType DEF MergeItem
  <2>2. alive' \in BOOLEAN
    BY <1>4, MergeChanges
  <2> QED
    BY <1>1, <1>4, <2>1, <2>2 DEF MergeItem, AtItem, TypeOK, LoopType
<1>5. CASE MergeUnnamed \/ UNCHANGED vars
  BY <1>5 DEF MergeUnnamed, vars, TypeOK, LoopType
<1>6. CASE MergeReturn
  BY <1>1, <1>6 DEF MergeReturn, TypeOK, LoopType
<1> QED
  BY <1>2, <1>3, <1>4, <1>5, <1>6 DEF Next

\* The types, and where a merge may be, in every state of every run.
THEOREM TypeInvariance == Spec => [](TypeOK /\ LoopType)
<1>1. Init => TypeOK /\ LoopType
  BY DEF Init, TypeOK, LoopType
<1>2. (TypeOK /\ LoopType) /\ [Next]_vars => (TypeOK /\ LoopType)'
  BY StepTypes
<1> QED
  BY <1>1, <1>2, PTL DEF Spec

\* Every variable keeps its type: no sequence of calls makes an item that the library
\* would take for another, such as a string without a text.
THEOREM TypeCorrectness == Spec => []TypeOK
<1> QED
  BY TypeInvariance, PTL

\* A getter returns what a setter has just stored, whatever the object
\* (setAttributeValue_Int, setAttributeValue_Double, setAttributeValue_String,
\* setAttributeValue_Bool).
THEOREM SettersAreRead == Spec => []ReadYourWrite
<1>1. TypeOK => ReadYourWrite
  <2> SUFFICES ASSUME TypeOK, NEW k \in Keys
               PROVE  /\ \A v \in Ints :
                           LET d == WithInt(doc, k, v)
                           IN  GetInt(d, k, -1) = v /\ GetDouble(d, k, -1) = 2 * v
                      /\ \A x \in Doubles :
                           LET d == WithDouble(doc, k, x)
                           IN  /\ GetDouble(d, k, -1) = x
                               /\ x \div 2 \in Ints => GetInt(d, k, -1) = x \div 2
                      /\ \A s \in Lengths : GetString(WithString(doc, k, s), k, -1) = s
                      /\ Find(doc, k, Types \ Bools) = 0 =>
                           \A b \in Bools : GetBool(WithBool(doc, k, b), k, "none") = b
    BY DEF ReadYourWrite
  <2>1. doc \in Seq(Item)
    BY DEF TypeOK
  <2> QED
    BY <2>1, SetIntWorks, SetDoubleWorks, SetStringWorks, SetBoolWorks
<1> QED
  BY <1>1, TypeInvariance, PTL

LEMMA TouchedDomain ==
  ASSUME NEW d \in Seq(Item), NEW k, NEW e, Touches(d, e, k)
  PROVE  /\ DOMAIN d = 1..Len(d) /\ DOMAIN e = 1..Len(e)
         /\ \A i \in 1..Len(d) : i \in 1..Len(e)
         /\ \A i \in 1..Len(e) : i \in 1..Len(d) \/ e[i].string = k
<1> DEFINE m == Len(d)
           n == Len(e)
<1>1. DOMAIN d = 1..m /\ DOMAIN e = 1..n /\ m \in Nat /\ n \in Nat
  BY DEF Touches
<1>2. n = m \/ (n = m + 1 /\ e[m + 1].string = k)
  BY DEF Touches
<1> HIDE DEF m, n
<1>3. \A i \in 1..m : i \in 1..n
  BY <1>1, <1>2
<1>4. \A i \in 1..n : i \in 1..m \/ i = n
  BY <1>1, <1>2
<1>5. \A i \in 1..n : i \in 1..m \/ e[i].string = k
  BY <1>1, <1>2, <1>4
<1> QED
  BY <1>1, <1>3, <1>5 DEF m, n

\* A step leaves the items of all names but one as and where they are
\* (cJSON_ReplaceItemInObject as the setters, addParamsMap, copyItem and
\* mergeJSONObjects use it).
THEOREM OthersStay == Spec => OthersUntouched
<1> DEFINE Others(d, name) == {i \in DOMAIN d : Fold[d[i].string] # name}
           Kept == \E name \in {Fold[k] : k \in Keys} :
                     /\ Others(doc', name) = Others(doc, name)
                     /\ \A i \in Others(doc, name) : doc'[i] = doc[i]
<1>1. ASSUME TypeOK, NEW k \in Keys, Touches(doc, doc', k)
      PROVE  Kept
  <2>1. DOMAIN doc = 1..Len(doc) /\ DOMAIN doc' = 1..Len(doc')
    BY <1>1, TouchedDomain DEF TypeOK
  <2>2. /\ \A i \in 1..Len(doc) : i \in 1..Len(doc')
        /\ \A i \in 1..Len(doc') : i \in 1..Len(doc) \/ doc'[i].string = k
    BY <1>1, TouchedDomain DEF TypeOK
  <2>3. \A i \in Others(doc, Fold[k]) : doc'[i] = doc[i]
    BY <1>1, <2>1 DEF Touches
  <2>4. ASSUME NEW i \in Others(doc, Fold[k]) PROVE i \in Others(doc', Fold[k])
    <3>1. i \in 1..Len(doc) /\ Fold[doc[i].string] # Fold[k] /\ doc'[i] = doc[i]
      BY <2>1, <2>3
    <3>2. i \in DOMAIN doc'
      BY <2>1, <2>2, <3>1
    <3> QED
      BY <3>1, <3>2
  <2>5. ASSUME NEW i \in Others(doc', Fold[k]) PROVE i \in Others(doc, Fold[k])
    <3>1. i \in 1..Len(doc') /\ Fold[doc'[i].string] # Fold[k]
      BY <2>1
    <3>2. i \in 1..Len(doc)
      BY <2>2, <3>1
    <3>3. Fold[doc[i].string] # Fold[k]
      BY <1>1, <3>1, <3>2 DEF Touches
    <3> QED
      BY <2>1, <3>2, <3>3
  <2>6. Others(doc', Fold[k]) = Others(doc, Fold[k])
    <3> HIDE DEF Others
    <3> QED
      BY <2>4, <2>5
  <2> QED
    BY <2>3, <2>6
<1>2. (TypeOK /\ LoopType) /\ [Next]_vars => [Kept]_doc
  <2>1. ASSUME TypeOK, LoopType, [Next]_vars PROVE doc' = doc \/ Kept
    BY <1>1, <2>1, StepChanges DEF Changes
  <2> QED
    BY <2>1
<1>3. [Kept]_doc => [\E name \in {Fold[k] : k \in Keys} :
                       LET others(d) == {i \in DOMAIN d : Fold[d[i].string] # name}
                       IN  /\ others(doc') = others(doc)
                           /\ \A i \in others(doc) : doc'[i] = doc[i]]_doc
  OBVIOUS
<1> QED
  BY <1>2, <1>3, TypeInvariance, PTL DEF Spec, OthersUntouched

\* No step loses a name of an object in which no two differ in case only
\* (doesAttributeExist searches exactly, the replacement ignores case).
THEOREM NamesStay == Spec => NoNameLost
<1>1. ASSUME TypeOK, NEW k \in Keys, Touches(doc, doc', k), KeepsNames(doc, doc', k), Distinct(doc)
      PROVE  Names(doc) \subseteq Names(doc')
  <2>1. doc \in Seq(Item) /\ Len(doc) \in Nat /\ DOMAIN doc = 1..Len(doc)
    BY <1>1 DEF TypeOK
  <2>3. \A i \in 1..Len(doc) : i \in DOMAIN doc'
    BY <1>1, TouchedDomain DEF TypeOK
  <2>4. ASSUME NEW i \in 1..Len(doc) PROVE doc'[i].string = doc[i].string
    <3>1. SUFFICES ASSUME doc'[i].string # doc[i].string PROVE FALSE
      OBVIOUS
    <3>2. doc'[i].string = k /\ Fold[doc[i].string] = Fold[k]
      BY <1>1, <3>1 DEF KeepsNames
    <3>3. PICK j \in 1..Len(doc) : doc[j].string = k
      BY <1>1, <3>1 DEF KeepsNames
    <3>4. i = j
      BY <1>1, <2>1, <3>2, <3>3 DEF Distinct
    <3> QED
      BY <3>1, <3>2, <3>3, <3>4
  <2> QED
    BY <2>1, <2>3, <2>4 DEF Names
<1>2. (TypeOK /\ LoopType) /\ [Next]_vars => [Distinct(doc) => Names(doc) \subseteq Names(doc')]_doc
  <2>1. ASSUME TypeOK, LoopType, [Next]_vars, Distinct(doc), doc' # doc
        PROVE  Names(doc) \subseteq Names(doc')
    BY <1>1, <2>1, StepChanges DEF Changes
  <2> QED
    BY <2>1
<1> QED
  BY <1>2, TypeInvariance, PTL DEF Spec, NoNameLost

(***************************************************************************)
(* A merge.                                                                *)
(***************************************************************************)
\* The names of the first n items.
NamesTo(s, n) == {s[j].string : j \in 1..n}

\* d is what a merge has made of the object b when it has done n items of s: what
\* was there keeps its place and its name, and is as it was unless the source has
\* the name; the copies of what parses are there; what is new has a name of one of them.
MergedUpTo(d, b, s, n) ==
  /\ Len(b) <= Len(d)
  /\ \A i \in 1..Len(b) : d[i].string = b[i].string
  /\ \A i \in 1..Len(b) : b[i].string \notin CopiedNames(s, n) => d[i] = b[i]
  /\ \A j \in 1..n : Readable(s[j]) => \E p \in 1..Len(d) : d[p] = Clone(s[j].string, s[j])
  /\ \A p \in 1..Len(d) : p \in 1..Len(b) \/ d[p].string \in CopiedNames(s, n)
  /\ Len(d) = Cardinality(Names(b) \cup CopiedNames(s, n))

\* What MergeAgrees says of the whole source, for the items that are done.
MergeInv ==
  call = "merge" /\ Distinct(before) /\ Cardinality(Names(src)) = Len(src) =>
    MergedUpTo(doc, before, src, item - 1)

\* As many names as items: no two are the same.
LEMMA CountNames ==
  ASSUME NEW d \in Seq(Item), NEW n \in Nat, n <= Len(d)
  PROVE  /\ IsFiniteSet(NamesTo(d, n))
         /\ Cardinality(NamesTo(d, n)) = n <=>
              \A i, j \in 1..n : d[i].string = d[j].string => i = j
<1> DEFINE f == [i \in 1..n |-> d[i].string]
           T == NamesTo(d, n)
<1>1. f \in Surjection(1..n, T)
  BY DEF Surjection, NamesTo
<1>2. IsFiniteSet(1..n) /\ Cardinality(1..n) = n
  BY FS_Interval
<1>3. IsFiniteSet(T) /\ (Cardinality(T) = n <=> f \in Injection(1..n, T))
  <2> HIDE DEF f, T
  <2> QED
    BY <1>1, <1>2, FS_Surjection
<1>4. f \in Injection(1..n, T) <=> \A i, j \in 1..n : d[i].string = d[j].string => i = j
  <2>1. f \in [1..n -> T]
    BY DEF NamesTo
  <2>2. f \in Injection(1..n, T) <=> \A i, j \in 1..n : f[i] = f[j] => i = j
    <3> HIDE DEF f, T
    <3> QED
      BY <2>1 DEF Injection, IsInjective
  <2> QED
    BY <2>2
<1> QED
  BY <1>3, <1>4

\* As many names as items: no two items have the same.
LEMMA NamesApart ==
  ASSUME NEW d \in Seq(Item), Cardinality(NamesTo(d, Len(d))) = Len(d)
  PROVE  \A i, j \in 1..Len(d) : d[i].string = d[j].string => i = j
<1>1. PICK n \in Nat : n = Len(d) /\ n <= Len(d)
  BY LenProperties
<1>2. Cardinality(NamesTo(d, n)) = n <=>
        \A i, j \in 1..n : d[i].string = d[j].string => i = j
  BY <1>1, CountNames
<1> QED
  BY <1>1, <1>2

LEMMA AllNames ==
  ASSUME NEW d \in Seq(Item)
  PROVE  Len(d) \in Nat /\ DOMAIN d = 1..Len(d) /\ Names(d) = NamesTo(d, Len(d))
BY DEF Names, NamesTo

LEMMA MergeBegins ==
  ASSUME NEW b \in Seq(Item), NEW s \in Seq(Item), Distinct(b)
  PROVE  MergedUpTo(b, b, s, 0)
<1>1. Len(b) \in Nat /\ DOMAIN b = 1..Len(b) /\ Names(b) = NamesTo(b, Len(b))
  BY AllNames
<1>2. CopiedNames(s, 0) = {}
  BY DEF CopiedNames
<1>3. \A i, j \in 1..Len(b) : b[i].string = b[j].string => i = j
  BY <1>1 DEF Distinct
<1>4. Cardinality(NamesTo(b, Len(b))) = Len(b)
  BY <1>1, <1>3, CountNames, SMTT(60)
<1>5. Names(b) \cup CopiedNames(s, 0) = NamesTo(b, Len(b))
  BY <1>1, <1>2
<1>6. Len(b) = Cardinality(Names(b) \cup CopiedNames(s, 0))
  BY <1>4, <1>5
<1> QED
  BY <1>1, <1>6 DEF MergedUpTo

\* One item more, that parses.
LEMMA MergeGoesOn ==
  ASSUME NEW d \in Seq(Item), NEW b \in Seq(Item), NEW s \in Seq(Item), NEW n \in Nat,
         NEW m \in 1..Len(s), m = n + 1, Distinct(b), Cardinality(Names(s)) = Len(s),
         s[m].string # EMPTY, Readable(s[m]), MergedUpTo(d, b, s, n)
  PROVE  MergedUpTo(WithCopy(d, s[m].string, s[m]), b, s, m)
<1>1. PICK k : k = s[m].string
  OBVIOUS
<1>2. PICK new : new = Clone(k, s[m])
  OBVIOUS
<1>3. PICK e : e = WithCopy(d, k, s[m])
  OBVIOUS
<1>4. s[m] \in Item /\ k \in Keys /\ k # EMPTY
  <2>1. s[m] \in Item
    OBVIOUS
  <2> QED
    BY <1>1, <2>1 DEF Item
<1>5. new \in Item /\ new.string = k
  BY <1>2, <1>4, CloneType
<1>6. Len(b) \in Nat /\ Len(d) \in Nat /\ Len(s) \in Nat /\ DOMAIN b = 1..Len(b) /\ DOMAIN d = 1..Len(d)
  OBVIOUS
<1>7. /\ Len(b) <= Len(d)
      /\ \A i \in 1..Len(b) : i \in 1..Len(d) /\ d[i].string = b[i].string
      /\ \A i \in 1..Len(b) : b[i].string \notin CopiedNames(s, n) => d[i] = b[i]
      /\ \A j \in 1..n : Readable(s[j]) => \E p \in 1..Len(d) : d[p] = Clone(s[j].string, s[j])
      /\ \A p \in 1..Len(d) : p \in 1..Len(b) \/ d[p].string \in CopiedNames(s, n)
      /\ Len(d) = Cardinality(Names(b) \cup CopiedNames(s, n))
  <2>1. Len(b) <= Len(d) /\ \A i \in 1..Len(b) : d[i].string = b[i].string
    BY DEF MergedUpTo
  <2>2. \A i \in 1..Len(b) : i \in 1..Len(d)
    BY <1>6, <2>1
  <2> QED
    BY <2>1, <2>2 DEF MergedUpTo
<1>8. CopiedNames(s, m) = CopiedNames(s, n) \cup {k}
  <2>1. 1..m = (1..n) \cup {m}
    OBVIOUS
  <2> QED
    BY <1>1, <2>1 DEF CopiedNames
<1>9. \A j \in 1..n : j \in 1..Len(s) /\ j # m /\ s[j].string # k
  <2>1. \A i, j \in 1..Len(s) : s[i].string = s[j].string => i = j
    <3>1. Cardinality(NamesTo(s, Len(s))) = Len(s)
      BY AllNames
    <3> QED
      BY <3>1, NamesApart
  <2> QED
    BY <1>1, <1>6, <2>1
<1>10. k \notin CopiedNames(s, n)
  BY <1>9 DEF CopiedNames
<1>11. CASE \E p \in 1..Len(d) : d[p].string = k
  <2>1. PICK p \in 1..Len(d) : d[p].string = k
    BY <1>11
  <2>2. p \in 1..Len(b) /\ b[p].string = k
    BY <1>7, <1>10, <2>1
  <2>3. PICK g : g = GetObjectItem(d, k)
    OBVIOUS
  <2>4. g \in 1..Len(d) /\ g <= p /\ Fold[d[g].string] = Fold[k]
    <3>1. g # 0 /\ g \in 1..Len(d) /\ Fold[d[g].string] = Fold[k]
      BY <2>1, <2>3, ObjectItemType
    <3>2. ~(p \in 1..(g - 1))
      BY <2>1, <2>3, ObjectItemType
    <3> QED
      BY <1>6, <2>1, <3>1, <3>2
  <2>5. g = p
    <3>1. g \in 1..Len(b)
      BY <1>6, <2>2, <2>4
    <3>2. Fold[b[g].string] = Fold[b[p].string]
      BY <1>7, <2>2, <2>4, <3>1
    <3> QED
      BY <1>6, <2>2, <3>1, <3>2 DEF Distinct
  <2>6. e = ReplaceItem(d, new)
    BY <1>2, <1>3, <1>4, <1>6, <1>11 DEF WithCopy, DoesAttributeExist
  <2>7. /\ Len(e) = Len(d) /\ e[p] = new
        /\ \A i \in 1..Len(d) : i # p => e[i] = d[i]
    <3>1. /\ Len(ReplaceItem(d, new)) = Len(d)
          /\ GetObjectItem(d, k) # 0 => ReplaceItem(d, new)[GetObjectItem(d, k)] = new
          /\ \A i \in 1..Len(d) : i # GetObjectItem(d, k) => ReplaceItem(d, new)[i] = d[i]
      BY <1>5, ReplaceItemType
    <3>2. GetObjectItem(d, k) = p /\ p # 0
      BY <2>1, <2>3, <2>5
    <3> QED
      BY <2>6, <3>1, <3>2
  <2>8. \A i \in 1..Len(b) : e[i].string = b[i].string
    BY <1>5, <1>7, <2>2, <2>7
  <2>9. \A i \in 1..Len(b) : b[i].string \notin CopiedNames(s, m) => e[i] = b[i]
    BY <1>7, <1>8, <2>2, <2>7
  <2>10. ASSUME NEW j \in 1..m, Readable(s[j]) PROVE \E q \in 1..Len(e) : e[q] = Clone(s[j].string, s[j])
    <3>1. CASE j = m
      BY <1>1, <1>2, <2>1, <2>7, <3>1
    <3>2. CASE j # m
      <4>1. j \in 1..n
        BY <3>2
      <4>2. PICK q \in 1..Len(d) : d[q] = Clone(s[j].string, s[j])
        BY <1>7, <2>10, <4>1
      <4>3. d[q].string # k
        <5>1. s[j] \in Item /\ s[j].string # k
          BY <1>9, <4>1
        <5>2. s[j].string \in Keys
          BY <5>1 DEF Item
        <5> QED
          BY <2>10, <4>2, <5>1, <5>2, CloneType
      <4> QED
        BY <2>1, <2>7, <4>2, <4>3
    <3> QED
      BY <3>1, <3>2
  <2>11. \A i \in 1..Len(e) : i \in 1..Len(b) \/ e[i].string \in CopiedNames(s, m)
    BY <1>7, <1>8, <2>2, <2>7
  <2>12. Names(b) \cup CopiedNames(s, m) = Names(b) \cup CopiedNames(s, n)
    <3>1. k \in Names(b)
      BY <1>6, <2>2 DEF Names
    <3> QED
      BY <1>8, <3>1
  <2> QED
    BY <1>1, <1>3, <1>7, <2>7, <2>8, <2>9, <2>10, <2>11, <2>12 DEF MergedUpTo
<1>12. CASE ~\E p \in 1..Len(d) : d[p].string = k
  <2>1. e = AddItem(d, new)
    BY <1>2, <1>3, <1>6, <1>12 DEF WithCopy, DoesAttributeExist
  <2>2. /\ Len(e) = Len(d) + 1 /\ e[Len(d) + 1] = new
        /\ \A i \in 1..Len(d) : e[i] = d[i]
    <3>1. /\ Len(AddItem(d, new)) = Len(d) + 1 /\ AddItem(d, new)[Len(d) + 1] = new
          /\ \A i \in 1..Len(d) : AddItem(d, new)[i] = d[i]
      BY <1>5, AddItemType
    <3> QED
      BY <2>1, <3>1
  <2>3. \A i \in 1..Len(b) : e[i].string = b[i].string
    BY <1>7, <2>2
  <2>4. \A i \in 1..Len(b) : b[i].string \notin CopiedNames(s, m) => e[i] = b[i]
    BY <1>7, <1>8, <2>2
  <2>5. ASSUME NEW j \in 1..m, Readable(s[j]) PROVE \E q \in 1..Len(e) : e[q] = Clone(s[j].string, s[j])
    <3>1. CASE j = m
      <4>1. Len(d) + 1 \in 1..Len(e)
        BY <1>6, <2>2
      <4> QED
        BY <1>1, <1>2, <2>2, <3>1, <4>1
    <3>2. CASE j # m
      <4>1. j \in 1..n
        BY <3>2
      <4>2. PICK q \in 1..Len(d) : d[q] = Clone(s[j].string, s[j])
        BY <1>7, <2>5, <4>1
      <4>3. q \in 1..Len(e)
        BY <1>6, <2>2
      <4> QED
        BY <2>2, <4>2, <4>3
    <3> QED
      BY <3>1, <3>2
  <2>6. ASSUME NEW i \in 1..Len(e) PROVE i \in 1..Len(b) \/ e[i].string \in CopiedNames(s, m)
    <3>1. CASE i \in 1..Len(d)
      BY <1>7, <1>8, <2>2, <3>1
    <3>2. CASE i \notin 1..Len(d)
      <4>1. i = Len(d) + 1
        BY <1>6, <2>2, <3>2
      <4> QED
        BY <1>5, <1>8, <2>2, <4>1
    <3> QED
      BY <3>1, <3>2
  <2>7. Len(e) = Cardinality(Names(b) \cup CopiedNames(s, m))
    <3> DEFINE S == Names(b) \cup CopiedNames(s, n)
    <3>1. k \notin S
      <4>1. k \notin Names(b)
        BY <1>6, <1>7, <1>12 DEF Names
      <4> QED
        BY <1>10, <4>1
    <3>2. IsFiniteSet(S)
      <4>1. n <= Len(s)
        BY <1>6
      <4>2. IsFiniteSet(Names(b)) /\ IsFiniteSet(CopiedNames(s, n))
        <5>1. IsFiniteSet(Names(b)) /\ IsFiniteSet(NamesTo(s, n))
          BY <1>6, <4>1, AllNames, CountNames
        <5>2. CopiedNames(s, n) \subseteq NamesTo(s, n)
          BY DEF CopiedNames, NamesTo
        <5> QED
          BY <5>1, <5>2, FS_Subset
      <4> QED
        BY <4>2, FS_Union
    <3>3. Names(b) \cup CopiedNames(s, m) = S \cup {k}
      BY <1>8
    <3>4. Cardinality(S \cup {k}) = Cardinality(S) + 1
      <4> HIDE DEF S
      <4> QED
        BY <3>1, <3>2, FS_AddElement
    <3> QED
      BY <1>7, <2>2, <3>3, <3>4
  <2>8. Len(b) <= Len(e)
    BY <1>6, <1>7, <2>2
  <2> QED
    BY <1>1, <1>3, <2>3, <2>4, <2>5, <2>6, <2>7, <2>8 DEF MergedUpTo
<1> QED
  BY <1>11, <1>12

\* One item more, that does not parse.
LEMMA MergeLeavesOut ==
  ASSUME NEW d, NEW b, NEW s, NEW n \in Nat, NEW m, m = n + 1, ~Readable(s[m]),
         MergedUpTo(d, b, s, n)
  PROVE  MergedUpTo(d, b, s, m)
<1>1. \A j \in 1..m : Readable(s[j]) => j \in 1..n
  OBVIOUS
<1>2. \A j \in 1..n : j \in 1..m
  OBVIOUS
<1>3. CopiedNames(s, m) = CopiedNames(s, n)
  BY <1>1, <1>2 DEF CopiedNames
<1> QED
  BY <1>1, <1>3 DEF MergedUpTo

\* The loop of mergeJSONObjects preserves what it has reached.
LEMMA MergeStep ==
  ASSUME TypeOK, LoopType, MergeInv, [Next]_vars
  PROVE  MergeInv'
<1>1. ASSUME NEW k \in Keys, Attribute(k) PROVE MergeInv'
  <2>1. call = "none" /\ call' = "none"
    BY <1>1, SetterChanges DEF mergeVars, Attribute, SetInt, SetDouble, SetString, SetBool,
       IncrInt, IncrDouble, AddParamNumber, AddParamString, CopyItem, Call
  <2> QED
    BY <2>1 DEF MergeInv
<1>2. ASSUME NEW s \in Sources, MergeCall(s) PROVE MergeInv'
  <2>1. s \in Seq(Item) /\ doc \in Seq(Item)
    BY SourcesAssumption DEF TypeOK
  <2>2. doc' = doc /\ before' = doc /\ src' = s /\ item' - 1 = 0
    BY <1>2 DEF MergeCall
  <2> QED
    BY <2>1, <2>2, MergeBegins DEF MergeInv
<1>3. CASE MergeItem
  <2>1. /\ item \in 1..Len(src) /\ src[item].string # EMPTY /\ call = "merge"
        /\ item' = IF alive' THEN item + 1 ELSE item
        /\ call' = call /\ src' = src /\ before' = before
    BY <1>3, AtItemType DEF MergeItem, AtItem
  <2>2. CASE ~alive'
    <3>1. doc' = doc /\ item' = item
      BY <1>3, <2>1, <2>2, MergeChanges
    <3> QED
      BY <2>1, <3>1 DEF MergeInv
  <2>3. CASE alive'
    <3>1. doc' = WithCopy(doc, src[item].string, src[item]) /\ item' - 1 = item
      BY <1>3, <2>1, <2>3, MergeChanges
    <3>2. SUFFICES ASSUME Distinct(before), Cardinality(Names(src)) = Len(src)
                   PROVE  MergedUpTo(doc', before, src, item)
      BY <2>1, <3>1 DEF MergeInv
    <3>3. doc \in Seq(Item) /\ src \in Seq(Item) /\ before \in Seq(Item)
      BY DEF TypeOK
    <3>4. item - 1 \in Nat /\ item = (item - 1) + 1 /\ MergedUpTo(doc, before, src, item - 1)
      BY <2>1, <3>2 DEF MergeInv
    <3>5. CASE Readable(src[item])
      BY <2>1, <3>1, <3>2, <3>3, <3>4, <3>5, MergeGoesOn
    <3>6. CASE ~Readable(src[item])
      <4>1. doc' = doc
        BY <3>1, <3>6 DEF WithCopy
      <4> QED
        BY <3>4, <3>6, <4>1, MergeLeavesOut
    <3> QED
      BY <3>5, <3>6
  <2> QED
    BY <2>2, <2>3
<1>4. CASE MergeUnnamed \/ UNCHANGED vars
  BY <1>4 DEF MergeUnnamed, vars, MergeInv
<1>5. CASE MergeReturn
  BY <1>5 DEF MergeReturn, MergeInv
<1> QED
  BY <1>1, <1>2, <1>3, <1>4, <1>5 DEF Next

\* The loop invariant of a merge, in every state of every run.
THEOREM MergeInvariance == Spec => []MergeInv
<1>1. Init => MergeInv
  BY DEF Init, MergeInv
<1>2. TypeOK /\ LoopType /\ MergeInv /\ [Next]_vars => MergeInv'
  BY MergeStep
<1> QED
  BY <1>1, <1>2, TypeInvariance, PTL DEF Spec

\* A merge that reaches the end of the source ends with every attribute of it that
\* parses once it is printed, every other one of the target in its place and as it
\* was, and nothing else (mergeJSONObjects).
THEOREM MergeEndsRight == Spec => []MergeAgrees
<1>1. ASSUME TypeOK, LoopType, MergeInv, call = "merge", item > Len(src), Distinct(before),
             Cardinality(Names(src)) = Len(src)
      PROVE  /\ \A i \in DOMAIN src :
                  Readable(src[i]) => Clone(src[i].string, src[i]) \in ToSet(doc)
             /\ \A i \in DOMAIN before :
                  before[i].string \notin CopiedNames(src, Len(src)) => doc[i] = before[i]
             /\ Len(doc) = Cardinality(Names(before) \cup CopiedNames(src, Len(src)))
  <2>1. doc \in Seq(Item) /\ src \in Seq(Item) /\ before \in Seq(Item)
    BY <1>1 DEF TypeOK
  <2>2. item - 1 = Len(src)
    BY <1>1, <2>1 DEF LoopType
  <2>3. MergedUpTo(doc, before, src, Len(src))
    BY <1>1, <2>2 DEF MergeInv
  <2>4. DOMAIN src = 1..Len(src) /\ DOMAIN before = 1..Len(before) /\ DOMAIN doc = 1..Len(doc)
    BY <2>1, AllNames
  <2>5. ASSUME NEW i \in DOMAIN src, Readable(src[i])
        PROVE  Clone(src[i].string, src[i]) \in ToSet(doc)
    <3>1. PICK p \in 1..Len(doc) : doc[p] = Clone(src[i].string, src[i])
      BY <2>3, <2>4, <2>5 DEF MergedUpTo
    <3> QED
      BY <2>4, <3>1 DEF ToSet
  <2> QED
    BY <2>3, <2>4, <2>5 DEF MergedUpTo
<1>2. TypeOK /\ LoopType /\ MergeInv => MergeAgrees
  BY <1>1 DEF MergeAgrees
<1> QED
  BY <1>2, TypeInvariance, MergeInvariance, PTL
===============================================================================
