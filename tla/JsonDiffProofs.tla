---------------------------- MODULE JsonDiffProofs ----------------------------
(***************************************************************************)
(* Proofs about JsonDiff: its types, and that comparable objects are       *)
(* compared without reading through a null pointer.                        *)
(***************************************************************************)
EXTENDS JsonDiff, ListLemmas

Pointers == Seq(Items) \ {<<>>}

Frame == [obj1 : Pointers, obj2 : Pointers, i : Nat]

\* A call is at an item of its first object, or behind the last one.
InPlace(f) == f.i \in 1..(Len(Head(f.obj1).child) + 1)

TypeInv ==
  /\ root1 \in Objects /\ root2 \in Objects /\ state \in {"run", "done", "dead"}
  /\ JSONObjDiff \in Seq(Entry)
  /\ stack \in Seq(Frame) /\ (state = "run" => stack # <<>>)
  /\ \A n \in 1..Len(stack) : InPlace(stack[n])

\* Each call compares two comparable objects.
Paired(f) ==
  /\ <<Head(f.obj1), Head(f.obj2)>> \in Comparable
  /\ Head(f.obj1).type = "Object" /\ Head(f.obj2).type = "Object"

StackInv ==
  <<root1, root2>> \in Comparable =>
    state # "dead" /\ \A n \in 1..Len(stack) : Paired(stack[n])

(***************************************************************************)
(* Items and pointers to them.                                             *)
(***************************************************************************)
LEMMA ItemType ==
  ASSUME NEW it \in Items
  PROVE  /\ it.string \in Names \cup {NULL} /\ it.type \in Types
         /\ it.valuedouble \in Numbers /\ it.child \in Seq(Items)
         /\ it.type = "String" => it.valuestring \in Texts
         /\ it.type # "String" => it.valuestring = NULL
BY ItemsAssumption

\* cJSON_GetObjectItem returns a pointer to an item with the name, in any case, or
\* a null pointer when there is none.
LEMMA Lookup ==
  ASSUME NEW obj \in Pointers, NEW k,
         NEW items, items = Head(obj).child
  PROVE  /\ Head(obj) \in Items /\ items \in Seq(Items)
         /\ GetObjectItem(obj, k) \in Seq(Items)
         /\ GetObjectItem(obj, k) # <<>> =>
              /\ GetObjectItem(obj, k) \in Pointers
              /\ \E i \in 1..Len(items) :
                   /\ Head(GetObjectItem(obj, k)) = items[i]
                   /\ items[i].string # NULL /\ Fold[items[i].string] = Fold[k]
         /\ (\E i \in 1..Len(items) : items[i].string # NULL /\ Fold[items[i].string] = Fold[k])
              => GetObjectItem(obj, k) # <<>>
<1> DEFINE I == {i \in 1..Len(items) : items[i].string # NULL /\ Fold[items[i].string] = Fold[k]}
           n == IF I # {} THEN Min(I) ELSE 0
<1>1. Head(obj) \in Items /\ items \in Seq(Items) /\ Len(items) \in Nat
  <2>1. Head(obj) \in Items
    BY DEF Pointers
  <2> QED
    BY <2>1, ItemType
<1>2. GetObjectItem(obj, k) = IF n = 0 THEN <<>> ELSE SubSeq(items, n, Len(items))
  <2>1. SelectInSeq(Head(obj).child, LAMBDA it : it.string # NULL /\ Fold[it.string] = Fold[k]) = n
    BY DEF SelectInSeq
  <2> HIDE DEF n
  <2> QED
    BY <2>1, Zenon DEF GetObjectItem
<1>3. CASE I = {}
  <2>1. GetObjectItem(obj, k) = <<>>
    BY <1>2, <1>3
  <2>2. ~\E i \in 1..Len(items) : items[i].string # NULL /\ Fold[items[i].string] = Fold[k]
    BY <1>3
  <2>3. <<>> \in Seq(Items)
    OBVIOUS
  <2> QED
    BY <1>1, <2>1, <2>2, <2>3
<1>4. CASE I # {}
  <2>1. n \in I
    <3>1. I \subseteq Nat
      BY <1>1
    <3>2. \E m \in I : \A j \in I : m <= j
      <4> HIDE DEF I
      <4> QED
        BY <1>4, <3>1, Least
    <3> HIDE DEF I
    <3>3. Min(I) \in I
      BY <3>2 DEF Min
    <3> QED
      BY <1>4, <3>3
  <2>2. n \in 1..Len(items) /\ items[n].string # NULL /\ Fold[items[n].string] = Fold[k]
    BY <2>1
  <2> HIDE DEF n, I
  <2>3. GetObjectItem(obj, k) = SubSeq(items, n, Len(items))
    BY <1>1, <1>2, <2>2
  <2>4. /\ SubSeq(items, n, Len(items)) \in Pointers
        /\ Head(SubSeq(items, n, Len(items))) = items[n]
    <3>1. SubSeq(items, n, Len(items)) \in Seq(Items) /\ Len(SubSeq(items, n, Len(items))) >= 1
      BY <1>1, <2>2
    <3>2. SubSeq(items, n, Len(items))[1] = items[n]
      BY <1>1, <2>2
    <3> DEFINE rest == SubSeq(items, n, Len(items))
    <3> HIDE DEF rest
    <3>3. rest \in Seq(Items) /\ Len(rest) >= 1 /\ rest[1] = items[n]
      BY <3>1, <3>2 DEF rest
    <3>4. rest # <<>> /\ Head(rest) = rest[1]
      BY <3>3
    <3> QED
      BY <3>3, <3>4 DEF Pointers, rest
  <2> QED
    BY <1>1, <2>2, <2>3, <2>4 DEF Pointers
<1> QED
  BY <1>3, <1>4

LEMMA FrameType ==
  ASSUME NEW f \in Frame
  PROVE  /\ f.obj1 \in Pointers /\ f.obj2 \in Pointers /\ f.i \in Nat
         /\ Head(f.obj1) \in Items /\ Head(f.obj2) \in Items
         /\ Head(f.obj1).child \in Seq(Items) /\ Head(f.obj2).child \in Seq(Items)
<1>1. f.obj1 \in Pointers /\ f.obj2 \in Pointers /\ f.i \in Nat
  BY DEF Frame
<1>2. Head(f.obj1) \in Items /\ Head(f.obj2) \in Items
  BY <1>1 DEF Pointers
<1> QED
  BY <1>1, <1>2, ItemType

\* The innermost call and its item.
LEMMA TopType ==
  ASSUME TypeInv, state = "run"
  PROVE  /\ Top \in Frame /\ Top = stack[1] /\ InPlace(Top) /\ Len(stack) \in Nat \ {0}
         /\ Attributes \in Seq(Items) /\ Attributes = Head(Top.obj1).child
         /\ Top.i <= Len(Attributes) => Top.i \in 1..Len(Attributes) /\ item1 \in Items
<1>1. stack \in Seq(Frame) /\ stack # <<>> /\ \A n \in 1..Len(stack) : InPlace(stack[n])
  BY DEF TypeInv
<1>2. Top = stack[1] /\ 1 \in 1..Len(stack) /\ Top \in Frame /\ Len(stack) \in Nat \ {0}
  BY <1>1 DEF Top
<1>3. InPlace(Top)
  BY <1>1, <1>2
<1>4. Attributes \in Seq(Items) /\ Top.i \in Nat
  BY <1>2, FrameType DEF Attributes
<1>5. ASSUME Top.i <= Len(Attributes)
      PROVE  Top.i \in 1..Len(Attributes) /\ item1 \in Items
  <2>1. Top.i \in 1..Len(Attributes)
    BY <1>3, <1>4, <1>5 DEF InPlace
  <2> QED
    BY <1>4, <2>1 DEF item1
<1> QED
  BY <1>2, <1>3, <1>4, <1>5 DEF Attributes

(***************************************************************************)
(* The stack.                                                              *)
(***************************************************************************)
\* A call on top of others.
LEMMA Pushed ==
  ASSUME NEW S, NEW s \in Seq(S), NEW f \in S
  PROVE  /\ <<f>> \o s \in Seq(S) /\ <<f>> \o s # <<>>
         /\ \A n \in 1..Len(<<f>> \o s) :
              (<<f>> \o s)[n] = f \/ \E m \in 1..Len(s) : (<<f>> \o s)[n] = s[m]
<1> DEFINE t == <<f>> \o s
<1>1. t \in Seq(S) /\ Len(t) = Len(s) + 1 /\ t[1] = f /\ Len(s) \in Nat
  OBVIOUS
<1>2. \A n \in 1..Len(t) : n # 1 => n - 1 \in 1..Len(s) /\ t[n] = s[n - 1]
  OBVIOUS
<1> HIDE DEF t
<1>3. t # <<>>
  BY <1>1
<1> QED
  BY <1>1, <1>2, <1>3 DEF t

LEMMA TailType ==
  ASSUME NEW S, NEW s \in Seq(S), s # <<>>
  PROVE  Tail(s) \in Seq(S) /\ \A n \in 1..Len(Tail(s)) : \E m \in 1..Len(s) : Tail(s)[n] = s[m]
<1>1. Tail(s) \in Seq(S) /\ Len(Tail(s)) = Len(s) - 1 /\ Len(s) \in Nat
  OBVIOUS
<1>2. \A n \in 1..Len(Tail(s)) : n + 1 \in 1..Len(s) /\ Tail(s)[n] = s[n + 1]
  OBVIOUS
<1> QED
  BY <1>1, <1>2

Advanced == [Top EXCEPT !.i = @ + 1]

\* The stack with the next item on top.
LEMMA AdvancedType ==
  ASSUME TypeInv, AtItem
  PROVE  /\ Advanced \in Frame /\ InPlace(Advanced)
         /\ Advanced.obj1 = Top.obj1 /\ Advanced.obj2 = Top.obj2
         /\ <<Advanced>> \o Tail(stack) \in Seq(Frame)
         /\ <<Advanced>> \o Tail(stack) # <<>>
         /\ \A n \in 1..Len(<<Advanced>> \o Tail(stack)) :
              \/ (<<Advanced>> \o Tail(stack))[n] = Advanced
              \/ \E m \in 1..Len(stack) : (<<Advanced>> \o Tail(stack))[n] = stack[m]
<1>1. /\ state = "run" /\ Top \in Frame /\ Top.i \in 1..Len(Attributes)
      /\ Attributes = Head(Top.obj1).child /\ Attributes \in Seq(Items)
  BY TopType DEF AtItem
<1>2. /\ Advanced \in Frame /\ Advanced.obj1 = Top.obj1 /\ Advanced.obj2 = Top.obj2
      /\ Advanced.i = Top.i + 1
  BY <1>1 DEF Advanced, Frame
<1>3. InPlace(Advanced)
  BY <1>1, <1>2 DEF InPlace
<1>4. stack \in Seq(Frame) /\ stack # <<>>
  BY <1>1 DEF TypeInv
<1>5. /\ Tail(stack) \in Seq(Frame)
      /\ \A n \in 1..Len(Tail(stack)) : \E m \in 1..Len(stack) : Tail(stack)[n] = stack[m]
  BY <1>4, TailType
<1>6. /\ <<Advanced>> \o Tail(stack) \in Seq(Frame)
      /\ <<Advanced>> \o Tail(stack) # <<>>
      /\ \A n \in 1..Len(<<Advanced>> \o Tail(stack)) :
           \/ (<<Advanced>> \o Tail(stack))[n] = Advanced
           \/ \E m \in 1..Len(Tail(stack)) : (<<Advanced>> \o Tail(stack))[n] = Tail(stack)[m]
  <2>1. PICK fr \in Frame : fr = Advanced
    BY <1>2
  <2>2. PICK rest \in Seq(Frame) : rest = Tail(stack)
    BY <1>5
  <2>3. /\ <<fr>> \o rest \in Seq(Frame) /\ <<fr>> \o rest # <<>>
        /\ \A n \in 1..Len(<<fr>> \o rest) :
             (<<fr>> \o rest)[n] = fr \/ \E m \in 1..Len(rest) : (<<fr>> \o rest)[n] = rest[m]
    <3> HIDE DEF Frame
    <3> QED
      BY Pushed
  <2> QED
    BY <2>1, <2>2, <2>3, Zenon
<1> QED
  BY <1>2, <1>3, <1>5, <1>6

(***************************************************************************)
(* What is said.                                                           *)
(***************************************************************************)
LEMMA Singleton ==
  ASSUME NEW S, NEW x \in S
  PROVE  <<x>> \in Seq(S)
OBVIOUS

LEMMA Pair ==
  ASSUME NEW S, NEW x \in S, NEW y \in S
  PROVE  <<x, y>> \in Seq(S)
OBVIOUS

LEMMA ArrowType ==
  ASSUME NEW from \in Word, NEW to \in Word
  PROVE  Arrow(from, to) \in Seq(Seq(Word))
BY Pair, Singleton DEF Arrow

LEMMA ChangeType ==
  ASSUME NEW it1 \in Items, NEW it2 \in Items, ~Throws(it1, it2)
  PROVE  Change(it1, it2) \in Seq(Seq(Word))
<1>1. /\ Printed[it1.valuedouble] \in Word /\ Printed[it2.valuedouble] \in Word
      /\ "True" \in Word /\ "False" \in Word /\ "NULL" \in Word
  BY ItemType DEF Word
<1>2. it1.type = "String" => it1.valuestring \in Word /\ it2.valuestring \in Word
  BY ItemType, ValuesAssumption DEF Throws, Word
<1>3. <<>> \in Seq(Seq(Word))
  OBVIOUS
<1> QED
  BY <1>1, <1>2, <1>3, ArrowType, Zenon DEF Change

LEMMA EntriesType ==
  ASSUME NEW k \in Names, NEW index \in Nat \cup {NoIndex}, NEW texts \in Seq(Seq(Word))
  PROVE  Entries(k, index, texts) \in Seq(Entry)
<1>1. \A n \in 1..Len(texts) : texts[n] \in Seq(Word)
  OBVIOUS
<1>2. \A n \in 1..Len(texts) : [string |-> k, index |-> index, text |-> texts[n]] \in Entry
  BY <1>1 DEF Entry
<1>3. Len(texts) \in Nat /\ DOMAIN texts = 1..Len(texts)
  OBVIOUS
<1> QED
  BY <1>2, <1>3 DEF Entries

LEMMA SaidType ==
  ASSUME TypeInv, NEW entries \in Seq(Entry), Say(entries)
  PROVE  JSONObjDiff' \in Seq(Entry)
BY DEF TypeInv, Say

\* What is put together from sequences over a set is one.
LEMMA FlattenType ==
  ASSUME NEW E, NEW seqs \in Seq(Seq(E))
  PROVE  FlattenSeq(seqs) \in Seq(E)
<1> DEFINE N == Len(seqs)
           g == CHOOSE f : f = [i \in 1..Len(seqs) |-> IF i = 1 THEN seqs[i] ELSE f[i-1] \o seqs[i]]
<1>1. N \in Nat
  OBVIOUS
<1>2. FlattenSeq(seqs) = IF N = 0 THEN seqs ELSE g[N]
  BY Zenon DEF FlattenSeq
<1>3. Joined(g, seqs)
  <2>1. \E f : Joined(f, seqs)
    BY <1>1, JoinedExists
  <2> QED
    BY <2>1, Zenon DEF Joined
<1> HIDE DEF g
<1>4. CASE N = 0
  BY <1>2, <1>4
<1>5. CASE N # 0
  BY <1>1, <1>2, <1>3, <1>5, JoinedType
<1> QED
  BY <1>4, <1>5

\* The elements of two arrays.
LEMMA CommonType ==
  ASSUME TypeInv, AtItem, NEW item2 \in Items
  PROVE  /\ Common(item2) \subseteq DOMAIN item1.child \cap DOMAIN item2.child
         /\ \E len \in Nat : Common(item2) = 1..len
         /\ \A n \in Common(item2) : /\ n \in Nat /\ n >= 1
                                     /\ item1.child[n] \in Items /\ item2.child[n] \in Items
<1>1. item1 \in Items
  BY TopType DEF AtItem
<1>2. item1.child \in Seq(Items) /\ item2.child \in Seq(Items)
  BY <1>1, ItemType
<1> QED
  BY <1>2 DEF Common

\* The entries of two arrays.
LEMMA ArrayEntriesType ==
  ASSUME TypeInv, AtItem, Named, NEW item2 \in Items,
         \A n \in Common(item2) : ~Throws(item1.child[n], item2.child[n])
  PROVE  ArrayEntries(item2) \in Seq(Entry)
<1> DEFINE e(n) == Entries(item1.string, n - 1, Change(item1.child[n], item2.child[n]))
           es == [n \in Common(item2) |-> e(n)]
<1>1. item1.string \in Names
  BY TopType, ItemType DEF AtItem, Named
<1>2. ASSUME NEW n \in Common(item2) PROVE e(n) \in Seq(Entry)
  <2>1. /\ item1.child[n] \in Items /\ item2.child[n] \in Items
        /\ ~Throws(item1.child[n], item2.child[n]) /\ n - 1 \in Nat
    BY <1>2, CommonType
  <2>2. Change(item1.child[n], item2.child[n]) \in Seq(Seq(Word))
    BY <2>1, ChangeType
  <2> QED
    BY <1>1, <2>1, <2>2, EntriesType
<1> HIDE DEF e
<1>3. es \in Seq(Seq(Entry))
  <2>1. PICK len \in Nat : Common(item2) = 1..len
    BY CommonType
  <2> QED
    BY <1>2, <2>1
<1>4. ArrayEntries(item2) = FlattenSeq(es)
  BY DEF ArrayEntries, e
<1> HIDE DEF es
<1> QED
  BY <1>3, <1>4, FlattenType

(***************************************************************************)
(* Types.                                                                  *)
(***************************************************************************)
\* The stack when the loop goes on to the next item.
LEMMA NextItemStep ==
  ASSUME TypeInv, AtItem, NextItem
  PROVE  /\ stack' \in Seq(Frame) /\ stack' # <<>>
         /\ \A n \in 1..Len(stack') : InPlace(stack'[n])
         /\ (\A n \in 1..Len(stack) : Paired(stack[n])) =>
              \A n \in 1..Len(stack') : Paired(stack'[n])
<1>1. stack' = <<Advanced>> \o Tail(stack)
  BY DEF NextItem, Advanced
<1>2. /\ InPlace(Advanced) /\ Advanced.obj1 = Top.obj1 /\ Advanced.obj2 = Top.obj2
      /\ stack' \in Seq(Frame) /\ stack' # <<>>
      /\ \A n \in 1..Len(stack') :
           stack'[n] = Advanced \/ \E m \in 1..Len(stack) : stack'[n] = stack[m]
  BY <1>1, AdvancedType
<1>3. Top = stack[1] /\ 1 \in 1..Len(stack) /\ \A n \in 1..Len(stack) : InPlace(stack[n])
  BY TopType DEF AtItem, TypeInv
<1>4. Paired(Top) => Paired(Advanced)
  BY <1>2 DEF Paired
<1> QED
  BY <1>2, <1>3, <1>4

\* The stack when the loop of an object in an object begins.
LEMMA CallStep ==
  ASSUME TypeInv, AtItem, NEW o1 \in Pointers, NEW o2 \in Pointers,
         stack' = << Call(o1, o2) >> \o (<<Advanced>> \o Tail(stack))
  PROVE  /\ stack' \in Seq(Frame) /\ stack' # <<>>
         /\ \A n \in 1..Len(stack') : InPlace(stack'[n])
         /\ (\A n \in 1..Len(stack) : Paired(stack[n])) /\ Paired(Call(o1, o2)) =>
              \A n \in 1..Len(stack') : Paired(stack'[n])
<1>1. Call(o1, o2) \in Frame /\ InPlace(Call(o1, o2))
  <2>1. /\ Call(o1, o2) \in Frame /\ Call(o1, o2).i = 1
    BY DEF Call, Frame
  <2>2. Len(Head(Call(o1, o2).obj1).child) \in Nat
    BY <2>1, FrameType
  <2> QED
    BY <2>1, <2>2 DEF InPlace
<1>2. PICK c \in Frame : c = Call(o1, o2)
  BY <1>1
<1>3. PICK rest \in Seq(Frame) : rest = <<Advanced>> \o Tail(stack)
  BY AdvancedType
<1>4. /\ stack' \in Seq(Frame) /\ stack' # <<>>
      /\ \A n \in 1..Len(stack') :
           stack'[n] = c \/ \E m \in 1..Len(rest) : stack'[n] = rest[m]
  <2> HIDE DEF Frame
  <2>1. stack' = <<c>> \o rest
    BY <1>2, <1>3
  <2>2. /\ <<c>> \o rest \in Seq(Frame) /\ <<c>> \o rest # <<>>
        /\ \A n \in 1..Len(<<c>> \o rest) :
             (<<c>> \o rest)[n] = c \/ \E m \in 1..Len(rest) : (<<c>> \o rest)[n] = rest[m]
    BY Pushed
  <2> QED
    BY <2>1, <2>2
<1>5. /\ InPlace(Advanced) /\ Advanced.obj1 = Top.obj1 /\ Advanced.obj2 = Top.obj2
      /\ \A n \in 1..Len(rest) :
           rest[n] = Advanced \/ \E m \in 1..Len(stack) : rest[n] = stack[m]
  BY <1>3, AdvancedType
<1>6. Top = stack[1] /\ 1 \in 1..Len(stack) /\ \A n \in 1..Len(stack) : InPlace(stack[n])
  BY TopType DEF AtItem, TypeInv
<1>7. Paired(Top) => Paired(Advanced)
  BY <1>5 DEF Paired
<1>8. \A n \in 1..Len(stack') : InPlace(stack'[n])
  BY <1>1, <1>2, <1>4, <1>5, <1>6, ZenonT(60)
<1>9. (\A n \in 1..Len(stack) : Paired(stack[n])) /\ Paired(Call(o1, o2)) =>
        \A n \in 1..Len(stack') : Paired(stack'[n])
  BY <1>2, <1>4, <1>5, <1>6, <1>7, ZenonT(60)
<1> QED
  BY <1>4, <1>8, <1>9

\* What a recursive call is made on: item1's name is there in the first object.
LEMMA CalledOn ==
  ASSUME TypeInv, AtItem, Named
  PROVE  /\ GetObjectItem(Top.obj1, item1.string) \in Pointers
         /\ Found \in Seq(Items) /\ (Found # <<>> => Found \in Pointers /\ Head(Found) \in Items)
         /\ item1 \in Items /\ item1.string \in Names
         /\ Found # <<>> => Head(Found).string \in Names
<1>1. /\ Top \in Frame /\ Attributes = Head(Top.obj1).child /\ Top.i \in 1..Len(Attributes)
      /\ item1 \in Items
  BY TopType DEF AtItem
<1>2. item1.string \in Names /\ item1.string # NULL
  BY <1>1, ItemType DEF Named
<1>3. PICK o1 \in Pointers, o2 \in Pointers : o1 = Top.obj1 /\ o2 = Top.obj2
  BY <1>1, FrameType
<1>4. PICK k \in Names : k = item1.string
  BY <1>2
<1>5. GetObjectItem(o1, k) \in Pointers
  <2>1. PICK its : its = Head(o1).child
    OBVIOUS
  <2>2. its[Top.i] = item1 /\ Top.i \in 1..Len(its)
    BY <1>1, <1>3, <2>1 DEF item1
  <2>3. its[Top.i].string # NULL /\ Fold[its[Top.i].string] = Fold[k]
    BY <1>2, <1>4, <2>2
  <2> QED
    BY <2>1, <2>2, <2>3, Lookup
<1>6. /\ GetObjectItem(o2, k) \in Seq(Items)
      /\ GetObjectItem(o2, k) # <<>> =>
           /\ GetObjectItem(o2, k) \in Pointers /\ Head(GetObjectItem(o2, k)) \in Items
           /\ Head(GetObjectItem(o2, k)).string \in Names
  <2> DEFINE its == Head(o2).child
             ptr == GetObjectItem(o2, k)
  <2> HIDE DEF its, ptr
  <2>1. its \in Seq(Items) /\ ptr \in Seq(Items)
    BY Lookup DEF its, ptr
  <2>2. ptr # <<>> =>
          ptr \in Pointers /\ \E i \in 1..Len(its) : Head(ptr) = its[i] /\ its[i].string # NULL
    BY Lookup DEF its, ptr
  <2>3. \A i \in 1..Len(its) : its[i] \in Items
    BY <2>1
  <2> QED
    BY <2>1, <2>2, <2>3, ItemType DEF ptr
<1> QED
  BY <1>1, <1>2, <1>3, <1>4, <1>5, <1>6 DEF Found

\* One step per branch of the loop.
LEMMA TypeStep ==
  ASSUME TypeInv, [Next]_vars
  PROVE  TypeInv'
<1> USE DEF Goes
<1>1. CASE UNCHANGED vars
  BY <1>1 DEF TypeInv, vars
<1>2. CASE DiffUnnamed
  BY <1>2 DEF DiffUnnamed, TypeInv, vars
<1>3. CASE SkipArray
  <2>1. /\ stack' \in Seq(Frame) /\ stack' # <<>>
        /\ \A n \in 1..Len(stack') : InPlace(stack'[n])
    BY <1>3, NextItemStep DEF SkipArray
  <2> QED
    BY <1>3, <2>1 DEF SkipArray, TypeInv
<1>4. CASE DiffArray
  <2> DEFINE item2 == Head(Found)
  <2>0. AtItem /\ Named
    BY <1>4 DEF DiffArray
  <2>1. CASE Dies
    BY <2>1 DEF Dies, TypeInv
  <2>2. ASSUME NEW entries \in Seq(Entry), Say(entries), NextItem, Goes PROVE TypeInv'
    <3>1. /\ stack' \in Seq(Frame) /\ stack' # <<>>
          /\ \A n \in 1..Len(stack') : InPlace(stack'[n])
      BY <2>0, <2>2, NextItemStep
    <3>2. JSONObjDiff' \in Seq(Entry)
      BY <2>2, SaidType
    <3> QED
      BY <2>2, <3>1, <3>2 DEF TypeInv
  <2>3. CASE ~Dies
    <3>1. Found # <<>>
      BY <1>4, <2>3 DEF DiffArray
    <3>2. item2 \in Items /\ item2.string \in Names
      BY <2>0, <3>1, CalledOn
    <3>3. CASE item2.type # "Array"
      <4>1. << <<"Type mismatch">> >> \in Seq(Seq(Word))
        <5>1. "Type mismatch" \in Word
          BY DEF Word
        <5>2. <<"Type mismatch">> \in Seq(Word)
          BY <5>1, Singleton
        <5> QED
          BY <5>2, Singleton
      <4>2. Entries(item2.string, NoIndex, << <<"Type mismatch">> >>) \in Seq(Entry)
        BY <3>2, <4>1, EntriesType
      <4>3. /\ Say(Entries(item2.string, NoIndex, << <<"Type mismatch">> >>))
            /\ NextItem /\ Goes
        BY <1>4, <3>1, <3>3 DEF DiffArray
      <4> QED
        BY <2>2, <4>2, <4>3
    <3>4. CASE item2.type = "Array"
      <4>1. /\ \A n \in Common(item2) : ~Throws(item1.child[n], item2.child[n])
            /\ Say(ArrayEntries(item2)) /\ NextItem /\ Goes
        BY <1>4, <2>3, <3>1, <3>4 DEF DiffArray
      <4>2. ArrayEntries(item2) \in Seq(Entry)
        BY <2>0, <3>2, <4>1, ArrayEntriesType
      <4> QED
        BY <2>2, <4>1, <4>2
    <3> QED
      BY <3>3, <3>4
  <2> QED
    BY <2>1, <2>3
<1>5. CASE DiffObject
  <2> DEFINE obj1 == GetObjectItem(Top.obj1, item1.string)
             rest == << [Top EXCEPT !.i = @ + 1] >> \o Tail(stack)
  <2>1. AtItem /\ Named /\ UNCHANGED <<JSONObjDiff, root1, root2, state>>
    BY <1>5 DEF DiffObject
  <2>2. /\ stack' \in Seq(Frame) /\ stack' # <<>>
        /\ \A n \in 1..Len(stack') : InPlace(stack'[n])
    <3>1. CASE Found = <<>>
      <4>1. NextItem
        BY <1>5, <3>1 DEF DiffObject, NextItem
      <4> QED
        BY <2>1, <4>1, NextItemStep
    <3>2. CASE Found # <<>>
      <4>1. stack' = << Call(obj1, Found) >> \o (<<Advanced>> \o Tail(stack))
        BY <1>5, <3>2 DEF DiffObject, Advanced
      <4>2. obj1 \in Pointers /\ Found \in Pointers
        BY <2>1, <3>2, CalledOn
      <4> HIDE DEF obj1
      <4> QED
        BY <2>1, <4>1, <4>2, CallStep
    <3> QED
      BY <3>1, <3>2
  <2> QED
    BY <2>1, <2>2 DEF TypeInv
<1>6. CASE DiffScalar
  <2>0. AtItem /\ Named
    BY <1>6 DEF DiffScalar
  <2>1. CASE Dies
    BY <2>1 DEF Dies, TypeInv
  <2>2. CASE ~Dies
    <3>1. NextItem /\ Goes
      BY <1>6, <2>2 DEF DiffScalar
    <3>2. JSONObjDiff' \in Seq(Entry)
      <4>1. CASE Found = <<>>
        BY <1>6, <4>1 DEF DiffScalar, TypeInv
      <4>2. CASE Found # <<>>
        <5>1. /\ ~Throws(item1, Head(Found))
              /\ Say(Entries(item1.string, NoIndex, Change(item1, Head(Found))))
          BY <1>6, <2>2, <4>2 DEF DiffScalar
        <5>2. item1 \in Items /\ Head(Found) \in Items /\ item1.string \in Names
          BY <2>0, <4>2, CalledOn
        <5>3. Entries(item1.string, NoIndex, Change(item1, Head(Found))) \in Seq(Entry)
          BY <5>1, <5>2, ChangeType, EntriesType
        <5> QED
          BY <5>1, <5>3, SaidType
      <4> QED
        BY <4>1, <4>2
    <3>3. /\ stack' \in Seq(Frame) /\ stack' # <<>>
          /\ \A n \in 1..Len(stack') : InPlace(stack'[n])
      BY <2>0, <3>1, NextItemStep
    <3> QED
      BY <3>1, <3>2, <3>3 DEF TypeInv
  <2> QED
    BY <2>1, <2>2
<1>7. CASE DiffAdded
  <2> DEFINE text == IF item1.valuestring = NULL THEN <<>> ELSE <<item1.valuestring, "was added">>
  <2>1. AtItem /\ Named /\ NextItem /\ Goes /\ Say(Entries(item1.string, NoIndex, <<text>>))
    BY <1>7 DEF DiffAdded
  <2>2. item1 \in Items /\ item1.string \in Names
    BY <2>1, CalledOn
  <2>3. text \in Seq(Word)
    <3>1. item1.valuestring = NULL \/ item1.valuestring \in Word
      BY <2>2, ItemType DEF Word
    <3>2. "was added" \in Word
      BY DEF Word
    <3>3. <<>> \in Seq(Word)
      OBVIOUS
    <3> QED
      BY <3>1, <3>2, <3>3, Pair
  <2> HIDE DEF text
  <2>4. Entries(item1.string, NoIndex, <<text>>) \in Seq(Entry)
    <3>1. <<text>> \in Seq(Seq(Word))
      BY <2>3
    <3> QED
      BY <2>2, <3>1, EntriesType
  <2>5. JSONObjDiff' \in Seq(Entry)
    BY <2>1, <2>4, SaidType
  <2>6. /\ stack' \in Seq(Frame) /\ stack' # <<>>
        /\ \A n \in 1..Len(stack') : InPlace(stack'[n])
    BY <2>1, NextItemStep
  <2> QED
    BY <2>1, <2>5, <2>6 DEF TypeInv
<1>8. CASE Return
  <2>1. stack \in Seq(Frame) /\ stack # <<>> /\ \A n \in 1..Len(stack) : InPlace(stack[n])
    BY <1>8 DEF Return, TypeInv
  <2>2. /\ stack' = Tail(stack) /\ state' = (IF Tail(stack) = <<>> THEN "done" ELSE "run")
        /\ UNCHANGED <<root1, root2, JSONObjDiff>>
    BY <1>8 DEF Return
  <2>3. /\ stack' \in Seq(Frame)
        /\ \A n \in 1..Len(stack') : \E m \in 1..Len(stack) : stack'[n] = stack[m]
    <3> HIDE DEF Frame
    <3> QED
      BY <2>1, <2>2, TailType
  <2>4. state' \in {"run", "done", "dead"} /\ (state' = "run" => stack' # <<>>)
    BY <2>2
  <2> QED
    BY <2>1, <2>2, <2>3, <2>4 DEF TypeInv
<1> QED
  BY <1>1, <1>2, <1>3, <1>4, <1>5, <1>6, <1>7, <1>8 DEF Next, Step

(***************************************************************************)
(* Comparable objects.                                                     *)
(***************************************************************************)
LEMMA SameTypeOf ==
  ASSUME NEW it1 \in Items, NEW it2 \in Items, SameType(it1, it2)
  PROVE  /\ ~Throws(it1, it2)
         /\ it1.type \in {"Array", "Object"} => it2.type = it1.type
<1>1. it1.type \notin Bools => it2.type = it1.type
  BY DEF SameType
<1> QED
  BY <1>1, ItemType, ValuesAssumption DEF Throws, Bools

\* Where names are unambiguous, the item fetched regardless of case is the one
\* that is asked for.
LEMMA Fetched ==
  ASSUME NEW obj \in Pointers, Unambiguous(Head(obj)), NEW k \in Names,
         NEW i \in DOMAIN Head(obj).child, Head(obj).child[i].string = k
  PROVE  GetObjectItem(obj, k) \in Pointers /\ Head(GetObjectItem(obj, k)) = Head(obj).child[i]
<1> DEFINE its == Head(obj).child
           ptr == GetObjectItem(obj, k)
<1>1. \A j \in DOMAIN its : Fold[its[j].string] = Fold[k] => i = j
  BY DEF Unambiguous
<1>2. i \in 1..Len(its) /\ its[i].string # NULL /\ Fold[its[i].string] = Fold[k]
  BY NamesAssumption, Lookup
<1> HIDE DEF its, ptr
<1>3. ptr # <<>> =>
        ptr \in Pointers /\ \E j \in 1..Len(its) : Head(ptr) = its[j] /\ Fold[its[j].string] = Fold[k]
  <2>1. \A items : items = Head(obj).child /\ GetObjectItem(obj, k) # <<>> =>
          /\ GetObjectItem(obj, k) \in Pointers
          /\ \E j \in 1..Len(items) :
               /\ Head(GetObjectItem(obj, k)) = items[j]
               /\ items[j].string # NULL /\ Fold[items[j].string] = Fold[k]
    BY Lookup
  <2> QED
    BY <2>1, Zenon DEF its, ptr
<1>4. its \in Seq(Items)
  BY Lookup DEF its
<1>5. ptr # <<>>
  BY <1>2, Lookup DEF its, ptr
<1> QED
  <2>1. DOMAIN its = 1..Len(its)
    BY <1>4
  <2> QED
    BY <1>1, <1>3, <1>5, <2>1 DEF its, ptr

LEMMA PairedFetch ==
  ASSUME TypeInv, AtItem, Named, There, Paired(Top)
  PROVE  /\ Found # <<>> /\ Head(Found) \in Items /\ item1 \in Items
         /\ Head(GetObjectItem(Top.obj1, item1.string)) = item1
         /\ SameType(item1, Head(Found))
         /\ item1.type = "Array" =>
              \A n \in DOMAIN item1.child \cap DOMAIN Head(Found).child :
                SameType(item1.child[n], Head(Found).child[n])
         /\ item1.type = "Object" => <<item1, Head(Found)>> \in Comparable
<1>1. /\ Top \in Frame /\ Attributes = Head(Top.obj1).child /\ Top.i \in 1..Len(Attributes)
      /\ item1 \in Items /\ item1 = Attributes[Top.i]
  BY TopType DEF AtItem, item1
<1>2. PICK k \in Names : k = item1.string
  BY <1>1, ItemType DEF Named
<1>3. PICK p1 \in Pointers, p2 \in Pointers : p1 = Top.obj1 /\ p2 = Top.obj2
  BY <1>1, FrameType
<1>4. PICK o1 \in Items, o2 \in Items : o1 = Head(p1) /\ o2 = Head(p2)
  BY Lookup
<1>5. /\ Unambiguous(o1) /\ Unambiguous(o2) /\ SameTypes(o1, o2) /\ o2.type = "Object"
      /\ \A it1 \in ToSet(o1.child), it2 \in ToSet(o2.child) :
           it1.string = it2.string /\ it1.type = "Object" => <<it1, it2>> \in Comparable
  BY <1>3, <1>4, ComparableAssumption DEF Paired
<1>6. PICK i \in DOMAIN o2.child : o2.child[i].string = k
  BY <1>2, <1>3, <1>4, <1>5 DEF There, Exists
<1>7. GetObjectItem(p2, k) \in Pointers /\ Head(GetObjectItem(p2, k)) = o2.child[i]
  BY <1>4, <1>5, <1>6, Fetched
<1>8. Found \in Pointers /\ Head(Found) = o2.child[i]
  BY <1>2, <1>3, <1>7 DEF Found
<1>9. /\ o1.child \in Seq(Items) /\ o2.child \in Seq(Items)
      /\ Top.i \in DOMAIN o1.child /\ item1 = o1.child[Top.i]
  BY <1>1, <1>3, <1>4, ItemType
<1>10. Head(GetObjectItem(p1, k)) = item1
  BY <1>2, <1>4, <1>5, <1>9, Fetched
<1>11. item1 \in ToSet(o1.child) /\ Head(Found) \in ToSet(o2.child) /\ item1.string = Head(Found).string
  BY <1>2, <1>6, <1>8, <1>9 DEF ToSet
<1>12. Found # <<>> /\ Head(Found) \in Items
  BY <1>6, <1>8, <1>9 DEF Pointers
<1> QED
  BY <1>1, <1>2, <1>3, <1>5, <1>10, <1>11, <1>12 DEF SameTypes

\* Every call that is made compares comparable objects, and none dies.
LEMMA StackStep ==
  ASSUME TypeInv, StackInv, [Next]_vars
  PROVE  StackInv'
<1> USE DEF Goes
<1>1. UNCHANGED <<root1, root2>>
  BY DEF Next, Step, vars, DiffUnnamed, SkipArray, DiffArray, DiffObject, DiffScalar, DiffAdded, Return, Dies
<1> SUFFICES ASSUME <<root1, root2>> \in Comparable
             PROVE  state' # "dead" /\ \A n \in 1..Len(stack') : Paired(stack'[n])
  BY <1>1 DEF StackInv
<1>2. state # "dead" /\ \A n \in 1..Len(stack) : Paired(stack[n])
  BY DEF StackInv
<1>3. state = "run" => Paired(Top)
  BY <1>2, TopType
<1>4. ASSUME AtItem, NextItem, Goes PROVE state' # "dead" /\ \A n \in 1..Len(stack') : Paired(stack'[n])
  BY <1>2, <1>4, NextItemStep
<1>5. CASE UNCHANGED vars
  BY <1>2, <1>5 DEF vars
<1>6. CASE DiffUnnamed
  BY <1>2, <1>6 DEF DiffUnnamed, vars
<1>7. CASE SkipArray
  BY <1>4, <1>7 DEF SkipArray
<1>8. CASE DiffArray
  <2>1. AtItem /\ Named /\ There /\ item1.type = "Array" /\ Paired(Top)
    BY <1>3, <1>8 DEF DiffArray, AtItem
  <2>2. /\ Found # <<>> /\ Head(Found) \in Items /\ SameType(item1, Head(Found)) /\ item1 \in Items
        /\ \A n \in DOMAIN item1.child \cap DOMAIN Head(Found).child :
             SameType(item1.child[n], Head(Found).child[n])
    BY <2>1, PairedFetch
  <2>3. Head(Found).type = "Array"
    BY <2>1, <2>2, SameTypeOf
  <2>4. \A n \in Common(Head(Found)) : ~Throws(item1.child[n], Head(Found).child[n])
    BY <2>1, <2>2, CommonType, SameTypeOf
  <2>5. NextItem /\ Goes
    BY <1>8, <2>2, <2>3, <2>4 DEF DiffArray
  <2> QED
    BY <1>4, <2>1, <2>5
<1>9. CASE DiffObject
  <2>1. AtItem /\ Named /\ There /\ item1.type = "Object" /\ Paired(Top) /\ UNCHANGED state
    BY <1>3, <1>9 DEF DiffObject, AtItem
  <2>2. /\ Found # <<>> /\ Head(Found) \in Items /\ SameType(item1, Head(Found)) /\ item1 \in Items
        /\ <<item1, Head(Found)>> \in Comparable
        /\ Head(GetObjectItem(Top.obj1, item1.string)) = item1
    BY <2>1, PairedFetch
  <2>3. PICK o1 \in Pointers, o2 \in Pointers :
          o1 = GetObjectItem(Top.obj1, item1.string) /\ o2 = Found
    BY <2>1, <2>2, CalledOn
  <2>4. stack' = << Call(o1, o2) >> \o (<<Advanced>> \o Tail(stack))
    BY <1>9, <2>2, <2>3 DEF DiffObject, Advanced
  <2>5. Paired(Call(o1, o2))
    BY <2>1, <2>2, <2>3, SameTypeOf DEF Paired, Call
  <2> QED
    BY <1>2, <2>1, <2>4, <2>5, CallStep
<1>10. CASE DiffScalar
  <2>1. AtItem /\ Named /\ There /\ Paired(Top)
    BY <1>3, <1>10 DEF DiffScalar, AtItem
  <2>2. Found # <<>> /\ ~Throws(item1, Head(Found))
    BY <2>1, PairedFetch, SameTypeOf
  <2>3. NextItem /\ Goes
    BY <1>10, <2>2 DEF DiffScalar
  <2> QED
    BY <1>4, <2>1, <2>3
<1>11. CASE DiffAdded
  BY <1>4, <1>11 DEF DiffAdded
<1>12. CASE Return
  <2>1. stack \in Seq(Frame) /\ stack # <<>>
    BY <1>12 DEF Return, TypeInv
  <2>2. stack' = Tail(stack) /\ state' = (IF Tail(stack) = <<>> THEN "done" ELSE "run")
    BY <1>12 DEF Return
  <2>3. \A n \in 1..Len(stack') : \E m \in 1..Len(stack) : stack'[n] = stack[m]
    <3> HIDE DEF Frame
    <3> QED
      BY <2>1, <2>2, TailType
  <2> QED
    BY <1>2, <2>2, <2>3
<1> QED
  BY <1>5, <1>6, <1>7, <1>8, <1>9, <1>10, <1>11, <1>12 DEF Next, Step

LEMMA InitInv == Init => TypeInv /\ StackInv
<1> SUFFICES ASSUME Init PROVE TypeInv /\ StackInv
  OBVIOUS
<1>1. root1 \in Items /\ root2 \in Items /\ root1.type = "Object" /\ root2.type = "Object"
  BY ItemsAssumption DEF Init
<1> DEFINE c == Call(<<root1>>, <<root2>>)
<1>2. <<root1>> \in Pointers /\ <<root2>> \in Pointers
  BY <1>1 DEF Pointers
<1>3. c \in Frame /\ c.i = 1 /\ Head(c.obj1) = root1 /\ Head(c.obj2) = root2
  BY <1>2 DEF Call, Frame
<1>4. InPlace(c)
  BY <1>1, <1>3, ItemType DEF InPlace
<1>5. stack = <<c>> /\ JSONObjDiff = <<>> /\ state = "run" /\ root1 \in Objects /\ root2 \in Objects
  BY DEF Init
<1>6. <<root1, root2>> \in Comparable => Paired(c)
  BY <1>1, <1>3 DEF Paired
<1> HIDE DEF c
<1>7. stack \in Seq(Frame) /\ stack # <<>> /\ \A n \in 1..Len(stack) : stack[n] = c
  <2> HIDE DEF Frame
  <2> QED
    BY <1>3, <1>5
<1>8. JSONObjDiff \in Seq(Entry)
  BY <1>5
<1> QED
  BY <1>4, <1>5, <1>6, <1>7, <1>8 DEF TypeInv, StackInv

\* What every call in progress compares, in every state of every run.
THEOREM Invariance == Spec => [](TypeInv /\ StackInv)
<1>1. TypeInv /\ StackInv /\ [Next]_vars => (TypeInv /\ StackInv)'
  BY TypeStep, StackStep
<1> QED
  BY <1>1, InitInv, PTL DEF Spec

\* Every variable keeps its type: a call is at an item or behind the last one, and
\* every entry has the name of an attribute (diffJSONObjects).
THEOREM TypeCorrectness == Spec => []TypeOK
<1>1. TypeInv => TypeOK
  <2> SUFFICES ASSUME TypeInv PROVE TypeOK
    OBVIOUS
  <2>1. DOMAIN stack = 1..Len(stack) /\ \A n \in 1..Len(stack) : stack[n] \in Frame
    <3> HIDE DEF Frame
    <3> QED
      BY DEF TypeInv
  <2>2. \A n \in 1..Len(stack) : stack[n].obj1 # <<>> /\ stack[n].obj2 # <<>>
    BY <2>1, FrameType DEF Pointers
  <2> QED
    BY <2>1, <2>2 DEF TypeInv, TypeOK, InPlace
<1> QED
  BY <1>1, Invariance, PTL

\* Objects whose attributes have names of their own, and the same types where they
\* have the same names, are compared without a null pointer being read, however deep
\* they are (diffJSONObject, diffJSONObjects).
THEOREM ComparedSafely == Spec => []ComparableSurvives
<1>1. StackInv => ComparableSurvives
  BY DEF StackInv, ComparableSurvives
<1> QED
  BY <1>1, Invariance, PTL

(***************************************************************************)
(* The elements of sequences that are put together.                        *)
(***************************************************************************)
\* The elements of a concatenation.
LEMMA ToSetConcat ==
  ASSUME NEW E, NEW a \in Seq(E), NEW b \in Seq(E)
  PROVE  ToSet(a \o b) = ToSet(a) \cup ToSet(b)
<1>1. PICK m \in Nat, n \in Nat : m = Len(a) /\ n = Len(b)
  BY LenProperties
<1>2. PICK c \in Seq(E) : c = a \o b
  BY ConcatProperties
<1>3. Len(c) = m + n /\ \A i \in 1..(m + n) : c[i] = IF i <= m THEN a[i] ELSE b[i - m]
  BY <1>1, <1>2, ConcatProperties
<1>4. DOMAIN a = 1..m /\ DOMAIN b = 1..n /\ DOMAIN c = 1..(m + n)
  BY <1>1, <1>3, LenProperties
<1>5. \A i \in 1..m : i \in 1..(m + n) /\ c[i] = a[i]
  BY <1>3
<1>6. \A i \in 1..n : m + i \in 1..(m + n) /\ c[m + i] = b[i]
  BY <1>3
<1>7. \A i \in 1..(m + n) : (i \in 1..m /\ c[i] = a[i]) \/ (i - m \in 1..n /\ c[i] = b[i - m])
  BY <1>3
<1>8. ToSet(c) \subseteq ToSet(a) \cup ToSet(b)
  BY <1>4, <1>7, Zenon DEF ToSet
<1>9. ToSet(a) \subseteq ToSet(c) /\ ToSet(b) \subseteq ToSet(c)
  BY <1>4, <1>5, <1>6, Zenon DEF ToSet
<1> QED
  BY <1>2, <1>8, <1>9

\* What is put together has the elements of its parts.
LEMMA JoinedElements ==
  ASSUME NEW E, NEW seqs \in Seq(Seq(E)), NEW g, Joined(g, seqs)
  PROVE  \A i \in 1..Len(seqs) : ToSet(g[i]) = UNION {ToSet(seqs[j]) : j \in 1..i}
<1> DEFINE N == Len(seqs)
           Parts(i) == UNION {ToSet(seqs[j]) : j \in 1..i}
           S == {i \in 1..N : ToSet(g[i]) # Parts(i)}
<1>1. N \in Nat /\ \A i \in 1..N : seqs[i] \in Seq(E)
  OBVIOUS
<1>2. g = [i \in 1..N |-> IF i = 1 THEN seqs[i] ELSE g[i-1] \o seqs[i]]
  BY DEF Joined
<1>3. SUFFICES ASSUME S # {} PROVE FALSE
  OBVIOUS
<1>4. PICK i \in S : \A j \in S : i <= j
  <2>1. S \subseteq Nat
    BY <1>1
  <2> HIDE DEF S
  <2> QED
    BY <1>3, <2>1, Least
<1>5. i \in 1..N /\ ToSet(g[i]) # Parts(i)
  OBVIOUS
<1>6. CASE i = 1
  <2>1. g[i] = seqs[i] /\ 1..i = {1}
    BY <1>2, <1>5, <1>6
  <2> QED
    BY <1>5, <1>6, <2>1
<1>7. CASE i # 1
  <2>0. i - 1 \in Nat /\ i \in Nat /\ ~(i <= i - 1)
    BY <1>1, <1>5, <1>7
  <2>1. i - 1 \in 1..N /\ i - 1 \notin S /\ 1..i = 1..(i - 1) \cup {i}
    <3>1. i - 1 \in 1..N
      BY <1>1, <1>5, <1>7
    <3>2. i - 1 \notin S
      <4> HIDE DEF S
      <4> QED
        BY <1>4, <2>0
    <3>3. 1..i = 1..(i - 1) \cup {i}
      BY <2>0, <1>5
    <3> QED
      BY <3>1, <3>2, <3>3
  <2>2. PICK a \in Seq(E), b \in Seq(E) : a = g[i-1] /\ b = seqs[i]
    BY <1>1, <1>5, <2>1, JoinedType
  <2>3. g[i] = a \o b
    BY <1>2, <1>5, <1>7, <2>2
  <2>4. ToSet(a) = Parts(i - 1)
    BY <2>1, <2>2
  <2>5. Parts(i) = Parts(i - 1) \cup ToSet(b)
    BY <2>1, <2>2
  <2> HIDE DEF Parts
  <2>6. ToSet(a \o b) = ToSet(a) \cup ToSet(b)
    BY ToSetConcat
  <2> QED
    BY <1>5, <2>3, <2>4, <2>5, <2>6
<1> QED
  BY <1>6, <1>7

LEMMA FlattenElements ==
  ASSUME NEW E, NEW seqs \in Seq(Seq(E))
  PROVE  ToSet(FlattenSeq(seqs)) = UNION {ToSet(seqs[j]) : j \in 1..Len(seqs)}
<1> DEFINE N == Len(seqs)
           g == CHOOSE f : f = [i \in 1..Len(seqs) |-> IF i = 1 THEN seqs[i] ELSE f[i-1] \o seqs[i]]
<1>1. N \in Nat
  OBVIOUS
<1>2. FlattenSeq(seqs) = IF N = 0 THEN seqs ELSE g[N]
  BY Zenon DEF FlattenSeq
<1>3. Joined(g, seqs)
  <2>1. \E f : Joined(f, seqs)
    BY <1>1, JoinedExists
  <2> QED
    BY <2>1, Zenon DEF Joined
<1> HIDE DEF g
<1>4. CASE N = 0
  <2>1. ToSet(seqs) = {} /\ 1..N = {}
    BY <1>4 DEF ToSet
  <2> QED
    BY <1>2, <1>4, <2>1
<1>5. CASE N # 0
  <2>1. N \in 1..Len(seqs)
    BY <1>1, <1>5
  <2>2. ToSet(g[N]) = UNION {ToSet(seqs[j]) : j \in 1..N}
    BY <1>3, <2>1, JoinedElements
  <2> QED
    BY <1>2, <1>5, <2>2
<1> QED
  BY <1>4, <1>5

(***************************************************************************)
(* What a step says is what is due.                                        *)
(***************************************************************************)
LEMMA ChangeIsDue ==
  ASSUME NEW it1 \in Items, NEW it2 \in Items, SameType(it1, it2), NEW k, NEW index
  PROVE  ToSet(Entries(k, index, Change(it1, it2))) = Due(k, index, it1, it2)
<1> DEFINE arrow == Arrow(Shown(it1), Shown(it2))
<1>1. it1.type \notin Bools => it2.type = it1.type
  BY DEF SameType
<1>2. it1.type \in Bools => it2.type \in Bools
  BY DEF SameType
<1>3. it1.type \in Types /\ it2.type \in Types
  BY ItemType
<1>4. CASE Differ(it1, it2)
  <2>1. Change(it1, it2) = arrow
    BY <1>1, <1>2, <1>3, <1>4 DEF Differ, Change, AreSame, Shown, Bools, Types
  <2>2. \A x : ToSet(Entries(k, index, <<x>>)) = {[string |-> k, index |-> index, text |-> x]}
    <3> TAKE x
    <3>1. DOMAIN <<x>> = {1} /\ <<x>>[1] = x
      OBVIOUS
    <3>2. PICK s : s = <<x>>
      OBVIOUS
    <3>3. Entries(k, index, s) = [n \in {1} |-> [string |-> k, index |-> index, text |-> s[n]]]
      BY <3>1, <3>2 DEF Entries
    <3> QED
      BY <3>1, <3>2, <3>3 DEF ToSet
  <2> QED
    BY <1>4, <2>1, <2>2 DEF Due, Arrow
<1>5. CASE ~Differ(it1, it2)
  <2>1. Change(it1, it2) = <<>>
    BY <1>1, <1>2, <1>3, <1>5 DEF Differ, Change, AreSame, Bools, Types
  <2>2. ToSet(Entries(k, index, <<>>)) = {}
    BY DEF Entries, ToSet
  <2> QED
    BY <1>5, <2>1, <2>2 DEF Due
<1> QED
  BY <1>4, <1>5

PairOf(f) == <<Head(f.obj1), Head(f.obj2)>>

LEMMA PairType ==
  ASSUME NEW f \in Frame
  PROVE  PairOf(f) \in Items \X Items /\ PairOf(f)[1] = Head(f.obj1) /\ PairOf(f)[2] = Head(f.obj2)
BY FrameType DEF PairOf

\* In comparable objects an item has a name, and at most one counterpart.
LEMMA Counterpart ==
  ASSUME TypeInv, AtItem, Paired(Top)
  PROVE  /\ Named
         /\ There => {it2 \in ToSet(Head(Top.obj2).child) : it2.string = item1.string} = {Head(Found)}
         /\ ~There => {it2 \in ToSet(Head(Top.obj2).child) : it2.string = item1.string} = {}
<1>1. /\ Top \in Frame /\ Attributes = Head(Top.obj1).child /\ Top.i \in 1..Len(Attributes)
      /\ item1 \in Items /\ item1 = Attributes[Top.i]
  BY TopType DEF AtItem, item1
<1>2. PICK p1 \in Pointers, p2 \in Pointers : p1 = Top.obj1 /\ p2 = Top.obj2
  BY <1>1, FrameType
<1>3. PICK o1 \in Items, o2 \in Items : o1 = Head(p1) /\ o2 = Head(p2)
  BY Lookup
<1>4. Unambiguous(o1) /\ Unambiguous(o2) /\ o2.type = "Object"
  BY <1>2, <1>3, ComparableAssumption DEF Paired
<1>5. o1.child \in Seq(Items) /\ o2.child \in Seq(Items)
  BY ItemType
<1>6. Named
  <2>1. Top.i \in DOMAIN o1.child /\ item1 = o1.child[Top.i]
    BY <1>1, <1>2, <1>3, <1>5
  <2> QED
    BY <1>4, <2>1 DEF Named, Unambiguous
<1>7. PICK k \in Names : k = item1.string
  BY <1>1, <1>6, ItemType DEF Named
<1>8. There <=> \E i \in DOMAIN o2.child : o2.child[i].string = k
  BY <1>2, <1>3, <1>4, <1>7 DEF There, Exists
<1>9. ASSUME There
      PROVE  {it2 \in ToSet(o2.child) : it2.string = k} = {Head(Found)}
  <2>1. PICK i \in DOMAIN o2.child : o2.child[i].string = k
    BY <1>8, <1>9
  <2>2. Head(GetObjectItem(p2, k)) = o2.child[i]
    BY <1>3, <1>4, <2>1, Fetched
  <2>3. \A j \in DOMAIN o2.child : o2.child[j].string = k => j = i
    BY <1>4, <2>1 DEF Unambiguous
  <2>4. Head(Found) = o2.child[i]
    BY <1>2, <1>7, <2>2 DEF Found
  <2> QED
    BY <2>1, <2>3, <2>4 DEF ToSet
<1>10. ASSUME ~There
       PROVE  {it2 \in ToSet(o2.child) : it2.string = k} = {}
  BY <1>8, <1>10 DEF ToSet
<1> QED
  BY <1>2, <1>3, <1>6, <1>7, <1>9, <1>10

\* What is due for the item when the second object has its name.
LEMMA DueThere ==
  ASSUME TypeInv, AtItem, Paired(Top), There
  PROVE  AttributeDue(item1, Head(Top.obj2)) = ChangeDue(item1, Head(Found))
<1> DEFINE its == {it2 \in ToSet(Head(Top.obj2).child) : it2.string = item1.string}
<1>1. its = {Head(Found)}
  BY Counterpart
<1>2. AttributeDue(item1, Head(Top.obj2)) =
        IF its = {} THEN AddedDue(item1) ELSE UNION {ChangeDue(item1, it2) : it2 \in its}
  BY DEF AttributeDue
<1> HIDE DEF its
<1>3. its # {}
  BY <1>1
<1>4. UNION {ChangeDue(item1, it2) : it2 \in its} = ChangeDue(item1, Head(Found))
  BY <1>1
<1> QED
  BY <1>2, <1>3, <1>4

LEMMA DueNotThere ==
  ASSUME TypeInv, AtItem, Paired(Top), ~There
  PROVE  AttributeDue(item1, Head(Top.obj2)) = AddedDue(item1)
<1>1. {it2 \in ToSet(Head(Top.obj2).child) : it2.string = item1.string} = {}
  BY Counterpart
<1> QED
  BY <1>1 DEF AttributeDue

\* The entries of two arrays are those due.
LEMMA ArrayIsDue ==
  ASSUME TypeInv, AtItem, Named, item1.type = "Array", NEW item2 \in Items,
         \A n \in DOMAIN item1.child \cap DOMAIN item2.child :
           SameType(item1.child[n], item2.child[n])
  PROVE  ToSet(ArrayEntries(item2)) = ChangeDue(item1, item2)
<1> DEFINE e(n) == Entries(item1.string, n - 1, Change(item1.child[n], item2.child[n]))
           es == [n \in Common(item2) |-> e(n)]
           d(n) == Due(item1.string, n - 1, item1.child[n], item2.child[n])
<1>1. item1.string \in Names /\ item1 \in Items
  BY TopType, ItemType DEF AtItem, Named
<1>2. ASSUME NEW n \in Common(item2) PROVE e(n) \in Seq(Entry) /\ ToSet(e(n)) = d(n)
  <2>1. /\ item1.child[n] \in Items /\ item2.child[n] \in Items
        /\ SameType(item1.child[n], item2.child[n]) /\ n - 1 \in Nat
    BY <1>2, CommonType
  <2>2. ~Throws(item1.child[n], item2.child[n])
    BY <2>1, SameTypeOf
  <2>3. Change(item1.child[n], item2.child[n]) \in Seq(Seq(Word))
    BY <2>1, <2>2, ChangeType
  <2>4. e(n) \in Seq(Entry)
    BY <1>1, <2>1, <2>3, EntriesType
  <2>5. ToSet(e(n)) = d(n)
    BY <2>1, ChangeIsDue
  <2> QED
    BY <2>4, <2>5
<1>3. PICK len \in Nat : Common(item2) = 1..len
  BY CommonType
<1>4. Common(item2) = DOMAIN item1.child \cap DOMAIN item2.child
  <2>1. item1.child \in Seq(Items) /\ item2.child \in Seq(Items)
    BY <1>1, ItemType
  <2>2. PICK m \in Nat, n \in Nat : m = Len(item1.child) /\ n = Len(item2.child)
    BY <2>1
  <2>3. DOMAIN item1.child = 1..m /\ DOMAIN item2.child = 1..n
    BY <2>1, <2>2
  <2>4. Common(item2) = 1..(IF m < n THEN m ELSE n)
    BY <2>2 DEF Common
  <2> QED
    BY <2>2, <2>3, <2>4
<1> HIDE DEF e, d
<1>5. es \in Seq(Seq(Entry)) /\ Len(es) = len /\ \A n \in 1..len : es[n] = e(n)
  BY <1>2, <1>3
<1>6. ArrayEntries(item2) = FlattenSeq(es)
  BY DEF ArrayEntries, e
<1> HIDE DEF es
<1>7. ToSet(FlattenSeq(es)) = UNION {ToSet(es[n]) : n \in 1..Len(es)}
  BY <1>5, FlattenElements
<1>8. UNION {ToSet(es[n]) : n \in 1..Len(es)} = UNION {d(n) : n \in Common(item2)}
  BY <1>2, <1>3, <1>5
<1>9. ChangeDue(item1, item2) = UNION {d(n) : n \in DOMAIN item1.child \cap DOMAIN item2.child}
  BY DEF ChangeDue, d
<1> QED
  BY <1>4, <1>6, <1>7, <1>8, <1>9

LEMMA OneEntry ==
  ASSUME NEW k, NEW index, NEW text
  PROVE  ToSet(Entries(k, index, <<text>>)) = {[string |-> k, index |-> index, text |-> text]}
<1>1. PICK s : s = <<text>>
  OBVIOUS
<1>2. DOMAIN s = {1} /\ s[1] = text
  BY <1>1
<1>3. Entries(k, index, s) = [n \in {1} |-> [string |-> k, index |-> index, text |-> s[n]]]
  BY <1>2 DEF Entries
<1> QED
  BY <1>1, <1>2, <1>3 DEF ToSet

\* A branch of the loop.
Branch == SkipArray \/ DiffArray \/ DiffObject \/ DiffScalar \/ DiffAdded

LEMMA SaidElements ==
  ASSUME TypeInv, NEW entries \in Seq(Entry), Say(entries)
  PROVE  ToSet(JSONObjDiff') = ToSet(JSONObjDiff) \cup ToSet(entries)
<1>1. PICK diff \in Seq(Entry) : diff = JSONObjDiff
  BY DEF TypeInv
<1>2. ToSet(diff \o entries) = ToSet(diff) \cup ToSet(entries)
  BY ToSetConcat
<1> QED
  BY <1>1, <1>2 DEF Say

\* What the item adds to the result.
LEMMA BranchSays ==
  ASSUME TypeInv, AtItem, Paired(Top), Branch
  PROVE  ToSet(JSONObjDiff') = ToSet(JSONObjDiff) \cup AttributeDue(item1, Head(Top.obj2))
<1>0. Named /\ item1 \in Items /\ item1.string \in Names
  BY Counterpart, CalledOn
<1>1. CASE SkipArray
  <2>1. AttributeDue(item1, Head(Top.obj2)) = {}
    BY <1>1, DueNotThere DEF SkipArray, AddedDue
  <2> QED
    BY <1>1, <2>1 DEF SkipArray
<1>2. CASE DiffArray
  <2>1. There /\ item1.type = "Array"
    BY <1>2 DEF DiffArray
  <2>2. PICK item2 \in Items :
          /\ item2 = Head(Found) /\ Found # <<>> /\ SameType(item1, item2)
          /\ \A n \in DOMAIN item1.child \cap DOMAIN item2.child :
               SameType(item1.child[n], item2.child[n])
    BY <1>0, <2>1, PairedFetch
  <2>3. item2.type = "Array"
    BY <1>0, <2>1, <2>2, SameTypeOf
  <2>4. \A n \in Common(item2) : ~Throws(item1.child[n], item2.child[n])
    BY <2>2, CommonType, SameTypeOf
  <2>5. Say(ArrayEntries(item2))
    BY <1>2, <2>2, <2>3, <2>4 DEF DiffArray
  <2>6. ArrayEntries(item2) \in Seq(Entry)
    BY <1>0, <2>4, ArrayEntriesType
  <2>7. ToSet(ArrayEntries(item2)) = ChangeDue(item1, item2)
    BY <1>0, <2>1, <2>2, ArrayIsDue
  <2>8. AttributeDue(item1, Head(Top.obj2)) = ChangeDue(item1, item2)
    BY <2>1, <2>2, DueThere
  <2> QED
    BY <2>5, <2>6, <2>7, <2>8, SaidElements
<1>3. CASE DiffObject
  <2>1. There /\ item1.type = "Object"
    BY <1>3 DEF DiffObject
  <2>2. ChangeDue(item1, Head(Found)) = {}
    BY <2>1 DEF ChangeDue, Due, Differ, Bools
  <2> QED
    BY <1>3, <2>1, <2>2, DueThere DEF DiffObject
<1>4. CASE DiffScalar
  <2>1. There /\ item1.type \notin {"Array", "Object"}
    BY <1>4 DEF DiffScalar
  <2>2. PICK item2 \in Items : item2 = Head(Found) /\ Found # <<>> /\ SameType(item1, item2)
    BY <1>0, <2>1, PairedFetch
  <2>3. ~Throws(item1, item2)
    BY <1>0, <2>2, SameTypeOf
  <2>4. PICK entries : entries = Entries(item1.string, NoIndex, Change(item1, item2))
    OBVIOUS
  <2>5. Say(entries)
    BY <1>4, <2>2, <2>3, <2>4 DEF DiffScalar
  <2>6. entries \in Seq(Entry)
    BY <1>0, <2>3, <2>4, ChangeType, EntriesType
  <2>7. ToSet(entries) = ChangeDue(item1, item2)
    BY <1>0, <2>1, <2>2, <2>4, ChangeIsDue DEF ChangeDue
  <2>8. AttributeDue(item1, Head(Top.obj2)) = ChangeDue(item1, item2)
    BY <2>1, <2>2, DueThere
  <2> QED
    BY <2>5, <2>6, <2>7, <2>8, SaidElements
<1>5. CASE DiffAdded
  <2> DEFINE text == IF item1.valuestring = NULL THEN <<>> ELSE <<item1.valuestring, "was added">>
  <2>1. /\ ~There /\ item1.type # "Array"
        /\ Say(Entries(item1.string, NoIndex, <<text>>))
    BY <1>5 DEF DiffAdded
  <2>2. text = IF item1.type = "String" THEN <<item1.valuestring, "was added">> ELSE <<>>
    BY <1>0, ItemType, ValuesAssumption
  <2>3. text \in Seq(Word)
    <3>1. item1.valuestring = NULL \/ item1.valuestring \in Word
      BY <1>0, ItemType DEF Word
    <3>2. "was added" \in Word
      BY DEF Word
    <3>3. <<>> \in Seq(Word)
      OBVIOUS
    <3> QED
      BY <3>1, <3>2, <3>3, Pair
  <2> HIDE DEF text
  <2>4. PICK entries : entries = Entries(item1.string, NoIndex, <<text>>)
    OBVIOUS
  <2>5. entries \in Seq(Entry)
    <3>1. <<text>> \in Seq(Seq(Word))
      BY <2>3
    <3> QED
      BY <1>0, <2>4, <3>1, EntriesType
  <2>6. ToSet(entries) = AddedDue(item1)
    BY <2>1, <2>2, <2>4, OneEntry DEF AddedDue
  <2>7. AttributeDue(item1, Head(Top.obj2)) = AddedDue(item1)
    BY <2>1, DueNotThere
  <2> QED
    BY <2>1, <2>4, <2>5, <2>6, <2>7, SaidElements
<1> QED
  BY <1>1, <1>2, <1>3, <1>4, <1>5 DEF Branch

\* Where the item leads: to the next one, or into the object of the same name.
LEMMA BranchCalls ==
  ASSUME TypeInv, AtItem, Paired(Top), Branch
  PROVE  \/ /\ stack' = <<Advanced>> \o Tail(stack)
            /\ \A q \in Below(PairOf(Top)) : q[1] # item1
         \/ \E c \in Frame : /\ stack' = <<c>> \o (<<Advanced>> \o Tail(stack))
                             /\ c.i = 1 /\ PairOf(c) \in Below(PairOf(Top))
                             /\ \A q \in Below(PairOf(Top)) : q[1] = item1 => q = PairOf(c)
<1>0. Named /\ item1 \in Items /\ Top \in Frame /\ item1 \in ToSet(Head(Top.obj1).child)
  <2>1. Top \in Frame /\ Attributes = Head(Top.obj1).child /\ Top.i \in 1..Len(Attributes)
    BY TopType DEF AtItem
  <2>2. item1 \in ToSet(Attributes)
    <3>1. Attributes \in Seq(Items)
      BY TopType DEF AtItem
    <3> QED
      BY <2>1, <3>1 DEF item1, ToSet
  <2> QED
    BY <2>1, <2>2, Counterpart, CalledOn
<1>1. \A q \in Below(PairOf(Top)) :
        q[1] = item1 => /\ item1.type = "Object"
                        /\ q[2] \in {it2 \in ToSet(Head(Top.obj2).child) : it2.string = item1.string}
  BY <1>0, PairType DEF Below
<1>2. ASSUME NextItem, item1.type # "Object" \/ ~There
      PROVE  /\ stack' = <<Advanced>> \o Tail(stack)
             /\ \A q \in Below(PairOf(Top)) : q[1] # item1
  BY <1>1, <1>2, Counterpart DEF NextItem, Advanced
<1>3. CASE SkipArray
  BY <1>2, <1>3 DEF SkipArray
<1>4. CASE DiffArray
  <2>1. There /\ item1.type = "Array"
    BY <1>4 DEF DiffArray
  <2>2. PICK item2 \in Items :
          /\ item2 = Head(Found) /\ Found # <<>> /\ SameType(item1, item2)
          /\ \A n \in DOMAIN item1.child \cap DOMAIN item2.child :
               SameType(item1.child[n], item2.child[n])
    BY <1>0, <2>1, PairedFetch
  <2>3. item2.type = "Array"
    BY <1>0, <2>1, <2>2, SameTypeOf
  <2>4. \A n \in Common(item2) : ~Throws(item1.child[n], item2.child[n])
    BY <2>2, CommonType, SameTypeOf
  <2>5. NextItem
    BY <1>4, <2>2, <2>3, <2>4 DEF DiffArray
  <2> QED
    BY <1>2, <2>1, <2>5
<1>5. CASE DiffObject
  <2>1. There /\ item1.type = "Object"
    BY <1>5 DEF DiffObject
  <2>2. /\ Found # <<>> /\ Head(GetObjectItem(Top.obj1, item1.string)) = item1
    BY <1>0, <2>1, PairedFetch
  <2>3. PICK o1 \in Pointers, o2 \in Pointers :
          o1 = GetObjectItem(Top.obj1, item1.string) /\ o2 = Found
    BY <1>0, <2>2, CalledOn
  <2>4. stack' = << Call(o1, o2) >> \o (<<Advanced>> \o Tail(stack))
    BY <1>5, <2>2, <2>3 DEF DiffObject, Advanced
  <2>5. PICK c \in Frame : c = Call(o1, o2) /\ c.i = 1 /\ c.obj1 = o1 /\ c.obj2 = o2
    <3>1. Call(o1, o2) = [obj1 |-> o1, obj2 |-> o2, i |-> 1]
      BY DEF Call
    <3>2. [obj1 |-> o1, obj2 |-> o2, i |-> 1] \in Frame
      BY DEF Frame
    <3> QED
      BY <3>1, <3>2
  <2>6. PairOf(c) = <<item1, Head(Found)>>
    BY <2>2, <2>3, <2>5 DEF PairOf
  <2>7. {it2 \in ToSet(Head(Top.obj2).child) : it2.string = item1.string} = {Head(Found)}
    BY <2>1, Counterpart
  <2>8. Head(Found) \in ToSet(Head(Top.obj2).child) /\ Head(Found).string = item1.string
    BY <2>7
  <2>9. PairOf(c) \in Below(PairOf(Top))
    BY <1>0, <2>1, <2>6, <2>8, PairType DEF Below
  <2>10. \A q \in Below(PairOf(Top)) : q[1] = item1 => q = PairOf(c)
    <3> TAKE q \in Below(PairOf(Top))
    <3> HAVE q[1] = item1
    <3>1. q[2] = Head(Found)
      BY <1>1, <2>7
    <3>2. q = <<q[1], q[2]>>
      BY DEF Below
    <3> QED
      BY <2>6, <3>1, <3>2
  <2> QED
    BY <2>4, <2>5, <2>9, <2>10
<1>6. CASE DiffScalar
  <2>1. There /\ item1.type \notin {"Array", "Object"}
    BY <1>6 DEF DiffScalar
  <2>2. Found # <<>> /\ ~Throws(item1, Head(Found))
    BY <1>0, <2>1, PairedFetch, SameTypeOf
  <2>3. NextItem
    BY <1>6, <2>2 DEF DiffScalar
  <2> QED
    BY <1>2, <2>1, <2>3
<1>7. CASE DiffAdded
  BY <1>2, <1>7 DEF DiffAdded
<1> QED
  BY <1>3, <1>4, <1>5, <1>6, <1>7 DEF Branch

(***************************************************************************)
(* The pairs of objects that are compared: the least set that has the two  *)
(* and, with a pair, the pairs of objects of the same name in it.          *)
(***************************************************************************)
Closed(R) == \A p \in R : Below(p) \subseteq R

Reached(obj1, obj2) ==
  {p \in Items \X Items :
     \A R \in SUBSET (Items \X Items) : <<obj1, obj2>> \in R /\ Closed(R) => p \in R}

LEMMA BelowType ==
  ASSUME NEW p \in Items \X Items
  PROVE  Below(p) \subseteq Items \X Items
<1>1. p[1].child \in Seq(Items) /\ p[2].child \in Seq(Items)
  BY ItemType
<1>2. \A s \in Seq(Items) : ToSet(s) \subseteq Items
  BY DEF ToSet
<1> QED
  BY <1>1, <1>2 DEF Below

LEMMA ReachedFacts ==
  ASSUME NEW o1 \in Items, NEW o2 \in Items
  PROVE  /\ Reached(o1, o2) \subseteq Items \X Items
         /\ <<o1, o2>> \in Reached(o1, o2) /\ Closed(Reached(o1, o2))
         /\ \A R \in SUBSET (Items \X Items) :
              <<o1, o2>> \in R /\ Closed(R) => Reached(o1, o2) \subseteq R
<1>1. Closed(Reached(o1, o2))
  <2> SUFFICES ASSUME NEW p \in Reached(o1, o2), NEW q \in Below(p)
               PROVE  q \in Reached(o1, o2)
    BY DEF Closed
  <2>1. p \in Items \X Items /\ q \in Items \X Items
    BY BelowType DEF Reached
  <2>2. ASSUME NEW R \in SUBSET (Items \X Items), <<o1, o2>> \in R, Closed(R)
        PROVE  q \in R
    <3>1. p \in R
      BY <2>2 DEF Reached
    <3> QED
      BY <2>2, <3>1 DEF Closed
  <2> QED
    BY <2>1, <2>2 DEF Reached
<1> QED
  BY <1>1 DEF Reached

(***************************************************************************)
(* What has been said is due, and what is due is said or still ahead.      *)
(***************************************************************************)
\* Everything said so far is due, for pairs that are compared.
SoundInv ==
  <<root1, root2>> \in Comparable =>
    /\ \A f \in ToSet(stack) : PairOf(f) \in Reached(root1, root2)
    /\ ToSet(JSONObjDiff) \subseteq AllDue(Reached(root1, root2))

\* What is due for the attribute has been said, and an object in it is in W.
Covered(p, j, W, said) ==
  /\ AttributeDue(p[1].child[j], p[2]) \subseteq said
  /\ \A q \in Below(p) : q[1] = p[1].child[j] => q \in W

\* One of the calls compares the pair and has not got past the attribute.
Ahead(p, j, calls) == \E f \in calls : PairOf(f) = p /\ f.i <= j

\* Of every pair that was called, each attribute is covered or ahead.
CoverInv ==
  <<root1, root2>> \in Comparable =>
    \E W \in SUBSET (Items \X Items) :
      /\ <<root1, root2>> \in W
      /\ \A p \in W : \A j \in DOMAIN p[1].child :
           Covered(p, j, W, ToSet(JSONObjDiff)) \/ Ahead(p, j, ToSet(stack))

LEMMA AllDueOf ==
  ASSUME NEW R, NEW p \in R, NEW it1 \in ToSet(p[1].child)
  PROVE  AttributeDue(it1, p[2]) \subseteq AllDue(R)
BY DEF AllDue

LEMMA CoverGrows ==
  ASSUME NEW p, NEW j, NEW W, NEW V, W \subseteq V, NEW said, NEW more, said \subseteq more,
         Covered(p, j, W, said)
  PROVE  Covered(p, j, V, more)
BY DEF Covered

LEMMA PushedElements ==
  ASSUME NEW S, NEW s \in Seq(S), NEW x \in S
  PROVE  ToSet(<<x>> \o s) = {x} \cup ToSet(s)
<1>1. PICK one \in Seq(S) : one = <<x>>
  BY Singleton
<1>2. ToSet(one) = {x}
  BY <1>1 DEF ToSet
<1>3. ToSet(one \o s) = ToSet(one) \cup ToSet(s)
  BY ToSetConcat
<1> QED
  BY <1>1, <1>2, <1>3, Zenon

LEMMA TailElements ==
  ASSUME NEW S, NEW s \in Seq(S), s # <<>>
  PROVE  ToSet(s) = {s[1]} \cup ToSet(Tail(s)) /\ Tail(s) \in Seq(S) /\ s[1] \in S
<1>1. s = <<s[1]>> \o Tail(s) /\ Tail(s) \in Seq(S) /\ s[1] \in S
  OBVIOUS
<1>2. PICK x \in S, t \in Seq(S) : x = s[1] /\ t = Tail(s)
  BY <1>1
<1>3. ToSet(<<x>> \o t) = {x} \cup ToSet(t)
  BY PushedElements
<1> QED
  BY <1>1, <1>2, <1>3

\* A step of comparable objects is a branch for an attribute, or a return.
LEMMA ComparableStep ==
  ASSUME TypeInv, StackInv, Next, <<root1, root2>> \in Comparable
  PROVE  /\ UNCHANGED <<root1, root2>> /\ state = "run" /\ Paired(Top)
         /\ (Branch /\ AtItem) \/ Return \/ UNCHANGED vars
<1>1. state = "run" /\ (DiffUnnamed \/ (Branch /\ AtItem) \/ Return)
  BY DEF Next, Step, Branch, DiffUnnamed, SkipArray, DiffArray, DiffObject, DiffScalar, DiffAdded,
         Return, AtItem
<1>2. Paired(Top)
  BY <1>1, TopType DEF StackInv
<1>3. UNCHANGED <<root1, root2>>
  BY DEF Next, Step, vars, DiffUnnamed, SkipArray, DiffArray, DiffObject, DiffScalar, DiffAdded,
         Return, Dies, Goes
<1> QED
  BY <1>1, <1>2, <1>3 DEF DiffUnnamed

\* The calls that are in progress before and after a branch: new is empty or has the
\* call that was made.
CallsAfter(rest, new) ==
  /\ ToSet(stack) = {Top} \cup rest /\ ToSet(stack') = {Advanced} \cup rest \cup new
  /\ \A c \in new : c.i = 1 /\ PairOf(c) \in Below(PairOf(Top))
  /\ \A q \in Below(PairOf(Top)) : q[1] = item1 => \E c \in new : q = PairOf(c)

LEMMA BranchStack ==
  ASSUME TypeInv, AtItem, Paired(Top), Branch
  PROVE  \E rest, new : CallsAfter(rest, new)
<1>1. PICK s \in Seq(Frame) : s = stack /\ s # <<>>
  BY DEF TypeInv, AtItem
<1>2. PICK a \in Frame : a = Advanced
  BY AdvancedType
<1>3. PICK t \in Seq(Frame) : t = Tail(s) /\ ToSet(s) = {s[1]} \cup ToSet(t)
  <2> HIDE DEF Frame
  <2> QED
    BY <1>1, TailElements
<1>4. ToSet(stack) = {Top} \cup ToSet(t)
  BY <1>1, <1>3, TopType DEF AtItem
<1>5. PICK one \in Seq(Frame) : one = <<a>> \o t /\ ToSet(one) = {a} \cup ToSet(t)
  <2> HIDE DEF Frame
  <2> QED
    BY PushedElements, Pushed
<1>6. ASSUME stack' = <<Advanced>> \o Tail(stack), \A q \in Below(PairOf(Top)) : q[1] # item1
      PROVE  CallsAfter(ToSet(t), {})
  <2>1. ToSet(stack') = {Advanced} \cup ToSet(t)
    BY <1>1, <1>2, <1>3, <1>5, <1>6
  <2> QED
    BY <1>4, <1>6, <2>1 DEF CallsAfter
<1>7. ASSUME NEW c \in Frame, stack' = <<c>> \o (<<Advanced>> \o Tail(stack)),
             c.i = 1, PairOf(c) \in Below(PairOf(Top)),
             \A q \in Below(PairOf(Top)) : q[1] = item1 => q = PairOf(c)
      PROVE  CallsAfter(ToSet(t), {c})
  <2>1. ToSet(<<c>> \o one) = {c} \cup ToSet(one)
    <3> HIDE DEF Frame
    <3> QED
      BY PushedElements
  <2>2. stack' = <<c>> \o one
    BY <1>1, <1>2, <1>3, <1>5, <1>7
  <2>3. ToSet(stack') = {Advanced} \cup ToSet(t) \cup {c}
    BY <1>2, <1>5, <2>1, <2>2
  <2> QED
    BY <1>4, <1>7, <2>3 DEF CallsAfter
<1> QED
  BY <1>6, <1>7, BranchCalls

\* A return ends a call that was at the end of its first object.
LEMMA ReturnStack ==
  ASSUME TypeInv, Return
  PROVE  /\ ToSet(stack) = {Top} \cup ToSet(stack') /\ UNCHANGED JSONObjDiff
         /\ \A j \in DOMAIN PairOf(Top)[1].child : ~(Top.i <= j)
<1>1. PICK s \in Seq(Frame) : s = stack /\ s # <<>>
  BY DEF TypeInv, Return
<1>2. stack' = Tail(s) /\ UNCHANGED JSONObjDiff /\ state = "run" /\ Top.i > Len(Attributes)
  BY <1>1 DEF Return
<1>3. ToSet(s) = {s[1]} \cup ToSet(Tail(s))
  <2> HIDE DEF Frame
  <2> QED
    BY <1>1, TailElements
<1>4. Top = stack[1] /\ Top \in Frame
  BY <1>2, TopType
<1>5. PairOf(Top)[1].child = Attributes /\ Attributes \in Seq(Items) /\ Top.i \in Nat
  BY <1>4, PairType, FrameType DEF Attributes
<1>6. \A j \in DOMAIN Attributes : ~(Top.i <= j)
  BY <1>2, <1>5
<1> QED
  BY <1>1, <1>2, <1>3, <1>4, <1>5, <1>6

LEMMA TopIsReached ==
  ASSUME TypeInv, SoundInv, AtItem, <<root1, root2>> \in Comparable
  PROVE  /\ Top \in ToSet(stack) /\ PairOf(Top) \in Reached(root1, root2)
         /\ item1 \in ToSet(PairOf(Top)[1].child) /\ PairOf(Top)[2] = Head(Top.obj2)
<1>1. /\ Top \in Frame /\ Top = stack[1] /\ Len(stack) \in Nat \ {0}
      /\ Attributes = Head(Top.obj1).child /\ Top.i \in 1..Len(Attributes) /\ Attributes \in Seq(Items)
  BY TopType DEF AtItem
<1>2. Top \in ToSet(stack)
  <2>1. 1 \in DOMAIN stack
    <3>1. stack \in Seq(Frame)
      BY DEF TypeInv
    <3> HIDE DEF Frame
    <3> QED
      BY <1>1, <3>1
  <2> QED
    BY <1>1, <2>1 DEF ToSet
<1>3. item1 \in ToSet(Attributes)
  BY <1>1 DEF item1, ToSet
<1> QED
  BY <1>1, <1>2, <1>3, PairType DEF SoundInv

LEMMA SoundStep ==
  ASSUME TypeInv, StackInv, SoundInv, [Next]_vars
  PROVE  SoundInv'
<1>1. CASE UNCHANGED vars
  BY <1>1 DEF vars, SoundInv
<1>2. CASE Next
  <2>1. UNCHANGED <<root1, root2>>
    BY <1>2 DEF Next, Step, vars, DiffUnnamed, SkipArray, DiffArray, DiffObject, DiffScalar,
       DiffAdded, Return, Dies, Goes
  <2> SUFFICES ASSUME <<root1, root2>> \in Comparable PROVE SoundInv'
    BY <2>1 DEF SoundInv
  <2>2. PICK R : /\ R = Reached(root1, root2) /\ Closed(R)
                 /\ \A f \in ToSet(stack) : PairOf(f) \in R
                 /\ ToSet(JSONObjDiff) \subseteq AllDue(R)
    <3>1. root1 \in Items /\ root2 \in Items
      BY ItemsAssumption DEF TypeInv
    <3> QED
      BY <3>1, ReachedFacts DEF SoundInv
  <2>3. ASSUME \A f \in ToSet(stack') : PairOf(f) \in R, ToSet(JSONObjDiff') \subseteq AllDue(R)
        PROVE  SoundInv'
    BY <2>1, <2>2, <2>3 DEF SoundInv
  <2>4. CASE Branch /\ AtItem
    <3>1. Paired(Top)
      BY <1>2, ComparableStep
    <3>2. PICK rest, new : CallsAfter(rest, new)
      BY <2>4, <3>1, BranchStack
    <3>3. PairOf(Top) \in R /\ item1 \in ToSet(PairOf(Top)[1].child) /\ PairOf(Top)[2] = Head(Top.obj2)
      BY <2>2, <2>4, TopIsReached
    <3>4. PairOf(Advanced) = PairOf(Top)
      BY <2>4, AdvancedType DEF PairOf
    <3>5. \A f \in ToSet(stack') : PairOf(f) \in R
      <4>1. \A f \in rest : PairOf(f) \in R
        BY <2>2, <3>2 DEF CallsAfter
      <4>2. \A c \in new : PairOf(c) \in R
        BY <2>2, <3>2, <3>3 DEF CallsAfter, Closed
      <4> QED
        BY <3>2, <3>3, <3>4, <4>1, <4>2 DEF CallsAfter
    <3>6. AttributeDue(item1, Head(Top.obj2)) \subseteq AllDue(R)
      BY <3>3, AllDueOf
    <3>7. ToSet(JSONObjDiff') \subseteq AllDue(R)
      BY <2>2, <2>4, <3>1, <3>6, BranchSays
    <3> QED
      BY <2>3, <3>5, <3>7
  <2>5. CASE Return
    BY <2>2, <2>3, <2>5, ReturnStack
  <2>6. CASE UNCHANGED vars
    BY <2>6 DEF vars, SoundInv
  <2> QED
    BY <1>2, <2>4, <2>5, <2>6, ComparableStep
<1> QED
  BY <1>1, <1>2

\* What was ahead still is, or it is what the step covers.
LEMMA AheadStays ==
  ASSUME TypeInv, AtItem, NEW rest, NEW new, CallsAfter(rest, new),
         NEW p, NEW j \in Nat, Ahead(p, j, ToSet(stack))
  PROVE  Ahead(p, j, ToSet(stack')) \/ (p = PairOf(Top) /\ j = Top.i)
<1>1. PICK f \in ToSet(stack) : PairOf(f) = p /\ f.i <= j
  BY DEF Ahead
<1>2. CASE f \in rest
  BY <1>1, <1>2 DEF CallsAfter, Ahead
<1>3. CASE f = Top
  <2>1. /\ Top.i \in Nat /\ Advanced.i = Top.i + 1 /\ PairOf(Advanced) = PairOf(Top)
    <3>1. Top \in Frame
      BY TopType DEF AtItem
    <3> QED
      BY <3>1, AdvancedType DEF Advanced, Frame, PairOf
  <2>2. Top.i = j \/ Advanced.i <= j
    BY <1>1, <1>3, <2>1
  <2> QED
    BY <1>1, <1>3, <2>1, <2>2 DEF CallsAfter, Ahead
<1> QED
  BY <1>1, <1>2, <1>3 DEF CallsAfter

LEMMA CoverBranch ==
  ASSUME TypeInv, AtItem, Branch, Paired(Top),
         NEW W \in SUBSET (Items \X Items),
         \A p \in W : \A j \in DOMAIN p[1].child :
           Covered(p, j, W, ToSet(JSONObjDiff)) \/ Ahead(p, j, ToSet(stack))
  PROVE  \E V \in SUBSET (Items \X Items) :
           /\ W \subseteq V
           /\ \A p \in V : \A j \in DOMAIN p[1].child :
                Covered(p, j, V, ToSet(JSONObjDiff')) \/ Ahead(p, j, ToSet(stack'))
<1>1. PICK rest, new : CallsAfter(rest, new)
  BY BranchStack
<1>2. PICK V : V = W \cup {PairOf(c) : c \in new}
  OBVIOUS
<1>3. /\ Top \in Frame /\ PairOf(Top) \in Items \X Items
      /\ PairOf(Top)[1] = Head(Top.obj1) /\ PairOf(Top)[2] = Head(Top.obj2)
      /\ item1 = PairOf(Top)[1].child[Top.i]
  <2>1. Top \in Frame
    BY TopType DEF AtItem
  <2> QED
    BY <2>1, PairType DEF item1, Attributes
<1>4. V \in SUBSET (Items \X Items)
  BY <1>1, <1>2, <1>3, BelowType DEF CallsAfter
<1>5. ToSet(JSONObjDiff') = ToSet(JSONObjDiff) \cup AttributeDue(item1, PairOf(Top)[2])
  BY <1>3, BranchSays
<1>6. Covered(PairOf(Top), Top.i, V, ToSet(JSONObjDiff'))
  BY <1>1, <1>2, <1>3, <1>5 DEF Covered, CallsAfter
<1>7. \A p \in V : \A j \in DOMAIN p[1].child : j \in Nat /\ 1 <= j
  <2> TAKE p \in V
  <2>1. p[1].child \in Seq(Items)
    BY <1>4, ItemType
  <2> QED
    BY <2>1
<1>8. ASSUME NEW p \in W, NEW j \in DOMAIN p[1].child
      PROVE  Covered(p, j, V, ToSet(JSONObjDiff')) \/ Ahead(p, j, ToSet(stack'))
  <2>1. CASE Covered(p, j, W, ToSet(JSONObjDiff))
    BY <1>2, <1>5, <2>1, CoverGrows
  <2>2. CASE Ahead(p, j, ToSet(stack))
    <3>1. j \in Nat
      BY <1>2, <1>7
    <3>2. Ahead(p, j, ToSet(stack')) \/ (p = PairOf(Top) /\ j = Top.i)
      BY <1>1, <2>2, <3>1, AheadStays
    <3> QED
      BY <1>6, <3>2
  <2> QED
    BY <2>1, <2>2
<1>9. ASSUME NEW c \in new, NEW j \in DOMAIN PairOf(c)[1].child
      PROVE  Ahead(PairOf(c), j, ToSet(stack'))
  <2>1. c.i = 1 /\ c \in ToSet(stack')
    BY <1>1 DEF CallsAfter
  <2>2. 1 <= j
    BY <1>2, <1>7
  <2> QED
    BY <2>1, <2>2 DEF Ahead
<1>10. \A p \in V : \A j \in DOMAIN p[1].child :
         Covered(p, j, V, ToSet(JSONObjDiff')) \/ Ahead(p, j, ToSet(stack'))
  BY <1>2, <1>8, <1>9
<1> QED
  BY <1>2, <1>4, <1>10

LEMMA CoverStep ==
  ASSUME TypeInv, StackInv, CoverInv, [Next]_vars
  PROVE  CoverInv'
<1>1. CASE UNCHANGED vars
  BY <1>1 DEF vars, CoverInv
<1>2. CASE Next
  <2>1. UNCHANGED <<root1, root2>>
    BY <1>2 DEF Next, Step, vars, DiffUnnamed, SkipArray, DiffArray, DiffObject, DiffScalar,
       DiffAdded, Return, Dies, Goes
  <2> SUFFICES ASSUME <<root1, root2>> \in Comparable PROVE CoverInv'
    BY <2>1 DEF CoverInv
  <2>2. PICK W \in SUBSET (Items \X Items) :
          /\ <<root1, root2>> \in W
          /\ \A p \in W : \A j \in DOMAIN p[1].child :
               Covered(p, j, W, ToSet(JSONObjDiff)) \/ Ahead(p, j, ToSet(stack))
    BY DEF CoverInv
  <2>3. ASSUME NEW V \in SUBSET (Items \X Items), W \subseteq V,
               \A p \in V : \A j \in DOMAIN p[1].child :
                 Covered(p, j, V, ToSet(JSONObjDiff')) \/ Ahead(p, j, ToSet(stack'))
        PROVE  CoverInv'
    BY <2>1, <2>2, <2>3 DEF CoverInv
  <2>4. CASE Branch /\ AtItem
    <3>1. Paired(Top)
      BY <1>2, ComparableStep
    <3> QED
      BY <2>2, <2>3, <2>4, <3>1, CoverBranch
  <2>5. CASE Return
    <3>1. ASSUME NEW p \in W, NEW j \in DOMAIN p[1].child, Ahead(p, j, ToSet(stack))
          PROVE  Ahead(p, j, ToSet(stack'))
      <4>1. PICK f \in ToSet(stack) : PairOf(f) = p /\ f.i <= j
        BY <3>1 DEF Ahead
      <4>2. f # Top
        BY <2>5, <4>1, ReturnStack
      <4>3. f \in ToSet(stack')
        BY <2>5, <4>1, <4>2, ReturnStack
      <4> QED
        BY <4>1, <4>3 DEF Ahead
    <3>2. UNCHANGED JSONObjDiff
      BY <2>5, ReturnStack
    <3> QED
      BY <2>2, <2>3, <3>1, <3>2
  <2>6. CASE UNCHANGED vars
    BY <2>6 DEF vars, CoverInv
  <2> QED
    BY <1>2, <2>4, <2>5, <2>6, ComparableStep
<1> QED
  BY <1>1, <1>2

\* A comparison that is over has no call in progress.
DoneInv == state = "done" => stack = <<>>

LEMMA DoneStep ==
  ASSUME DoneInv, [Next]_vars
  PROVE  DoneInv'
<1>1. CASE UNCHANGED vars
  BY <1>1 DEF vars, DoneInv
<1>2. CASE DiffUnnamed
  BY <1>2 DEF DiffUnnamed, vars, DoneInv
<1>3. CASE Branch
  <2>1. state = "run" /\ state' \in {state, "dead"}
    BY <1>3 DEF Branch, SkipArray, DiffArray, DiffObject, DiffScalar, DiffAdded, AtItem, Dies, Goes
  <2> QED
    BY <2>1 DEF DoneInv
<1>4. CASE Return
  BY <1>4 DEF Return, DoneInv
<1> QED
  BY <1>1, <1>2, <1>3, <1>4 DEF Next, Step, Branch

LEMMA InitCover == Init => SoundInv /\ CoverInv /\ DoneInv
<1> SUFFICES ASSUME Init PROVE SoundInv /\ CoverInv /\ DoneInv
  OBVIOUS
<1>1. root1 \in Items /\ root2 \in Items
  BY ItemsAssumption DEF Init
<1>2. PICK c : c = Call(<<root1>>, <<root2>>)
  OBVIOUS
<1>3. c.i = 1 /\ PairOf(c) = <<root1, root2>>
  BY <1>2 DEF Call, PairOf
<1>4. ToSet(stack) = {c} /\ ToSet(JSONObjDiff) = {} /\ state = "run"
  <2>1. stack = <<c>> /\ JSONObjDiff = <<>> /\ state = "run"
    BY <1>2 DEF Init
  <2>2. DOMAIN stack = {1} /\ stack[1] = c /\ DOMAIN JSONObjDiff = {}
    BY <2>1
  <2> QED
    BY <2>1, <2>2 DEF ToSet
<1>5. SoundInv
  BY <1>1, <1>3, <1>4, ReachedFacts DEF SoundInv
<1>6. CoverInv
  <2>1. PICK W \in SUBSET (Items \X Items) : W = {<<root1, root2>>}
    <3>1. PICK p \in Items \X Items : p = <<root1, root2>>
      BY <1>1
    <3>2. {p} \in SUBSET (Items \X Items)
      OBVIOUS
    <3> QED
      BY <3>1, <3>2
  <2>2. \A j \in DOMAIN root1.child : Ahead(<<root1, root2>>, j, {c})
    <3> TAKE j \in DOMAIN root1.child
    <3>1. 1 <= j
      <4>1. root1.child \in Seq(Items)
        BY <1>1, ItemType
      <4> QED
        BY <4>1
    <3> QED
      BY <1>3, <3>1 DEF Ahead
  <2>3. \A p \in W : \A j \in DOMAIN p[1].child :
          Covered(p, j, W, ToSet(JSONObjDiff)) \/ Ahead(p, j, ToSet(stack))
    BY <1>4, <2>1, <2>2
  <2> QED
    BY <2>1, <2>3 DEF CoverInv
<1> QED
  BY <1>4, <1>5, <1>6 DEF DoneInv

\* When no call is in progress everything that is due has been said.
LEMMA CoveredIsSaid ==
  ASSUME TypeInv, CoverInv, DoneInv, state = "done", <<root1, root2>> \in Comparable
  PROVE  AllDue(Reached(root1, root2)) \subseteq ToSet(JSONObjDiff)
<1>1. ToSet(stack) = {}
  <2>1. stack = <<>>
    BY DEF DoneInv
  <2> QED
    BY <2>1 DEF ToSet
<1>2. PICK W \in SUBSET (Items \X Items) :
        /\ <<root1, root2>> \in W
        /\ \A p \in W : \A j \in DOMAIN p[1].child : Covered(p, j, W, ToSet(JSONObjDiff))
  BY <1>1 DEF CoverInv, Ahead
<1>3. Closed(W)
  <2> SUFFICES ASSUME NEW p \in W, NEW q \in Below(p) PROVE q \in W
    BY DEF Closed
  <2>1. q[1] \in ToSet(p[1].child)
    BY DEF Below
  <2>2. PICK j \in DOMAIN p[1].child : q[1] = p[1].child[j]
    BY <2>1 DEF ToSet
  <2> QED
    BY <1>2, <2>2 DEF Covered
<1>4. Reached(root1, root2) \subseteq W
  <2>1. root1 \in Items /\ root2 \in Items
    BY ItemsAssumption DEF TypeInv
  <2> QED
    BY <1>2, <1>3, <2>1, ReachedFacts
<1>5. ASSUME NEW p \in W, NEW it1 \in ToSet(p[1].child)
      PROVE  AttributeDue(it1, p[2]) \subseteq ToSet(JSONObjDiff)
  <2>1. PICK j \in DOMAIN p[1].child : it1 = p[1].child[j]
    BY <1>5 DEF ToSet
  <2> QED
    BY <1>2, <2>1 DEF Covered
<1> QED
  BY <1>4, <1>5 DEF AllDue

\* What has been said and what is ahead, in every state.
THEOREM CoverInvariance == Spec => [](SoundInv /\ CoverInv /\ DoneInv)
<1>1. TypeInv /\ StackInv /\ SoundInv /\ CoverInv /\ DoneInv /\ [Next]_vars
        => SoundInv' /\ CoverInv' /\ DoneInv'
  BY SoundStep, CoverStep, DoneStep
<1> QED
  BY <1>1, InitCover, Invariance, PTL DEF Spec

\* Between comparable objects, however deep they are, the comparison ends with an
\* entry for every attribute of both that differs, where numbers closer than an epsilon
\* do not, with its value in both, one for every attribute but an array that only the
\* first has, and nothing else, so nothing of what only the second has
\* (diffJSONObjects). Of DiffSaysWhatIsDue this is all but the count: that nothing is
\* said twice.
THEOREM DiffIsDue ==
  Spec => [](state = "done" /\ <<root1, root2>> \in Comparable =>
               ToSet(JSONObjDiff) = AllDue(Reached(root1, root2)))
<1>1. TypeInv /\ SoundInv /\ CoverInv /\ DoneInv =>
        (state = "done" /\ <<root1, root2>> \in Comparable =>
           ToSet(JSONObjDiff) = AllDue(Reached(root1, root2)))
  BY CoveredIsSaid DEF SoundInv
<1> QED
  BY <1>1, Invariance, CoverInvariance, PTL

\* Of an item and itself nothing else is due.
LEMMA ItselfDue ==
  ASSUME NEW it \in Items, NEW k, NEW index, NEW e \in Due(k, index, it, it)
  PROVE  \E x \in Numbers : ~AreSame(x, x) /\ e.text = <<Printed[x], Printed[x]>>
<1>1. Differ(it, it)
  BY DEF Due
<1>2. it.type = "Number" /\ it.valuedouble \in Numbers /\ ~AreSame(it.valuedouble, it.valuedouble)
  BY <1>1, ItemType DEF Differ, AreSame
<1>3. e.text = <<Shown(it), Shown(it)>>
  BY <1>1 DEF Due
<1>4. Shown(it) = Printed[it.valuedouble]
  BY <1>2 DEF Shown
<1> QED
  BY <1>2, <1>3, <1>4

\* For equal objects nothing else is due.
LEMMA EqualDue ==
  ASSUME NEW obj \in Items, <<obj, obj>> \in Comparable, NEW e \in AllDue(Reached(obj, obj))
  PROVE  \E x \in Numbers : ~AreSame(x, x) /\ e.text = <<Printed[x], Printed[x]>>
<1> DEFINE D == {p \in Items \X Items : p[1] = p[2] /\ p \in Comparable}
           Own(d) == \E x \in Numbers : ~AreSame(x, x) /\ d.text = <<Printed[x], Printed[x]>>
<1>1. \A o \in Items : <<o, o>> \in Comparable =>
        \A it1, it2 \in ToSet(o.child) : it1.string = it2.string => it1 = it2
  BY ComparableAssumption DEF Unambiguous, ToSet
<1>2. Closed(D)
  <2> SUFFICES ASSUME NEW p \in D, NEW q \in Below(p) PROVE q \in D
    BY DEF Closed
  <2>1. PICK o \in Items : p = <<o, o>> /\ <<o, o>> \in Comparable
    OBVIOUS
  <2>2. PICK it1 \in ToSet(o.child), it2 \in ToSet(o.child) :
          q = <<it1, it2>> /\ it1.string = it2.string /\ it1.type = "Object"
    BY <2>1 DEF Below
  <2>3. it1 = it2
    BY <1>1, <2>1, <2>2
  <2>4. <<it1, it2>> \in Comparable
    BY <2>1, <2>2, ComparableAssumption
  <2>5. q \in Items \X Items
    BY BelowType
  <2> QED
    BY <2>2, <2>3, <2>4, <2>5
<1>3. Reached(obj, obj) \subseteq D
  <2>1. D \in SUBSET (Items \X Items) /\ <<obj, obj>> \in D
    OBVIOUS
  <2> HIDE DEF D
  <2> QED
    BY <1>2, <2>1, ReachedFacts
<1>4. ASSUME NEW p \in D, NEW it1 \in ToSet(p[1].child), NEW d \in AttributeDue(it1, p[2])
      PROVE  Own(d)
  <2>1. PICK its : its = {it2 \in ToSet(p[2].child) : it2.string = it1.string}
    OBVIOUS
  <2>2. its = {it1} /\ p[1] \in Items
    BY <1>1, <1>4, <2>1
  <2>3. AttributeDue(it1, p[2]) = ChangeDue(it1, it1)
    <3>1. AttributeDue(it1, p[2]) = UNION {ChangeDue(it1, it2) : it2 \in its}
      BY <2>1, <2>2 DEF AttributeDue
    <3> QED
      BY <2>2, <3>1
  <2>4. it1 \in Items
    <3>1. p[1].child \in Seq(Items)
      BY <2>2, ItemType
    <3> QED
      BY <1>4, <3>1 DEF ToSet
  <2>5. CASE it1.type = "Array"
    <3>1. PICK n \in DOMAIN it1.child \cap DOMAIN it1.child :
            d \in Due(it1.string, n - 1, it1.child[n], it1.child[n])
      BY <1>4, <2>3, <2>5 DEF ChangeDue
    <3>2. it1.child[n] \in Items
      <4>1. it1.child \in Seq(Items) /\ n \in DOMAIN it1.child
        BY <2>4, ItemType
      <4> QED
        BY <4>1
    <3> QED
      BY <3>1, <3>2, ItselfDue
  <2>6. CASE it1.type # "Array"
    <3>1. d \in Due(it1.string, NoIndex, it1, it1)
      BY <1>4, <2>3, <2>6 DEF ChangeDue
    <3> QED
      BY <2>4, <3>1, ItselfDue
  <2> QED
    BY <2>5, <2>6
<1>5. PICK p \in Reached(obj, obj) : \E it1 \in ToSet(p[1].child) : e \in AttributeDue(it1, p[2])
  BY DEF AllDue
<1>6. p \in D
  BY <1>3, <1>5
<1> HIDE DEF D
<1> QED
  BY <1>4, <1>5, <1>6

\* An object without ambiguous names, compared with one that is the same, gives no entry,
\* at any moment, but of numbers that are not AreSame as themselves, the infinite ones,
\* which it shows twice (diffJSONObjects, CNT_JSON.c:869-871).
THEOREM EqualSaysInfinite ==
  Spec => [](root1 = root2 /\ <<root1, root2>> \in Comparable =>
               \A e \in ToSet(JSONObjDiff) :
                 \E x \in Numbers : ~AreSame(x, x) /\ e.text = <<Printed[x], Printed[x]>>)
<1>1. TypeInv /\ SoundInv =>
        (root1 = root2 /\ <<root1, root2>> \in Comparable =>
           \A e \in ToSet(JSONObjDiff) :
             \E x \in Numbers : ~AreSame(x, x) /\ e.text = <<Printed[x], Printed[x]>>)
  <2> SUFFICES ASSUME TypeInv, SoundInv, root1 = root2, <<root1, root2>> \in Comparable,
                      NEW e \in ToSet(JSONObjDiff)
               PROVE  \E x \in Numbers : ~AreSame(x, x) /\ e.text = <<Printed[x], Printed[x]>>
    OBVIOUS
  <2>1. root1 \in Items
    BY ItemsAssumption DEF TypeInv
  <2>2. e \in AllDue(Reached(root1, root1))
    BY DEF SoundInv
  <2> QED
    BY <2>1, <2>2, EqualDue
<1> QED
  BY <1>1, Invariance, CoverInvariance, PTL
===============================================================================
