------------------------------ MODULE ListLemmas ------------------------------
(***************************************************************************)
(* What the proofs about the components share: least and greatest numbers, *)
(* first places, and parts of sequences.                                   *)
(***************************************************************************)
EXTENDS Integers, Sequences, SequenceTheorems, WellFoundedInduction, TLAPS

\* A set of numbers that has an element has a least one.
LEMMA Least ==
  ASSUME NEW S, S \subseteq Nat, S # {}
  PROVE  \E m \in S : \A n \in S : m <= n
<1> DEFINE R == {ss \in Nat \X Nat : ss[1] < ss[2]}
<1>1. IsWellFoundedOn(R, Nat)
  BY NatLessThanWellFounded, Zenon DEF OpToRel
<1>2. \A a, b \in Nat : a < b => <<a, b>> \in R
  OBVIOUS
<1> HIDE DEF R
<1>3. PICK m \in S : \A n \in S : ~(<<n, m>> \in R)
  BY <1>1, WFMin
<1>4. ASSUME NEW n \in S PROVE m <= n
  <2>1. ~(n < m)
    BY <1>2, <1>3, Zenon
  <2> QED
    BY <2>1
<1> QED
  BY <1>4

\* A set of numbers up to n that has an element has a greatest one.
LEMMA Greatest ==
  ASSUME NEW n \in Nat, NEW S, S \subseteq 1..n, S # {}
  PROVE  \E m \in S : \A i \in S : i <= m
<1> DEFINE T == {n - i : i \in S}
<1>1. T \subseteq Nat /\ T # {}
  <2>1. \A i \in S : n - i \in Nat /\ n - i \in T
    OBVIOUS
  <2> QED
    BY <2>1
<1>2. PICK t \in T : \A u \in T : t <= u
  <2> HIDE DEF T
  <2> QED
    BY <1>1, Least
<1>3. PICK m \in S : t = n - m
  OBVIOUS
<1>4. ASSUME NEW i \in S PROVE i <= m
  <2>1. n - i \in T
    OBVIOUS
  <2>2. t <= n - i
    BY <1>2, <2>1
  <2> QED
    BY <1>3, <2>2
<1> QED
  BY <1>4

\* v is at i in f, and not before.
FirstAt(f, v, i) == f[i] = v /\ \A j \in 1..(i - 1) : f[j] # v

\* A value that is among the first n of a function has a first place there.
LEMMA FirstPlace ==
  ASSUME NEW f, NEW n \in Nat, NEW v, \E p \in 1..n : f[p] = v
  PROVE  \E i \in 1..n : FirstAt(f, v, i)
<1> DEFINE S == {i \in 1..n : f[i] = v}
<1>1. S \subseteq Nat /\ S # {}
  OBVIOUS
<1>2. PICK m \in S : \A i \in S : m <= i
  <2> HIDE DEF S
  <2> QED
    BY <1>1, Least
<1>3. \A j \in 1..(m - 1) : j \in 1..n /\ ~(m <= j)
  OBVIOUS
<1> QED
  BY <1>2, <1>3 DEF FirstAt

\* Concatenation associates, for sequences over any set.
LEMMA Associates ==
  \A T : \A u, v, w \in Seq(T) : (u \o v) \o w = u \o (v \o w)
<1> TAKE T
<1> QED
  BY ConcatAssociative

\* A part of the first of two sequences is that part of both together.
LEMMA PartOfConcat ==
  ASSUME NEW S, NEW s \in Seq(S), NEW t \in Seq(S), NEW a \in Nat, a > 0, NEW b \in Int,
         b <= Len(s)
  PROVE  SubSeq(s \o t, a, b) = SubSeq(s, a, b)
<1>1. /\ s \o t \in Seq(S) /\ Len(s \o t) = Len(s) + Len(t)
      /\ \A i \in 1..(Len(s) + Len(t)) :
           (s \o t)[i] = IF i <= Len(s) THEN s[i] ELSE t[i - Len(s)]
  BY ConcatProperties
<1>2. Len(s) \in Nat /\ Len(t) \in Nat
  BY LenProperties
<1>3. \A i \in a..b : (s \o t)[i] = s[i] /\ s[i] \in S
  <2> TAKE i \in a..b
  <2>1. i \in 1..Len(s) /\ i \in 1..(Len(s) + Len(t))
    BY <1>2
  <2> QED
    BY <1>1, <2>1, ElementOfSeq
<1> DEFINE u == SubSeq(s \o t, a, b)
           v == SubSeq(s, a, b)
<1>4. \A i \in a..b : (s \o t)[i] \in S
  BY <1>3
<1>5. /\ u \in Seq(S) /\ Len(u) = IF a <= b THEN b - a + 1 ELSE 0
      /\ \A i \in 1..(b - a + 1) : u[i] = (s \o t)[a + i - 1]
  BY <1>4, SubSeqProperties
<1>6. /\ v \in Seq(S) /\ Len(v) = IF a <= b THEN b - a + 1 ELSE 0
      /\ \A i \in 1..(b - a + 1) : v[i] = s[a + i - 1]
  BY <1>3, SubSeqProperties
<1> HIDE DEF u, v
<1>7. \A i \in 1..(b - a + 1) : a + i - 1 \in a..b
  OBVIOUS
<1>8. \A i \in 1..Len(u) : i \in 1..(b - a + 1)
  BY <1>5
<1>9. \A i \in 1..Len(u) : u[i] = v[i]
  BY <1>3, <1>5, <1>6, <1>7, <1>8
<1>10. u = v
  BY <1>5, <1>6, <1>9, SeqEqual
<1> QED
  BY <1>10 DEF u, v

\* The rest of two sequences, from a place in the first or right behind it.
LEMMA RestOfConcat ==
  ASSUME NEW S, NEW s \in Seq(S), NEW t \in Seq(S), NEW a \in 1..(Len(s) + 1)
  PROVE  SubSeq(s \o t, a, Len(s \o t)) = SubSeq(s, a, Len(s)) \o t
<1>1. Len(s) \in Nat /\ Len(t) \in Nat /\ a \in Nat /\ a > 0 /\ a <= Len(s) + 1
  BY LenProperties
<1> DEFINE n == Len(s)
           m == Len(t)
           c == s \o t
           u == SubSeq(c, a, n + m)
           r == SubSeq(s, a, n)
           v == r \o t
<1>2. /\ c \in Seq(S) /\ Len(c) = n + m
      /\ \A i \in 1..(n + m) : c[i] = IF i <= n THEN s[i] ELSE t[i - n]
  BY ConcatProperties
<1>3. \A i \in 1..n : s[i] \in S
  BY ElementOfSeq
<1>4. \A i \in 1..(n + m) : c[i] \in S
  BY <1>2, ElementOfSeq
<1> HIDE DEF c
<1>5. /\ u \in Seq(S) /\ Len(u) = IF a <= n + m THEN n + m - a + 1 ELSE 0
      /\ \A i \in 1..(n + m - a + 1) : u[i] = c[a + i - 1]
  <2>1. n + m \in Int /\ \A i \in a..(n + m) : c[i] \in S
    BY <1>1, <1>4
  <2> QED
    BY <1>1, <2>1, SubSeqProperties
<1>6. /\ r \in Seq(S) /\ Len(r) = IF a <= n THEN n - a + 1 ELSE 0
      /\ \A i \in 1..(n - a + 1) : r[i] = s[a + i - 1]
  <2>1. n \in Int /\ \A i \in a..n : s[i] \in S
    BY <1>1, <1>3
  <2> QED
    BY <1>1, <2>1, SubSeqProperties
<1> HIDE DEF u, r
<1>7. /\ v \in Seq(S) /\ Len(v) = Len(r) + Len(t)
      /\ \A i \in 1..(Len(r) + Len(t)) : v[i] = IF i <= Len(r) THEN r[i] ELSE t[i - Len(r)]
  BY <1>6, ConcatProperties
<1> HIDE DEF v
<1>8. Len(r) = n - a + 1 /\ Len(u) = n + m - a + 1 /\ Len(v) = Len(u)
  BY <1>1, <1>5, <1>6, <1>7
<1> HIDE DEF n, m
<1>9. n \in Nat /\ m \in Nat /\ m = Len(t) /\ a \in Nat /\ a > 0 /\ a <= n + 1
  BY <1>1 DEF n, m
<1>10. ASSUME NEW i \in 1..Len(u) PROVE u[i] = v[i]
  <2>1. i \in 1..(n + m - a + 1) /\ i \in 1..(Len(r) + Len(t)) /\ a + i - 1 \in 1..(n + m)
    BY <1>8, <1>9
  <2>2. u[i] = IF a + i - 1 <= n THEN s[a + i - 1] ELSE t[a + i - 1 - n]
    <3> DEFINE x == a + i - 1
    <3>1. u[i] = c[x]
      BY <1>5, <2>1
    <3>2. x - n = a + i - 1 - n /\ x \in 1..(n + m)
      BY <1>9, <2>1
    <3> HIDE DEF x
    <3>3. c[x] = IF x <= n THEN s[x] ELSE t[x - n]
      BY <1>2, <3>2
    <3> QED
      BY <3>1, <3>2, <3>3 DEF x
  <2>3. v[i] = IF i <= n - a + 1 THEN r[i] ELSE t[i - (n - a + 1)]
    BY <1>7, <1>8, <2>1
  <2>4. CASE a + i - 1 <= n
    <3>1. i <= n - a + 1 /\ i \in 1..(n - a + 1)
      BY <1>9, <2>1, <2>4
    <3> QED
      BY <1>6, <2>2, <2>3, <2>4, <3>1
  <2>5. CASE ~(a + i - 1 <= n)
    <3>1. ~(i <= n - a + 1) /\ i - (n - a + 1) = a + i - 1 - n
      BY <1>9, <2>1, <2>5
    <3> QED
      BY <2>2, <2>3, <2>5, <3>1
  <2> QED
    BY <2>4, <2>5
<1>11. u = v
  BY <1>5, <1>7, <1>8, <1>10, SeqEqual
<1> QED
  BY <1>2, <1>11 DEF u, v, r, c, n, m

\* A part of the rest of a sequence is a part of it.
LEMMA PartOfRest ==
  ASSUME NEW S, NEW s \in Seq(S), NEW a \in 1..(Len(s) + 1), NEW i \in Nat, i > 0, NEW j \in Int,
         j <= Len(s) - a + 1
  PROVE  SubSeq(SubSeq(s, a, Len(s)), i, j) = SubSeq(s, (a + i) - 1, (a + j) - 1)
<1> DEFINE n == Len(s)
           r == SubSeq(s, a, n)
           u == SubSeq(r, i, j)
           v == SubSeq(s, (a + i) - 1, (a + j) - 1)
<1>1. n \in Nat /\ a \in Nat /\ a > 0 /\ a <= n + 1 /\ j <= n - a + 1
  BY LenProperties
<1>2. \A k \in 1..n : s[k] \in S
  BY ElementOfSeq
<1> HIDE DEF n
<1>3. /\ r \in Seq(S) /\ \A k \in 1..(n - a + 1) : r[k] = s[a + k - 1]
  <2>1. \A k \in a..n : s[k] \in S
    BY <1>1, <1>2
  <2> QED
    BY <1>1, <2>1, SubSeqProperties
<1> HIDE DEF r
<1>4. \A k \in i..j : r[k] = s[a + k - 1] /\ a + k - 1 \in 1..n
  BY <1>1, <1>3
<1>5. \A k \in i..j : r[k] \in S
  BY <1>2, <1>4
<1>6. \A k \in ((a + i) - 1)..((a + j) - 1) : s[k] \in S
  <2> TAKE k \in ((a + i) - 1)..((a + j) - 1)
  <2>1. k \in 1..n
    BY <1>1
  <2> QED
    BY <1>2, <2>1
<1>7. /\ u \in Seq(S) /\ Len(u) = IF i <= j THEN j - i + 1 ELSE 0
      /\ \A k \in 1..(j - i + 1) : u[k] = r[i + k - 1]
  BY <1>5, SubSeqProperties
<1>8. /\ v \in Seq(S)
      /\ Len(v) = IF (a + i) - 1 <= (a + j) - 1 THEN ((a + j) - 1) - ((a + i) - 1) + 1 ELSE 0
      /\ \A k \in 1..(((a + j) - 1) - ((a + i) - 1) + 1) : v[k] = s[((a + i) - 1) + k - 1]
  <2>1. (a + i) - 1 \in Int /\ (a + j) - 1 \in Int
    BY <1>1
  <2> QED
    BY <1>6, <2>1, SubSeqProperties
<1> HIDE DEF u, v
<1>9. /\ Len(v) = Len(u)
      /\ \A k \in 1..Len(u) :
           k \in 1..(j - i + 1) /\ k \in 1..(((a + j) - 1) - ((a + i) - 1) + 1)
  BY <1>1, <1>7, <1>8
<1>10. ASSUME NEW k \in 1..Len(u) PROVE u[k] = v[k]
  <2>1. u[k] = r[i + k - 1] /\ v[k] = s[((a + i) - 1) + k - 1]
    BY <1>7, <1>8, <1>9
  <2>2. i + k - 1 \in i..j /\ a + (i + k - 1) - 1 = ((a + i) - 1) + k - 1
    BY <1>1, <1>9
  <2> QED
    BY <1>4, <2>1, <2>2
<1>11. u = v
  BY <1>7, <1>8, <1>9, <1>10, SeqEqual
<1> QED
  BY <1>11 DEF u, v, r, n

\* A sequence is its head and then its tail.
LEMMA HeadThenTail ==
  ASSUME NEW S, NEW s \in Seq(S), s # <<>>
  PROVE  s = <<Head(s)>> \o Tail(s)
<1> DEFINE h == Head(s)
           t == Tail(s)
<1>1. h \in S /\ t \in Seq(S) /\ Len(t) = Len(s) - 1 /\ \A i \in 1..Len(t) : t[i] = s[i + 1]
  BY HeadTailProperties
<1>2. h = s[1] /\ Len(s) \in Nat /\ Len(s) > 0
  OBVIOUS
<1> HIDE DEF h, t
<1>3. <<h>> \in Seq(S) /\ Len(<<h>>) = 1 /\ <<h>>[1] = h
  BY <1>1
<1>4. /\ <<h>> \o t \in Seq(S) /\ Len(<<h>> \o t) = 1 + Len(t)
      /\ \A i \in 1..(1 + Len(t)) : (<<h>> \o t)[i] = IF i <= 1 THEN <<h>>[i] ELSE t[i - 1]
  BY <1>1, <1>3, ConcatProperties
<1>5. \A i \in 1..Len(s) : s[i] = (<<h>> \o t)[i]
  <2> TAKE i \in 1..Len(s)
  <2>1. CASE i = 1
    BY <1>1, <1>2, <1>3, <1>4, <2>1
  <2>2. CASE i # 1
    <3>1. i - 1 \in 1..Len(t) /\ (i - 1) + 1 = i /\ i \in 1..(1 + Len(t)) /\ ~(i <= 1)
      BY <1>1, <1>2, <2>2
    <3> QED
      BY <1>1, <1>4, <3>1
  <2> QED
    BY <2>1, <2>2
<1>6. Len(s) = Len(<<h>> \o t)
  BY <1>1, <1>2, <1>4
<1>7. s = <<h>> \o t
  BY <1>4, <1>5, <1>6, SeqEqual
<1> QED
  BY <1>7 DEF h, t

(***************************************************************************)
(* Sequences of sequences, put together from the first on.                 *)
(***************************************************************************)
Joined(f, seqs) == f = [i \in 1..Len(seqs) |-> IF i = 1 THEN seqs[i] ELSE f[i-1] \o seqs[i]]

LEMMA JoinedExists ==
  ASSUME NEW seqs, Len(seqs) \in Nat
  PROVE  \E f : Joined(f, seqs)
<1> DEFINE N == Len(seqs)
           Flat(f, n) == f = [i \in 1..n |-> IF i = 1 THEN seqs[i] ELSE f[i-1] \o seqs[i]]
<1>1. \A n \in 0..N : \E f : Flat(f, n)
  <2> DEFINE S == {n \in 0..N : ~(\E f : Flat(f, n))}
  <2> HIDE DEF Flat
  <2>1. SUFFICES ASSUME S # {} PROVE FALSE
    OBVIOUS
  <2>2. PICK n \in S : \A m \in S : n <= m
    <3>1. S \subseteq Nat
      OBVIOUS
    <3> HIDE DEF S
    <3> QED
      BY <2>1, <3>1, Least
  <2>3. CASE n = 0
    <3>1. Flat(<<>>, 0)
      BY DEF Flat
    <3> QED
      BY <2>2, <2>3, <3>1
  <2>4. CASE n # 0
    <3>1. n - 1 \in 0..N /\ n - 1 \notin S /\ n \in Nat /\ n >= 1
      BY <2>2, <2>4
    <3>2. PICK f : Flat(f, n - 1)
      BY <3>1
    <3>6. f = [i \in 1..(n - 1) |-> IF i = 1 THEN seqs[i] ELSE f[i-1] \o seqs[i]]
      BY <3>2 DEF Flat
    <3> DEFINE h == [i \in 1..n |-> IF i = 1 THEN seqs[i] ELSE f[i-1] \o seqs[i]]
    <3>3. \A i \in 1..(n - 1) : h[i] = f[i]
      <4>1. \A i \in 1..(n - 1) : i \in 1..n
        BY <3>1
      <4> QED
        BY <3>6, <4>1
    <3>4. \A i \in 1..n : i # 1 => h[i-1] = f[i-1]
      <4> HIDE DEF h
      <4>1. \A i \in 1..n : i # 1 => i - 1 \in 1..(n - 1)
        BY <3>1
      <4> QED
        BY <3>3, <4>1
    <3>5. Flat(h, n)
      <4>1. h = [i \in 1..n |-> IF i = 1 THEN seqs[i] ELSE h[i-1] \o seqs[i]]
        <5>1. \A i \in 1..n : (IF i = 1 THEN seqs[i] ELSE f[i-1] \o seqs[i])
                               = (IF i = 1 THEN seqs[i] ELSE h[i-1] \o seqs[i])
          <6> HIDE DEF h
          <6> QED
            BY <3>4
        <5> QED
          BY <5>1
      <4> QED
        BY <4>1 DEF Flat
    <3> QED
      BY <2>2, <3>5
  <2> QED
    BY <2>3, <2>4
<1>2. PICK f : Flat(f, N)
  <2> HIDE DEF Flat
  <2>1. N \in 0..N
    OBVIOUS
  <2> QED
    BY <1>1, <2>1
<1> QED
  BY <1>2 DEF Joined

\* What is put together from sequences over a set are sequences over it.
LEMMA JoinedType ==
  ASSUME NEW E, NEW seqs \in Seq(Seq(E)), NEW g, Joined(g, seqs)
  PROVE  \A i \in 1..Len(seqs) : g[i] \in Seq(E)
<1> DEFINE N == Len(seqs)
           S == {i \in 1..N : g[i] \notin Seq(E)}
<1>1. N \in Nat /\ \A i \in 1..N : seqs[i] \in Seq(E)
  OBVIOUS
<1>2. g = [i \in 1..N |-> IF i = 1 THEN seqs[i] ELSE g[i-1] \o seqs[i]]
  BY DEF Joined
<1>3. SUFFICES ASSUME S # {} PROVE FALSE
  OBVIOUS
<1>4. PICK i \in S : \A j \in S : i <= j
  <2>1. S \subseteq Nat
    BY <1>1
  <2> HIDE DEF S
  <2> QED
    BY <1>3, <2>1, Least
<1>5. i # 1
  BY <1>1, <1>2, <1>4
<1>6. i - 1 \in 1..N /\ i - 1 \notin S /\ i \in 1..N
  BY <1>1, <1>4, <1>5
<1>7. g[i] = g[i-1] \o seqs[i]
  BY <1>2, <1>5, <1>6
<1>8. g[i-1] \in Seq(E) /\ seqs[i] \in Seq(E) /\ g[i] \notin Seq(E)
  BY <1>1, <1>4, <1>6
<1> QED
  BY <1>7, <1>8

\* With a sequence more, what was put together stays, and the last is put behind it.
LEMMA JoinedAppend ==
  ASSUME NEW E, NEW seqs \in Seq(Seq(E)), NEW s \in Seq(E), NEW more, more = Append(seqs, s),
         NEW g, Joined(g, seqs), NEW h, Joined(h, more)
  PROVE  h[Len(seqs) + 1] = IF Len(seqs) = 0 THEN s ELSE g[Len(seqs)] \o s
<1>1. PICK N \in Nat : N = Len(seqs)
  BY LenProperties
<1>2. Len(more) = N + 1 /\ more[N + 1] = s /\ \A i \in 1..N : more[i] = seqs[i]
  BY <1>1, AppendProperties
<1>3. g = [i \in 1..N |-> IF i = 1 THEN seqs[i] ELSE g[i-1] \o seqs[i]]
  BY <1>1 DEF Joined
<1>4. h = [i \in 1..(N + 1) |-> IF i = 1 THEN more[i] ELSE h[i-1] \o more[i]]
  BY <1>2 DEF Joined
<1>5. \A i \in 1..N : h[i] = g[i]
  <2> DEFINE S == {i \in 1..N : h[i] # g[i]}
  <2>1. SUFFICES ASSUME S # {} PROVE FALSE
    OBVIOUS
  <2>2. PICK i \in S : \A j \in S : i <= j
    <3>1. S \subseteq Nat
      OBVIOUS
    <3> HIDE DEF S
    <3> QED
      BY <2>1, <3>1, Least
  <2>3. i \in 1..N /\ i \in 1..(N + 1) /\ h[i] # g[i]
    OBVIOUS
  <2>4. i # 1
    BY <1>2, <1>3, <1>4, <2>3
  <2>5. i - 1 \in 1..N /\ i - 1 \notin S
    BY <2>2, <2>3, <2>4
  <2>6. h[i] = h[i-1] \o more[i] /\ g[i] = g[i-1] \o seqs[i]
    BY <1>3, <1>4, <2>3, <2>4
  <2>7. h[i-1] = g[i-1] /\ more[i] = seqs[i]
    BY <1>2, <2>3, <2>5
  <2> QED
    BY <2>3, <2>6, <2>7
<1>6. N + 1 \in 1..(N + 1) /\ (N + 1) - 1 = N
  OBVIOUS
<1>7. h[N + 1] = IF N + 1 = 1 THEN more[N + 1] ELSE h[(N + 1) - 1] \o more[N + 1]
  BY <1>4, <1>6
<1> QED
  BY <1>1, <1>2, <1>5, <1>6, <1>7
===============================================================================
