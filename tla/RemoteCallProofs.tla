--------------------------- MODULE RemoteCallProofs ---------------------------
(***************************************************************************)
(* Theorems about RemoteCall, for any scripts of commands, any length of   *)
(* the client's buffer and every division of the bytes into reads.         *)
(***************************************************************************)
EXTENDS RemoteCall, ListLemmas

(***************************************************************************)
(* Cut, the loop of update_rx: that its recursion has a solution, that it  *)
(* takes one line after the other, and that it does not matter where the   *)
(* bytes are divided.                                                      *)
(***************************************************************************)
Ends(buf, i) == {e \in i..Len(buf) : buf[e] = NL}

CutStep(buf, f, i) ==
  IF Ends(buf, i) = {} THEN [lines |-> <<>>, rest |-> SubSeq(buf, i, Len(buf))]
  ELSE [f[Min(Ends(buf, i)) + 1] EXCEPT
          !.lines = <<SubSeq(buf, i, Min(Ends(buf, i)) - 1)>> \o @]

CutFrom(buf) == CHOOSE f : f = [i \in 1..(Len(buf) + 1) |-> CutStep(buf, f, i)]

LEMMA CutIsCutFrom ==
  ASSUME NEW buf
  PROVE  Cut(buf) = CutFrom(buf)[1]
BY Zenon DEF Cut, CutFrom, CutStep, Ends

\* e is the first newline of buf from i on.
FirstEnd(buf, i, e) ==
  e \in i..Len(buf) /\ buf[e] = NL /\ \A j \in i..(e - 1) : buf[j] # NL

LEMMA FirstEndIsMin ==
  ASSUME NEW E, NEW buf \in Seq(E), NEW i \in Nat, NEW e, FirstEnd(buf, i, e)
  PROVE  Ends(buf, i) # {} /\ Min(Ends(buf, i)) = e
<1>1. Len(buf) \in Nat
  BY LenProperties
<1>2. e \in Ends(buf, i) /\ e \in Nat
  BY <1>1 DEF Ends, FirstEnd
<1>3. \A j \in Ends(buf, i) : j \in Int /\ e <= j
  <2> TAKE j \in Ends(buf, i)
  <2>1. j \in i..Len(buf) /\ buf[j] = NL
    BY DEF Ends
  <2>2. j \notin i..(e - 1)
    BY <2>1 DEF FirstEnd
  <2> QED
    BY <1>1, <1>2, <2>1, <2>2
<1>4. \A x \in Ends(buf, i) : (\A y \in Ends(buf, i) : x =< y) => x = e
  <2> TAKE x \in Ends(buf, i)
  <2>1. x \in Int /\ e <= x /\ e \in Int
    BY <1>2, <1>3
  <2> HAVE \A y \in Ends(buf, i) : x =< y
  <2>2. x =< e
    BY <1>2
  <2> QED
    BY <2>1, <2>2
<1> QED
  BY <1>2, <1>3, <1>4 DEF Min

LEMMA FirstEndExists ==
  ASSUME NEW E, NEW buf \in Seq(E), NEW i \in Nat, Ends(buf, i) # {}
  PROVE  FirstEnd(buf, i, Min(Ends(buf, i)))
<1>1. Len(buf) \in Nat
  BY LenProperties
<1>2. PICK e \in Ends(buf, i) : \A j \in Ends(buf, i) : e <= j
  <2>1. Ends(buf, i) \subseteq Nat
    BY <1>1 DEF Ends
  <2> QED
    BY <2>1, Least
<1>3. e \in i..Len(buf) /\ buf[e] = NL
  BY <1>2 DEF Ends
<1>4. \A j \in i..(e - 1) : buf[j] # NL
  <2> TAKE j \in i..(e - 1)
  <2>1. j \in i..Len(buf) /\ ~(e <= j)
    BY <1>1, <1>3
  <2> QED
    BY <1>2, <2>1 DEF Ends
<1>5. FirstEnd(buf, i, e)
  BY <1>3, <1>4 DEF FirstEnd
<1> QED
  BY <1>5, FirstEndIsMin

\* The recursion of Cut has a solution.
LEMMA CutFromExists ==
  ASSUME NEW E, NEW buf \in Seq(E)
  PROVE  CutFrom(buf) = [i \in 1..(Len(buf) + 1) |-> CutStep(buf, CutFrom(buf), i)]
<1> DEFINE N == Len(buf) + 1
           Part(f, m) == f = [i \in m..N |-> CutStep(buf, f, i)]
           S == {d \in 0..Len(buf) : ~(\E f : Part(f, N - d))}
<1>1. Len(buf) \in Nat /\ N \in Nat /\ N = Len(buf) + 1
  BY LenProperties
<1> HIDE DEF N
<1>2. SUFFICES ASSUME S # {} PROVE FALSE
  <2>1. Len(buf) \notin S
    BY <1>2
  <2>2. Len(buf) \in 0..Len(buf) /\ N - Len(buf) = 1
    BY <1>1
  <2> HIDE DEF Part
  <2>3. \E f : Part(f, N - Len(buf))
    BY <2>1, <2>2
  <2>4. \E f : Part(f, 1)
    BY <2>2, <2>3
  <2>5. \E f : f = [i \in 1..(Len(buf) + 1) |-> CutStep(buf, f, i)]
    BY <2>4 DEF Part, N
  <2> QED
    BY <2>5, Zenon DEF CutFrom
<1>3. PICK d \in S : \A c \in S : d <= c
  <2>1. S \subseteq Nat
    BY <1>1
  <2> HIDE DEF S
  <2> QED
    BY <1>2, <2>1, Least
<1> DEFINE m == N - d
<1>4. d \in Nat /\ d <= Len(buf) /\ m \in Nat /\ m >= 1 /\ m <= N /\ m = N - d
  BY <1>1, <1>3
<1>5. ~(\E f : Part(f, m))
  BY <1>3
<1>6. PICK f : \A i \in (m + 1)..N : f[i] = CutStep(buf, f, i)
  <2>1. CASE d = 0
    <3>1. (m + 1)..N = {}
      BY <1>1, <1>4, <2>1
    <3> QED
      BY <3>1
  <2>2. CASE d # 0
    <3>1. d - 1 \in 0..Len(buf) /\ N - (d - 1) = m + 1 /\ ~(d <= d - 1)
      BY <1>1, <1>4, <2>2
    <3> HIDE DEF Part, m
    <3>5. d - 1 \notin S
      <4> HIDE DEF S
      <4> QED
        BY <1>3, <3>1
    <3>2. PICK f : Part(f, N - (d - 1))
      BY <3>1, <3>5
    <3>3. Part(f, m + 1)
      BY <3>1, <3>2
    <3>4. f = [i \in (m + 1)..N |-> CutStep(buf, f, i)]
      BY <3>3 DEF Part
    <3> QED
      BY <3>4
  <2> QED
    BY <2>1, <2>2
<1> DEFINE h == [i \in m..N |-> CutStep(buf, f, i)]
<1> HIDE DEF m
<1>7. \A i \in (m + 1)..N : h[i] = f[i]
  <2>1. \A i \in (m + 1)..N : i \in m..N
    BY <1>1, <1>4
  <2> QED
    BY <1>6, <2>1
<1> HIDE DEF h
<1>8. \A i \in m..N : CutStep(buf, f, i) = CutStep(buf, h, i)
  <2> TAKE i \in m..N
  <2>1. CASE Ends(buf, i) = {}
    BY <2>1 DEF CutStep
  <2>2. CASE Ends(buf, i) # {}
    <3> DEFINE e == Min(Ends(buf, i))
    <3>1. i \in Nat
      BY <1>1, <1>4
    <3>2. e \in i..Len(buf)
      BY <2>2, <3>1, FirstEndExists DEF FirstEnd
    <3> HIDE DEF e
    <3>3. e + 1 \in (m + 1)..N
      BY <1>1, <1>4, <3>1, <3>2
    <3>4. f[e + 1] = h[e + 1]
      BY <1>7, <3>3
    <3> QED
      BY <2>2, <3>4 DEF CutStep, e
  <2> QED
    BY <2>1, <2>2
<1>9. h = [i \in m..N |-> CutStep(buf, h, i)]
  BY <1>8 DEF h
<1> QED
  BY <1>5, <1>9 DEF Part

\* One step of it.
LEMMA CutFromUnfolds ==
  ASSUME NEW E, NEW buf \in Seq(E), NEW i \in 1..(Len(buf) + 1)
  PROVE  CutFrom(buf)[i] = CutStep(buf, CutFrom(buf), i)
<1> DEFINE g == CutFrom(buf)
<1>1. g = [j \in 1..(Len(buf) + 1) |-> CutStep(buf, g, j)]
  BY CutFromExists
<1> HIDE DEF g
<1>2. g[i] = CutStep(buf, g, i)
  BY <1>1
<1> QED
  BY <1>2 DEF g

LEMMA CutFromNoEnd ==
  ASSUME NEW E, NEW buf \in Seq(E), NEW i \in 1..(Len(buf) + 1),
         \A j \in i..Len(buf) : buf[j] # NL
  PROVE  CutFrom(buf)[i] = [lines |-> <<>>, rest |-> SubSeq(buf, i, Len(buf))]
<1>1. Ends(buf, i) = {}
  BY DEF Ends
<1> QED
  BY <1>1, CutFromUnfolds DEF CutStep

LEMMA CutFromEnd ==
  ASSUME NEW E, NEW buf \in Seq(E), NEW i \in 1..(Len(buf) + 1), NEW e, FirstEnd(buf, i, e)
  PROVE  CutFrom(buf)[i] = [CutFrom(buf)[e + 1] EXCEPT
                              !.lines = <<SubSeq(buf, i, e - 1)>> \o @]
<1>1. Len(buf) \in Nat /\ i \in Nat
  BY LenProperties
<1>2. Ends(buf, i) # {} /\ Min(Ends(buf, i)) = e
  BY <1>1, FirstEndIsMin
<1> QED
  BY <1>2, CutFromUnfolds DEF CutStep

\* There is no newline from i on, or there is a first one.
LEMMA NoEndOrFirst ==
  ASSUME NEW E, NEW buf \in Seq(E), NEW i \in Nat
  PROVE  (\A j \in i..Len(buf) : buf[j] # NL) \/ \E e : FirstEnd(buf, i, e)
<1>1. CASE Ends(buf, i) = {}
  BY <1>1 DEF Ends
<1>2. CASE Ends(buf, i) # {}
  BY <1>2, FirstEndExists
<1> QED
  BY <1>1, <1>2

NoNewline(s) == \A j \in 1..Len(s) : s[j] # NL

Cuts(E) == [lines : Seq(Seq(E)), rest : {s \in Seq(E) : NoNewline(s)}]

\* What is cut are sequences of bytes, and what stays has no newline.
LEMMA CutFromType ==
  ASSUME NEW E, NEW buf \in Seq(E), NEW i \in 1..(Len(buf) + 1)
  PROVE  CutFrom(buf)[i] \in Cuts(E)
<1> DEFINE N == Len(buf) + 1
           f == CutFrom(buf)
           S == {d \in 0..Len(buf) : f[N - d] \notin Cuts(E)}
<1>1. Len(buf) \in Nat /\ N \in Nat /\ N = Len(buf) + 1 /\ \A j \in 1..Len(buf) : buf[j] \in E
  BY LenProperties, ElementOfSeq
<1>2. SUFFICES ASSUME S # {} PROVE FALSE
  <2>1. N - i \in 0..Len(buf) /\ N - (N - i) = i
    BY <1>1
  <2>2. N - i \notin S
    BY <1>2
  <2> QED
    BY <2>1, <2>2
<1>3. PICK d \in S : \A c \in S : d <= c
  <2>1. S \subseteq Nat
    BY <1>1
  <2> HIDE DEF S
  <2> QED
    BY <1>2, <2>1, Least
<1> DEFINE m == N - d
<1>4. d \in Nat /\ d <= Len(buf) /\ m \in 1..(Len(buf) + 1) /\ m = N - d /\ f[m] \notin Cuts(E)
  BY <1>1, <1>3
<1> HIDE DEF N, m
<1>5. CASE \A j \in m..Len(buf) : buf[j] # NL
  <2> DEFINE r == SubSeq(buf, m, Len(buf))
  <2>1. f[m] = [lines |-> <<>>, rest |-> r]
    BY <1>4, <1>5, CutFromNoEnd
  <2>2. /\ r \in Seq(E) /\ Len(r) = IF m <= Len(buf) THEN Len(buf) - m + 1 ELSE 0
        /\ \A j \in 1..(Len(buf) - m + 1) : r[j] = buf[m + j - 1]
    <3>1. \A j \in m..Len(buf) : buf[j] \in E
      BY <1>1, <1>4
    <3> QED
      BY <1>1, <1>4, <3>1, SubSeqProperties
  <2> HIDE DEF r
  <2>3. \A j \in 1..Len(r) : j \in 1..(Len(buf) - m + 1) /\ m + j - 1 \in m..Len(buf)
    BY <1>1, <1>4, <2>2
  <2>4. NoNewline(r)
    BY <1>5, <2>2, <2>3 DEF NoNewline
  <2>5. <<>> \in Seq(Seq(E))
    BY EmptySeq
  <2>6. [lines |-> <<>>, rest |-> r] \in Cuts(E)
    BY <2>2, <2>4, <2>5 DEF Cuts
  <2> QED
    BY <1>4, <2>1, <2>6
<1>6. ASSUME NEW e, FirstEnd(buf, m, e) PROVE FALSE
  <2>1. /\ e \in m..Len(buf)
        /\ f[m] = [f[e + 1] EXCEPT !.lines = <<SubSeq(buf, m, e - 1)>> \o @]
    <3>1. \A k \in 1..(Len(buf) + 1) : \A j : FirstEnd(buf, k, j) =>
            CutFrom(buf)[k] = [CutFrom(buf)[j + 1] EXCEPT
                                !.lines = <<SubSeq(buf, k, j - 1)>> \o @]
      BY CutFromEnd
    <3>2. e \in m..Len(buf) /\ m \in 1..(Len(buf) + 1)
      BY <1>4, <1>6 DEF FirstEnd
    <3> QED
      BY <1>6, <3>1, <3>2
  <2>2. SubSeq(buf, m, e - 1) \in Seq(E)
    <3>1. m \in Int /\ e - 1 \in Int /\ \A j \in m..(e - 1) : buf[j] \in E
      BY <1>1, <1>4, <2>1, SMTT(60)
    <3> QED
      BY <3>1, SubSeqProperties
  <2>3. PICK l \in Seq(E) : l = SubSeq(buf, m, e - 1)
    BY <2>2
  <2>4. f[e + 1] \in Cuts(E)
    <3>1. N - (e + 1) \in 0..Len(buf) /\ N - (N - (e + 1)) = e + 1 /\ ~(d <= N - (e + 1))
      <4> HIDE DEF S, f
      <4>1. e \in Nat /\ m <= e /\ e <= Len(buf) /\ m \in Nat /\ d = N - m
        <5>1. e \in m..Len(buf) /\ m \in 1..(Len(buf) + 1)
          BY <1>4, <2>1
        <5>2. e \in Nat /\ m <= e /\ e <= Len(buf) /\ m \in Nat
          BY <1>1, <5>1
        <5>3. d = N - m
          BY <1>1, <1>4, <5>2
        <5> QED
          BY <5>2, <5>3
      <4>2. e + 1 \in Nat /\ d >= N - e
        BY <1>1, <4>1
      <4> QED
        BY <1>1, <4>1, <4>2
    <3>2. N - (e + 1) \notin S
      <4> HIDE DEF S
      <4> QED
        BY <1>3, <3>1
    <3> HIDE DEF f
    <3> QED
      BY <3>1, <3>2
  <2>5. PICK c \in Cuts(E) : c = f[e + 1]
    BY <2>4
  <2>6. c.lines \in Seq(Seq(E)) /\ <<l>> \in Seq(Seq(E))
    BY DEF Cuts
  <2>7. <<l>> \o c.lines \in Seq(Seq(E))
    BY <2>6, ConcatProperties
  <2>8. [c EXCEPT !.lines = <<l>> \o @] \in Cuts(E)
    <3> DEFINE x == <<l>> \o c.lines
    <3> HIDE DEF x
    <3>1. [c EXCEPT !.lines = x] \in Cuts(E)
      BY <2>7 DEF Cuts, x
    <3> QED
      BY <3>1 DEF x
  <2>9. f[m] = [c EXCEPT !.lines = <<l>> \o @]
    BY <2>1, <2>3, <2>5
  <2> QED
    BY <1>4, <2>8, <2>9
<1> QED
  BY <1>4, <1>5, <1>6, NoEndOrFirst

\* What is cut from the rest of a buffer is what the recursion has at its place.
LEMMA CutOfRest ==
  ASSUME NEW E, NEW buf \in Seq(E), NEW i \in 1..(Len(buf) + 1)
  PROVE  Cut(SubSeq(buf, i, Len(buf))) = CutFrom(buf)[i]
<1> DEFINE r == SubSeq(buf, i, Len(buf))
<1>1. Len(buf) \in Nat /\ i \in Nat /\ i >= 1 /\ \A j \in 1..Len(buf) : buf[j] \in E
  BY LenProperties, ElementOfSeq
<1>2. /\ r \in Seq(E) /\ Len(r) = (Len(buf) - i) + 1
      /\ \A k \in 1..Len(r) : r[k] = buf[(i + k) - 1]
  <2>1. \A j \in i..Len(buf) : buf[j] \in E
    BY <1>1
  <2>2. /\ r \in Seq(E) /\ Len(r) = IF i <= Len(buf) THEN Len(buf) - i + 1 ELSE 0
        /\ \A k \in 1..(Len(buf) - i + 1) : r[k] = buf[i + k - 1]
    BY <1>1, <2>1, SubSeqProperties
  <2> QED
    BY <1>1, <2>2
<1>3. \A k \in Nat, j \in Int : k > 0 /\ j <= Len(r) =>
        SubSeq(r, k, j) = SubSeq(buf, (i + k) - 1, (i + j) - 1)
  <2> TAKE k \in Nat, j \in Int
  <2> HAVE k > 0 /\ j <= Len(r)
  <2>1. j <= Len(buf) - i + 1
    BY <1>1, <1>2
  <2> QED
    BY <1>1, <2>1, PartOfRest
<1> HIDE DEF r
<1> DEFINE N == Len(r) + 1
           f == CutFrom(r)
           g == CutFrom(buf)
           S == {d \in 0..Len(r) : f[N - d] # g[(i + (N - d)) - 1]}
<1>4. N \in Nat /\ N = Len(r) + 1 /\ Len(r) \in Nat
  BY <1>2, LenProperties
<1>5. SUFFICES ASSUME S # {} PROVE FALSE
  <2>1. Len(r) \notin S
    BY <1>5
  <2>2. Len(r) \in 0..Len(r) /\ N - Len(r) = 1 /\ (i + (N - Len(r))) - 1 = i
    BY <1>1, <1>4
  <2>3. f[N - Len(r)] = g[(i + (N - Len(r))) - 1]
    BY <2>1, <2>2
  <2>4. f[1] = g[i]
    BY <2>2, <2>3
  <2> QED
    BY <2>4, CutIsCutFrom DEF r
<1>6. PICK d \in S : \A c \in S : d <= c
  <2>1. S \subseteq Nat
    BY <1>4
  <2> HIDE DEF S
  <2> QED
    BY <1>5, <2>1, Least
<1> DEFINE m == N - d
           p == (i + m) - 1
<1>7. d \in Nat /\ d <= Len(r) /\ f[m] # g[p]
  BY <1>4, <1>6
<1>8. m \in Nat /\ m \in 1..(Len(r) + 1) /\ d = N - m /\ p = (i + m) - 1 /\ p \in 1..(Len(buf) + 1)
      /\ p \in Nat
  BY <1>1, <1>2, <1>4, <1>7
<1>9. \A c \in 0..Len(r) : c < d => f[N - c] = g[(i + (N - c)) - 1]
  <2> TAKE c \in 0..Len(r)
  <2> HAVE c < d
  <2>1. ~(d <= c)
    BY <1>7
  <2>2. c \notin S
    <3> HIDE DEF S
    <3> QED
      BY <1>6, <2>1
  <2> QED
    BY <2>2
<1> HIDE DEF S, N, f, g, m, p
<1>10. CASE \A j \in m..Len(r) : r[j] # NL
  <2>1. f[m] = [lines |-> <<>>, rest |-> SubSeq(r, m, Len(r))]
    BY <1>2, <1>8, <1>10, CutFromNoEnd DEF f
  <2>2. \A j \in p..Len(buf) : buf[j] # NL
    <3> TAKE j \in p..Len(buf)
    <3> DEFINE k == (j - i) + 1
    <3>1. k \in m..Len(r) /\ k \in 1..Len(r) /\ (i + k) - 1 = j
      BY <1>1, <1>2, <1>8
    <3> HIDE DEF k
    <3>2. r[k] = buf[j]
      BY <1>2, <3>1
    <3> QED
      BY <1>10, <3>1, <3>2
  <2>3. g[p] = [lines |-> <<>>, rest |-> SubSeq(buf, p, Len(buf))]
    BY <1>8, <2>2, CutFromNoEnd DEF g
  <2>4. SubSeq(r, m, Len(r)) = SubSeq(buf, p, Len(buf))
    <3>1. (i + Len(r)) - 1 = Len(buf) /\ m > 0 /\ Len(r) \in Int /\ Len(r) <= Len(r)
      BY <1>1, <1>2, <1>4, <1>8
    <3>2. SubSeq(r, m, Len(r)) = SubSeq(buf, (i + m) - 1, (i + Len(r)) - 1)
      BY <1>3, <1>8, <3>1
    <3> QED
      BY <1>8, <3>1, <3>2
  <2> QED
    BY <1>7, <2>1, <2>3, <2>4
<1>11. ASSUME NEW e, FirstEnd(r, m, e) PROVE FALSE
  <2>1. e \in m..Len(r)
    BY <1>11 DEF FirstEnd
  <2>2. e \in Nat /\ m <= e /\ e <= Len(r) /\ e \in 1..Len(r)
    BY <1>4, <1>8, <2>1
  <2>3. f[m] = [f[e + 1] EXCEPT !.lines = <<SubSeq(r, m, e - 1)>> \o @]
    <3>1. \A k \in 1..(Len(r) + 1) : \A j : FirstEnd(r, k, j) =>
            CutFrom(r)[k] = [CutFrom(r)[j + 1] EXCEPT
                                !.lines = <<SubSeq(r, k, j - 1)>> \o @]
      BY <1>2, CutFromEnd
    <3>2. m \in 1..(Len(r) + 1)
      BY <1>8
    <3> QED
      BY <1>11, <3>1, <3>2 DEF f
  <2> DEFINE q == (i + e) - 1
  <2>4. q \in p..Len(buf) /\ q - 1 = (i + (e - 1)) - 1 /\ q + 1 = (i + (e + 1)) - 1
    BY <1>1, <1>2, <1>8, <2>2
  <2>5. FirstEnd(buf, p, q)
    <3>1. buf[q] = NL
      BY <1>2, <1>11, <2>2 DEF FirstEnd
    <3>2. \A j \in p..(q - 1) : buf[j] # NL
      <4> TAKE j \in p..(q - 1)
      <4> DEFINE k == (j - i) + 1
      <4>1. k \in m..(e - 1) /\ k \in 1..Len(r) /\ (i + k) - 1 = j
        BY <1>1, <1>2, <1>8, <2>2
      <4> HIDE DEF k
      <4>2. r[k] = buf[j] /\ r[k] # NL
        BY <1>2, <1>11, <4>1 DEF FirstEnd
      <4> QED
        BY <4>2
    <3> QED
      BY <2>4, <3>1, <3>2 DEF FirstEnd
  <2> HIDE DEF q
  <2>6. g[p] = [g[q + 1] EXCEPT !.lines = <<SubSeq(buf, p, q - 1)>> \o @]
    <3>1. \A k \in 1..(Len(buf) + 1) : \A j : FirstEnd(buf, k, j) =>
            CutFrom(buf)[k] = [CutFrom(buf)[j + 1] EXCEPT
                                !.lines = <<SubSeq(buf, k, j - 1)>> \o @]
      BY CutFromEnd
    <3>2. p \in 1..(Len(buf) + 1)
      BY <1>8
    <3> QED
      BY <2>5, <3>1, <3>2 DEF g
  <2>7. SubSeq(r, m, e - 1) = SubSeq(buf, p, q - 1)
    <3>1. m > 0 /\ e - 1 \in Int /\ e - 1 <= Len(r)
      BY <1>4, <1>8, <2>2
    <3>2. SubSeq(r, m, e - 1) = SubSeq(buf, (i + m) - 1, (i + (e - 1)) - 1)
      BY <1>3, <1>8, <3>1
    <3> QED
      BY <1>8, <2>4, <3>2
  <2>8. f[e + 1] = g[q + 1]
    <3> DEFINE c == N - (e + 1)
    <3>1. c \in 0..Len(r) /\ N - c = e + 1 /\ c < d
      BY <1>4, <1>8, <2>2
    <3> HIDE DEF c
    <3> QED
      BY <1>9, <2>4, <3>1
  <2> QED
    BY <1>7, <2>3, <2>6, <2>7, <2>8
<1> QED
  BY <1>2, <1>8, <1>10, <1>11, NoEndOrFirst

\* Cut on a buffer that has no newline, and on one that has.
LEMMA CutEquations ==
  ASSUME NEW E, NEW buf \in Seq(E)
  PROVE  /\ Cut(buf) \in Cuts(E)
         /\ NoNewline(buf) => Cut(buf) = [lines |-> <<>>, rest |-> buf]
         /\ \A e : FirstEnd(buf, 1, e) =>
              LET later == Cut(SubSeq(buf, e + 1, Len(buf)))
              IN  Cut(buf) = [lines |-> <<SubSeq(buf, 1, e - 1)>> \o later.lines,
                              rest |-> later.rest]
<1>1. Len(buf) \in Nat /\ 1 \in 1..(Len(buf) + 1)
  BY LenProperties
<1>2. Cut(buf) = CutFrom(buf)[1]
  BY CutIsCutFrom
<1>3. Cut(buf) \in Cuts(E)
  BY <1>1, <1>2, CutFromType
<1>4. ASSUME NoNewline(buf)
      PROVE  Cut(buf) = [lines |-> <<>>, rest |-> buf]
  <2>1. CutFrom(buf)[1] = [lines |-> <<>>, rest |-> SubSeq(buf, 1, Len(buf))]
    BY <1>1, <1>4, CutFromNoEnd DEF NoNewline
  <2> QED
    BY <1>2, <2>1, SubSeqFull
<1>5. ASSUME NEW e, FirstEnd(buf, 1, e)
      PROVE  LET later == Cut(SubSeq(buf, e + 1, Len(buf)))
             IN  Cut(buf) = [lines |-> <<SubSeq(buf, 1, e - 1)>> \o later.lines,
                             rest |-> later.rest]
  <2>1. CutFrom(buf)[1] = [CutFrom(buf)[e + 1] EXCEPT !.lines = <<SubSeq(buf, 1, e - 1)>> \o @]
    BY <1>1, <1>5, CutFromEnd, SMTT(60)
  <2>2. e + 1 \in 1..(Len(buf) + 1)
    BY <1>1, <1>5 DEF FirstEnd
  <2>3. CutFrom(buf)[e + 1] \in Cuts(E) /\ Cut(SubSeq(buf, e + 1, Len(buf))) = CutFrom(buf)[e + 1]
    BY <2>2, CutFromType, CutOfRest
  <2>4. PICK c \in Cuts(E) : c = CutFrom(buf)[e + 1]
    BY <2>3
  <2>5. PICK l : l = <<SubSeq(buf, 1, e - 1)>> \o c.lines
    OBVIOUS
  <2>6. [c EXCEPT !.lines = l] = [lines |-> l, rest |-> c.rest]
    BY DEF Cuts
  <2>7. Cut(buf) = [c EXCEPT !.lines = <<SubSeq(buf, 1, e - 1)>> \o @]
    BY <1>2, <2>1, <2>4
  <2>8. Cut(buf) = [c EXCEPT !.lines = l]
    BY <2>5, <2>7
  <2> QED
    BY <2>3, <2>4, <2>5, <2>6, <2>8
<1> QED
  BY <1>3, <1>4, <1>5

\* It does not matter how the bytes are divided: what is cut from all of them is what
\* is cut from the first part, and then from what stays of it with the second.
LEMMA CutConcat ==
  ASSUME NEW E, NEW a \in Seq(E), NEW b \in Seq(E)
  PROVE  LET later == Cut(Cut(a).rest \o b)
         IN  Cut(a \o b) = [lines |-> Cut(a).lines \o later.lines, rest |-> later.rest]
<1> DEFINE Divided(x) ==
             Cut(x \o b) = [lines |-> Cut(x).lines \o Cut(Cut(x).rest \o b).lines,
                            rest |-> Cut(Cut(x).rest \o b).rest]
           S == {n \in Nat : \E x \in Seq(E) : Len(x) = n /\ ~Divided(x)}
<1>1. SUFFICES ASSUME S # {} PROVE FALSE
  <2>1. Len(a) \in Nat /\ Len(a) \notin S
    BY <1>1, LenProperties
  <2>2. Divided(a)
    BY <2>1
  <2> QED
    BY <2>2
<1>2. PICK n \in S : \A k \in S : n <= k
  <2>1. S \subseteq Nat
    OBVIOUS
  <2> HIDE DEF S
  <2> QED
    BY <1>1, <2>1, Least
<1>3. PICK x \in Seq(E) : Len(x) = n /\ ~Divided(x)
  BY <1>2
<1>4. \A y \in Seq(E) : Len(y) < Len(x) => Divided(y)
  <2> TAKE y \in Seq(E)
  <2> HAVE Len(y) < Len(x)
  <2>1. Len(y) \in Nat /\ n \in Nat /\ ~(n <= Len(y))
    BY <1>2, <1>3, LenProperties
  <2>2. Len(y) \notin S
    <3> HIDE DEF S
    <3> QED
      BY <1>2, <2>1
  <2> HIDE DEF Divided
  <2> QED
    BY <2>1, <2>2
<1> HIDE DEF S
<1>5. /\ Len(x) \in Nat /\ Len(b) \in Nat
      /\ x \o b \in Seq(E) /\ Len(x \o b) = Len(x) + Len(b)
      /\ \A i \in 1..Len(x) : (x \o b)[i] = x[i]
  <2>1. Len(x) \in Nat /\ Len(b) \in Nat
    BY LenProperties
  <2>2. \A i \in 1..Len(x) : i \in 1..(Len(x) + Len(b)) /\ i <= Len(x)
    BY <2>1
  <2> QED
    BY <2>1, <2>2, ConcatProperties
<1>6. CASE NoNewline(x)
  <2>1. Cut(x) = [lines |-> <<>>, rest |-> x]
    BY <1>6, CutEquations
  <2>2. PICK c \in Cuts(E) : c = Cut(x \o b)
    BY <1>5, CutEquations
  <2>3. c.lines = <<>> \o c.lines
    BY ConcatEmptySeq DEF Cuts
  <2>4. c = [lines |-> c.lines, rest |-> c.rest]
    BY DEF Cuts
  <2> QED
    BY <1>3, <2>1, <2>2, <2>3, <2>4
<1>7. ASSUME NEW e, FirstEnd(x, 1, e) PROVE FALSE
  <2>1. e \in 1..Len(x) /\ e \in Nat /\ e \in 1..Len(x \o b)
    BY <1>5, <1>7 DEF FirstEnd
  <2>2. FirstEnd(x \o b, 1, e)
    <3>1. \A j \in 1..(e - 1) : j \in 1..Len(x)
      BY <1>5, <2>1
    <3> QED
      BY <1>5, <1>7, <2>1, <3>1 DEF FirstEnd
  <2> DEFINE y == SubSeq(x, e + 1, Len(x))
             l == SubSeq(x, 1, e - 1)
  <2>3. y \in Seq(E) /\ Len(y) < Len(x)
    <3>1. \A j \in (e + 1)..Len(x) : x[j] \in E
      <4> TAKE j \in (e + 1)..Len(x)
      <4>1. j \in 1..Len(x)
        BY <1>5, <2>1
      <4> QED
        BY <4>1, ElementOfSeq
    <3>2. y \in Seq(E) /\ Len(y) = IF e + 1 <= Len(x) THEN Len(x) - (e + 1) + 1 ELSE 0
      BY <1>5, <2>1, <3>1, SubSeqProperties
    <3> QED
      BY <1>5, <2>1, <3>2
  <2>4. SubSeq(x \o b, e + 1, Len(x \o b)) = y \o b
    <3>1. e + 1 \in 1..(Len(x) + 1)
      BY <1>5, <2>1
    <3> QED
      BY <3>1, RestOfConcat
  <2>5. SubSeq(x \o b, 1, e - 1) = l /\ l \in Seq(E)
    <3>1. 1 \in Nat /\ 1 > 0 /\ e - 1 \in Int /\ e - 1 <= Len(x)
      BY <1>5, <2>1
    <3>2. SubSeq(x \o b, 1, e - 1) = l
      BY <3>1, PartOfConcat
    <3>3. \A j \in 1..(e - 1) : x[j] \in E
      <4> TAKE j \in 1..(e - 1)
      <4>1. j \in 1..Len(x)
        BY <1>5, <2>1
      <4> QED
        BY <4>1, ElementOfSeq
    <3> QED
      BY <3>1, <3>2, <3>3, SubSeqProperties
  <2>6. /\ Cut(x) = [lines |-> <<l>> \o Cut(y).lines, rest |-> Cut(y).rest]
        /\ Cut(y) \in Cuts(E)
    BY <1>7, <2>3, CutEquations
  <2>7. Cut(x \o b) = [lines |-> <<l>> \o Cut(y \o b).lines, rest |-> Cut(y \o b).rest]
    <3>1. \A j : FirstEnd(x \o b, 1, j) =>
            Cut(x \o b) = [lines |-> <<SubSeq(x \o b, 1, j - 1)>>
                                       \o Cut(SubSeq(x \o b, j + 1, Len(x \o b))).lines,
                           rest |-> Cut(SubSeq(x \o b, j + 1, Len(x \o b))).rest]
      BY <1>5, CutEquations
    <3> HIDE DEF y, l
    <3> QED
      BY <2>2, <2>4, <2>5, <3>1
  <2> HIDE DEF y, l
  <2>8. Divided(y)
    <3> HIDE DEF Divided
    <3> QED
      BY <1>4, <2>3
  <2>9. PICK cy \in Cuts(E) : cy = Cut(y)
    BY <2>6
  <2>10. PICK d \in Cuts(E) : d = Cut(cy.rest \o b)
    <3>1. cy.rest \in Seq(E)
      BY DEF Cuts
    <3> QED
      BY <3>1, ConcatProperties, CutEquations
  <2>11. <<l>> \o (cy.lines \o d.lines) = (<<l>> \o cy.lines) \o d.lines
    <3>1. <<l>> \in Seq(Seq(E)) /\ cy.lines \in Seq(Seq(E)) /\ d.lines \in Seq(Seq(E))
      BY <2>5 DEF Cuts
    <3>2. \A T : \A u, v, w \in Seq(T) : (u \o v) \o w = u \o (v \o w)
      BY Associates
    <3>3. PICK T : T = Seq(E)
      OBVIOUS
    <3>4. PICK u \in Seq(T), v \in Seq(T), w \in Seq(T) :
            u = <<l>> /\ v = cy.lines /\ w = d.lines
      BY <3>1, <3>3
    <3>5. (u \o v) \o w = u \o (v \o w)
      BY ConcatAssociative, SMTT(60)
    <3> QED
      BY <3>4, <3>5
  <2>12. Cut(x).rest = cy.rest /\ Cut(x).lines = <<l>> \o cy.lines
    BY <2>6, <2>9
  <2>13. Cut(y \o b) = [lines |-> cy.lines \o d.lines, rest |-> d.rest]
    BY <2>8, <2>9, <2>10
  <2>14. Cut(x \o b) = [lines |-> (<<l>> \o cy.lines) \o d.lines, rest |-> d.rest]
    <3>1. Cut(y \o b).lines = cy.lines \o d.lines /\ Cut(y \o b).rest = d.rest
      <4>1. PICK r : r = Cut(y \o b)
        OBVIOUS
      <4>2. PICK ls : ls = cy.lines \o d.lines
        OBVIOUS
      <4>3. r = [lines |-> ls, rest |-> d.rest]
        BY <2>13, <4>1, <4>2
      <4>4. r.lines = ls /\ r.rest = d.rest
        BY <4>3
      <4> QED
        BY <4>1, <4>2, <4>4
    <3> QED
      BY <2>7, <2>11, <3>1
  <2> QED
    BY <1>3, <2>10, <2>12, <2>14
<1> QED
  <2>1. NoNewline(x) \/ \E e : FirstEnd(x, 1, e)
    BY NoEndOrFirst DEF NoNewline
  <2> QED
    BY <1>6, <1>7, <2>1

(***************************************************************************)
(* Parse: that its recursion has a solution, of which type, and what it    *)
(* makes of a command.                                                     *)
(***************************************************************************)
At(bytes, i) == IF i <= Len(bytes) THEN bytes[i] ELSE Unset

ShortId(bytes, i)   == At(bytes, i) = 8 /\ At(bytes, i + 1) \in 0..127
LongId(bytes, i)    == /\ At(bytes, i) = 8 /\ At(bytes, i + 1) \in 128..255
                       /\ At(bytes, i + 2) \in 0..127
Swallowed(bytes, i) == At(bytes, i) = 8 /\ At(bytes, i + 1) \in Methods
Name(bytes, i)      == At(bytes, i) = 18 /\ At(bytes, i + 1) \in Methods

ParseStep(bytes, f, i) ==
  CASE ShortId(bytes, i)   -> WithId(f[i + 2], At(bytes, i + 1))
    [] LongId(bytes, i)    -> WithId(f[i + 3], At(bytes, i + 1) - 128 + 128 * At(bytes, i + 2))
    [] Swallowed(bytes, i) -> WithId(NoCommand, At(bytes, i + 1) % 256)
    [] Name(bytes, i)      -> WithMethod(f[i + 2], At(bytes, i + 1))
    [] OTHER               -> NoCommand

ParseFrom(bytes) == CHOOSE f : f = [i \in 1..(Len(bytes) + 1) |-> ParseStep(bytes, f, i)]

LEMMA ParseIsParseFrom ==
  ASSUME NEW bytes
  PROVE  Parse(bytes) = ParseFrom(bytes)[1]
BY Zenon DEF Parse, ParseFrom, ParseStep, ShortId, LongId, Swallowed, Name, At

\* The alternatives exclude each other, and what is read is among the bytes.
LEMMA ParseStepCases ==
  ASSUME NEW bytes \in Seq(Symbols), NEW f, NEW i \in 1..(Len(bytes) + 1)
  PROVE  LET N == Len(bytes) + 1 IN
         /\ ShortId(bytes, i) =>
              /\ i + 1 \in 1..Len(bytes) /\ i + 2 \in (i + 1)..N
              /\ ParseStep(bytes, f, i) = WithId(f[i + 2], bytes[i + 1])
         /\ LongId(bytes, i) =>
              /\ i + 1 \in 1..Len(bytes) /\ i + 2 \in 1..Len(bytes) /\ i + 3 \in (i + 1)..N
              /\ ParseStep(bytes, f, i) =
                   WithId(f[i + 3], bytes[i + 1] - 128 + 128 * bytes[i + 2])
         /\ Swallowed(bytes, i) =>
              /\ i + 1 \in 1..Len(bytes)
              /\ ParseStep(bytes, f, i) = WithId(NoCommand, bytes[i + 1] % 256)
         /\ Name(bytes, i) =>
              /\ i + 1 \in 1..Len(bytes) /\ i + 2 \in (i + 1)..N
              /\ ParseStep(bytes, f, i) = WithMethod(f[i + 2], bytes[i + 1])
         /\ ShortId(bytes, i) \/ LongId(bytes, i) \/ Swallowed(bytes, i) \/ Name(bytes, i)
              \/ ParseStep(bytes, f, i) = NoCommand
<1>1. Len(bytes) \in Nat /\ i \in Nat /\ i >= 1
  BY LenProperties
<1>2. \A m \in Methods : m \in Nat /\ m > 255
  BY SymbolAssumption
<1>3. \A k \in Nat : At(bytes, k) # Unset => k <= Len(bytes) /\ At(bytes, k) = bytes[k]
  BY DEF At
<1>4. /\ ShortId(bytes, i) => ~LongId(bytes, i) /\ ~Swallowed(bytes, i) /\ ~Name(bytes, i)
      /\ LongId(bytes, i) => ~Swallowed(bytes, i) /\ ~Name(bytes, i)
      /\ Swallowed(bytes, i) => ~Name(bytes, i)
  <2>1. \A v : v \in 0..127 => v \notin 128..255 /\ v \notin Methods
    BY <1>2
  <2>2. \A v : v \in 128..255 => v \notin Methods
    BY <1>2
  <2>3. 8 # 18
    OBVIOUS
  <2>4. \A v : v = 8 => v # 18
    BY <2>3
  <2>5. ShortId(bytes, i) => ~LongId(bytes, i) /\ ~Swallowed(bytes, i)
    <3>1. PICK v : v = At(bytes, i + 1)
      OBVIOUS
    <3>2. /\ ShortId(bytes, i) => v \in 0..127
          /\ LongId(bytes, i) => v \in 128..255
          /\ Swallowed(bytes, i) => v \in Methods
      BY <3>1 DEF ShortId, LongId, Swallowed
    <3>3. v \in 0..127 => v \notin 128..255 /\ v \notin Methods
      BY <2>1, ZenonT(60)
    <3> QED
      BY <3>2, <3>3, Zenon
  <2>6. LongId(bytes, i) => ~Swallowed(bytes, i)
    BY <2>2, Zenon DEF LongId, Swallowed
  <2>7. ShortId(bytes, i) \/ LongId(bytes, i) \/ Swallowed(bytes, i) => ~Name(bytes, i)
    BY <2>4, Zenon DEF ShortId, LongId, Swallowed, Name
  <2> QED
    BY <2>5, <2>6, <2>7
<1>5. \A k \in 0..255 \cup Methods : k # Unset
  BY <1>2 DEF Unset
<1>6. CASE ShortId(bytes, i)
  <2>1. At(bytes, i + 1) # Unset
    BY <1>5, <1>6 DEF ShortId
  <2>2. ParseStep(bytes, f, i) = WithId(f[i + 2], At(bytes, i + 1))
    BY <1>4, <1>6, Zenon DEF ParseStep
  <2> QED
    BY <1>1, <1>3, <1>4, <1>6, <2>1, <2>2
<1>7. CASE LongId(bytes, i)
  <2>1. At(bytes, i + 1) # Unset /\ At(bytes, i + 2) # Unset
    BY <1>5, <1>7, SMTT(60) DEF LongId
  <2>2. ParseStep(bytes, f, i) =
          WithId(f[i + 3], At(bytes, i + 1) - 128 + 128 * At(bytes, i + 2))
    BY <1>4, <1>7, Zenon DEF ParseStep
  <2> QED
    BY <1>1, <1>3, <1>4, <1>7, <2>1, <2>2
<1>8. CASE Swallowed(bytes, i)
  <2>1. At(bytes, i + 1) # Unset
    BY <1>5, <1>8 DEF Swallowed
  <2>2. ParseStep(bytes, f, i) = WithId(NoCommand, At(bytes, i + 1) % 256)
    BY <1>4, <1>8, Zenon DEF ParseStep
  <2> QED
    BY <1>1, <1>3, <1>4, <1>8, <2>1, <2>2
<1>9. CASE Name(bytes, i)
  <2>1. At(bytes, i + 1) # Unset
    BY <1>5, <1>9 DEF Name
  <2>2. ParseStep(bytes, f, i) = WithMethod(f[i + 2], At(bytes, i + 1))
    BY <1>4, <1>9, Zenon DEF ParseStep
  <2> QED
    BY <1>1, <1>3, <1>4, <1>9, <2>1, <2>2
<1>10. CASE ~ShortId(bytes, i) /\ ~LongId(bytes, i) /\ ~Swallowed(bytes, i) /\ ~Name(bytes, i)
  BY <1>10, Zenon DEF ParseStep
<1> QED
  BY <1>6, <1>7, <1>8, <1>9, <1>10

\* A step depends on what is behind its place only.
LEMMA ParseStepAhead ==
  ASSUME NEW bytes \in Seq(Symbols), NEW f, NEW g, NEW i \in 1..(Len(bytes) + 1),
         \A j \in (i + 1)..(Len(bytes) + 1) : f[j] = g[j]
  PROVE  ParseStep(bytes, f, i) = ParseStep(bytes, g, i)
<1>1. CASE ShortId(bytes, i)
  BY <1>1, ParseStepCases
<1>2. CASE LongId(bytes, i)
  BY <1>2, ParseStepCases
<1>3. CASE Swallowed(bytes, i)
  BY <1>3, ParseStepCases
<1>4. CASE Name(bytes, i)
  BY <1>4, ParseStepCases
<1>5. CASE ~ShortId(bytes, i) /\ ~LongId(bytes, i) /\ ~Swallowed(bytes, i) /\ ~Name(bytes, i)
  BY <1>5, ParseStepCases
<1> QED
  BY <1>1, <1>2, <1>3, <1>4, <1>5

\* The recursion of Parse has a solution.
LEMMA ParseFromExists ==
  ASSUME NEW bytes \in Seq(Symbols)
  PROVE  ParseFrom(bytes) = [i \in 1..(Len(bytes) + 1) |-> ParseStep(bytes, ParseFrom(bytes), i)]
<1> DEFINE N == Len(bytes) + 1
           Part(f, m) == f = [i \in m..N |-> ParseStep(bytes, f, i)]
           S == {d \in 0..Len(bytes) : ~(\E f : Part(f, N - d))}
<1>1. Len(bytes) \in Nat /\ N \in Nat /\ N = Len(bytes) + 1
  BY LenProperties
<1> HIDE DEF N
<1>2. SUFFICES ASSUME S # {} PROVE FALSE
  <2>1. Len(bytes) \notin S
    BY <1>2
  <2>2. Len(bytes) \in 0..Len(bytes) /\ N - Len(bytes) = 1
    BY <1>1
  <2> HIDE DEF Part
  <2>3. \E f : Part(f, N - Len(bytes))
    BY <2>1, <2>2
  <2>4. \E f : Part(f, 1)
    BY <2>2, <2>3
  <2>5. \E f : f = [i \in 1..(Len(bytes) + 1) |-> ParseStep(bytes, f, i)]
    BY <2>4 DEF Part, N
  <2> QED
    BY <2>5, Zenon DEF ParseFrom
<1>3. PICK d \in S : \A c \in S : d <= c
  <2>1. S \subseteq Nat
    BY <1>1
  <2> HIDE DEF S
  <2> QED
    BY <1>2, <2>1, Least
<1> DEFINE m == N - d
<1>4. d \in Nat /\ d <= Len(bytes) /\ m \in Nat /\ m >= 1 /\ m <= N /\ m = N - d
  BY <1>1, <1>3
<1>5. ~(\E f : Part(f, m))
  BY <1>3
<1>6. PICK f : \A i \in (m + 1)..N : f[i] = ParseStep(bytes, f, i)
  <2>1. CASE d = 0
    <3>1. (m + 1)..N = {}
      BY <1>1, <1>4, <2>1
    <3> QED
      BY <3>1
  <2>2. CASE d # 0
    <3>1. d - 1 \in 0..Len(bytes) /\ N - (d - 1) = m + 1 /\ ~(d <= d - 1)
      BY <1>1, <1>4, <2>2
    <3> HIDE DEF Part, m
    <3>2. d - 1 \notin S
      <4> HIDE DEF S
      <4> QED
        BY <1>3, <3>1
    <3>3. PICK f : Part(f, N - (d - 1))
      BY <3>1, <3>2
    <3>4. Part(f, m + 1)
      BY <3>1, <3>3
    <3>5. f = [i \in (m + 1)..N |-> ParseStep(bytes, f, i)]
      BY <3>4 DEF Part
    <3> QED
      BY <3>5
  <2> QED
    BY <2>1, <2>2
<1> DEFINE h == [i \in m..N |-> ParseStep(bytes, f, i)]
<1> HIDE DEF m
<1>7. \A i \in (m + 1)..N : h[i] = f[i]
  <2>1. \A i \in (m + 1)..N : i \in m..N
    BY <1>1, <1>4
  <2> QED
    BY <1>6, <2>1
<1> HIDE DEF h
<1>8. \A i \in m..N : ParseStep(bytes, f, i) = ParseStep(bytes, h, i)
  <2> TAKE i \in m..N
  <2>1. i \in 1..(Len(bytes) + 1) /\ \A j \in (i + 1)..(Len(bytes) + 1) : j \in (m + 1)..N
    BY <1>1, <1>4
  <2>2. \A j \in (i + 1)..(Len(bytes) + 1) : f[j] = h[j]
    BY <1>7, <2>1
  <2> QED
    BY <2>1, <2>2, ParseStepAhead
<1>9. h = [i \in m..N |-> ParseStep(bytes, h, i)]
  BY <1>8 DEF h
<1> QED
  BY <1>5, <1>9 DEF Part

LEMMA ParseFromUnfolds ==
  ASSUME NEW bytes \in Seq(Symbols), NEW i \in 1..(Len(bytes) + 1)
  PROVE  ParseFrom(bytes)[i] = ParseStep(bytes, ParseFrom(bytes), i)
<1> DEFINE g == ParseFrom(bytes)
<1>1. g = [j \in 1..(Len(bytes) + 1) |-> ParseStep(bytes, g, j)]
  BY ParseFromExists
<1> HIDE DEF g
<1>2. g[i] = ParseStep(bytes, g, i)
  BY <1>1
<1> QED
  BY <1>2 DEF g

\* c is a command whose method, if it has one, is among the bytes.
Among(c, bytes) ==
  c \in Parsed /\ (c.method # NONE => \E j \in 1..Len(bytes) : bytes[j] = c.method)

\* What is parsed from any place is such a command.
LEMMA ParseFromType ==
  ASSUME NEW bytes \in Seq(Symbols), NEW i \in 1..(Len(bytes) + 1)
  PROVE  Among(ParseFrom(bytes)[i], bytes)
<1> DEFINE N == Len(bytes) + 1
           f == ParseFrom(bytes)
           S == {d \in 0..Len(bytes) : ~Among(f[N - d], bytes)}
<1>1. Len(bytes) \in Nat /\ N \in Nat /\ N = Len(bytes) + 1
  BY LenProperties
<1>2. SUFFICES ASSUME S # {} PROVE FALSE
  <2>1. N - i \in 0..Len(bytes) /\ N - (N - i) = i
    BY <1>1
  <2>2. N - i \notin S
    BY <1>2
  <2> QED
    BY <2>1, <2>2
<1>3. PICK d \in S : \A c \in S : d <= c
  <2>1. S \subseteq Nat
    BY <1>1
  <2> HIDE DEF S
  <2> QED
    BY <1>2, <2>1, Least
<1> DEFINE m == N - d
<1>4. d \in Nat /\ d <= Len(bytes) /\ m \in 1..(Len(bytes) + 1) /\ m = N - d
      /\ ~Among(f[m], bytes)
  BY <1>1, <1>3
<1>5. \A j \in (m + 1)..N : Among(f[j], bytes)
  <2> TAKE j \in (m + 1)..N
  <2>1. N - j \in 0..Len(bytes) /\ N - (N - j) = j /\ ~(d <= N - j)
    BY <1>1, <1>4
  <2>2. N - j \notin S
    <3> HIDE DEF S
    <3> QED
      BY <1>3, <2>1
  <2> QED
    BY <2>1, <2>2
<1>6. f[m] = ParseStep(bytes, f, m)
  BY <1>4, ParseFromUnfolds
<1> HIDE DEF S, N, f, m
<1>7. Among(NoCommand, bytes) /\ \A v \in 0..(128 * 128 - 1) : Among(WithId(NoCommand, v), bytes)
  BY DEF Among, NoCommand, Parsed, WithId, Unset, NONE
<1>8. \A c, v : Among(c, bytes) /\ v \in 0..(128 * 128 - 1) => Among(WithId(c, v), bytes)
  BY ZenonT(60) DEF Among, Parsed, WithId
<1>9. \A c : \A j \in 1..Len(bytes) :
        Among(c, bytes) /\ bytes[j] \in Methods => Among(WithMethod(c, bytes[j]), bytes)
  BY DEF Among, Parsed, WithMethod
<1>10. CASE ShortId(bytes, m)
  <2>1. /\ m + 1 \in 1..Len(bytes) /\ m + 2 \in (m + 1)..N
        /\ f[m] = WithId(f[m + 2], bytes[m + 1])
    BY <1>1, <1>4, <1>6, <1>10, ParseStepCases
  <2>2. bytes[m + 1] \in 0..(128 * 128 - 1)
    <3>1. \A x : x \in 0..127 => x \in 0..(128 * 128 - 1)
      OBVIOUS
    <3>2. bytes[m + 1] \in 0..127
      BY <1>1, <2>1, <1>10 DEF ShortId, At
    <3> QED
      BY <3>1, <3>2
  <2> QED
    BY <1>4, <1>5, <1>8, <2>1, <2>2
<1>11. CASE LongId(bytes, m)
  <2>1. /\ m + 1 \in 1..Len(bytes) /\ m + 2 \in 1..Len(bytes) /\ m + 3 \in (m + 1)..N
        /\ f[m] = WithId(f[m + 3], bytes[m + 1] - 128 + 128 * bytes[m + 2])
    BY <1>1, <1>4, <1>6, <1>11, ParseStepCases
  <2>2. bytes[m + 1] \in 128..255 /\ bytes[m + 2] \in 0..127
    BY <2>1, <1>11 DEF LongId, At
  <2>3. bytes[m + 1] - 128 + 128 * bytes[m + 2] \in 0..(128 * 128 - 1)
    <3>1. \A x \in 128..255, y \in 0..127 : x - 128 + 128 * y \in 0..(128 * 128 - 1)
      OBVIOUS
    <3> QED
      BY <2>2, <3>1
  <2> QED
    BY <1>4, <1>5, <1>8, <2>1, <2>3
<1>12. CASE Swallowed(bytes, m)
  <2>1. m + 1 \in 1..Len(bytes) /\ f[m] = WithId(NoCommand, bytes[m + 1] % 256)
    BY <1>1, <1>4, <1>6, <1>12, ParseStepCases
  <2>2. bytes[m + 1] \in Nat
    <3>1. bytes[m + 1] \in Methods
      BY <1>1, <2>1, <1>12 DEF Swallowed, At
    <3> QED
      BY <3>1, SymbolAssumption
  <2>3. bytes[m + 1] % 256 \in 0..(128 * 128 - 1)
    <3>1. \A x \in Nat : x % 256 \in 0..(128 * 128 - 1)
      OBVIOUS
    <3> QED
      BY <2>2, <3>1
  <2> QED
    BY <1>4, <1>7, <2>1, <2>3
<1>13. CASE Name(bytes, m)
  <2>1. /\ m + 1 \in 1..Len(bytes) /\ m + 2 \in (m + 1)..N
        /\ f[m] = WithMethod(f[m + 2], bytes[m + 1])
    BY <1>1, <1>4, <1>6, <1>13, ParseStepCases
  <2>2. bytes[m + 1] \in Methods
    BY <2>1, <1>13 DEF Name, At
  <2> QED
    BY <1>4, <1>5, <1>9, <2>1, <2>2
<1> QED
  BY <1>4, <1>6, <1>7, <1>10, <1>11, <1>12, <1>13, ParseStepCases

LEMMA ParseType ==
  ASSUME NEW bytes \in Seq(Symbols)
  PROVE  Among(Parse(bytes), bytes)
<1>1. 1 \in 1..(Len(bytes) + 1)
  BY LenProperties
<1> QED
  BY <1>1, ParseIsParseFrom, ParseFromType

\* What is parsed behind the last byte, and from a name that is the last thing.
LEMMA ParseEnds ==
  ASSUME NEW bytes \in Seq(Symbols)
  PROVE  /\ ParseFrom(bytes)[Len(bytes) + 1] = NoCommand
         /\ \A i \in Nat : i >= 1 /\ i + 1 = Len(bytes) /\ bytes[i] = 18 /\ bytes[i + 1] \in Methods =>
              ParseFrom(bytes)[i] = [id |-> Unset, method |-> bytes[i + 1]]
<1> DEFINE N == Len(bytes) + 1
           g == ParseFrom(bytes)
<1>1. Len(bytes) \in Nat /\ N = Len(bytes) + 1 /\ N \in 1..(Len(bytes) + 1)
  BY LenProperties
<1>2. \A i \in 1..(Len(bytes) + 1) : g[i] = ParseStep(bytes, g, i)
  BY ParseFromUnfolds
<1> HIDE DEF N, g
<1>3. g[N] = NoCommand
  <2>1. At(bytes, N) = Unset /\ Unset # 8 /\ Unset # 18
    BY <1>1 DEF At, Unset
  <2>2. ~ShortId(bytes, N) /\ ~LongId(bytes, N) /\ ~Swallowed(bytes, N) /\ ~Name(bytes, N)
    BY <2>1 DEF ShortId, LongId, Swallowed, Name
  <2>3. ParseStep(bytes, g, N) = NoCommand
    BY <1>1, <2>2, ParseStepCases
  <2> QED
    BY <1>1, <1>2, <2>3
<1>4. ASSUME NEW i \in Nat, i >= 1, i + 1 = Len(bytes), bytes[i] = 18, bytes[i + 1] \in Methods
      PROVE  g[i] = [id |-> Unset, method |-> bytes[i + 1]]
  <2>1. i \in 1..(Len(bytes) + 1) /\ i + 2 = N /\ i <= Len(bytes) /\ i + 1 <= Len(bytes)
    BY <1>1, <1>4
  <2>2. Name(bytes, i)
    BY <1>4, <2>1 DEF Name, At
  <2>3. ParseStep(bytes, g, i) = WithMethod(g[i + 2], bytes[i + 1])
    BY <2>1, <2>2, ParseStepCases
  <2>4. g[i] = WithMethod(NoCommand, bytes[i + 1])
    BY <1>2, <1>3, <2>1, <2>3
  <2> QED
    BY <2>4 DEF WithMethod, NoCommand
<1> QED
  BY <1>3, <1>4 DEF N, g

\* The two groups of seven bits.
LEMMA Septets ==
  ASSUME NEW n \in Int, n >= 128, n <= 16383, NEW low, low = n % 128, NEW high, high = n \div 128
  PROVE  low \in 0..127 /\ high \in 1..127 /\ n = 128 * high + low
<1>1. low \in Int /\ low >= 0 /\ low <= 127
  OBVIOUS
<1>2. high \in Int /\ high >= 1 /\ high <= 127
  OBVIOUS
<1>3. n = 128 * high + low
  OBVIOUS
<1> QED
  BY <1>1, <1>2, <1>3

\* The bytes of an id: the id itself, or these two groups.
ShortVarint(n, v) == v = <<n>> /\ n \in 0..127
LongVarint(n, v) ==
  \E lo \in 128..255, high \in 1..127 : v = <<lo, high>> /\ lo - 128 + 128 * high = n

LEMMA VarintFacts ==
  ASSUME NEW n \in 0..(128 * 128 - 1)
  PROVE  /\ ShortVarint(n, Varint(n)) \/ LongVarint(n, Varint(n))
         /\ Varint(n) \in Seq(Symbols) /\ Len(Varint(n)) \in {1, 2}
         /\ \A j \in 1..Len(Varint(n)) : Varint(n)[j] \in 0..255
<1>1. n \in 0..16383 /\ n \in Nat
  <2>1. 128 * 128 - 1 = 16383
    OBVIOUS
  <2> QED
    BY <2>1
<1>2. CASE n < 128
  <2>1. n \in 0..127 /\ n \in 0..255
    BY <1>1, <1>2
  <2>2. Varint(n) = <<n>>
    BY <1>2 DEF Varint
  <2>3. n \in Symbols
    BY <2>1 DEF Symbols
  <2>4. <<n>> \in Seq(Symbols) /\ Len(<<n>>) = 1 /\ <<n>>[1] = n
    BY <2>3
  <2>5. ShortVarint(n, Varint(n))
    BY <2>1, <2>2 DEF ShortVarint
  <2> QED
    BY <2>1, <2>2, <2>4, <2>5
<1>3. CASE ~(n < 128)
  <2>1. n \in Int /\ n >= 128 /\ n <= 16383
    BY <1>1, <1>3
  <2>2. PICK low, high : low = n % 128 /\ high = n \div 128
    OBVIOUS
  <2>10. low \in 0..127 /\ high \in 1..127 /\ n = 128 * high + low
    BY <2>1, <2>2, Septets
  <2>12. low \in 0..127
    BY <2>10, Zenon
  <2>3. PICK lo \in 128..255 : lo = 128 + low
    BY <2>12
  <2>4. Varint(n) = <<lo, high>>
    BY <1>3, <2>2, <2>3 DEF Varint
  <2>5. lo - 128 + 128 * high = n
    BY <2>3, <2>10
  <2>6. LongVarint(n, Varint(n))
    BY <2>4, <2>5, <2>10 DEF LongVarint
  <2>11. high \in 1..127
    BY <2>10, Zenon
  <2>7. lo \in 0..255 /\ high \in 0..255
    BY <2>11
  <2>8. lo \in Symbols /\ high \in Symbols
    BY <2>7 DEF Symbols
  <2>9. /\ <<lo, high>> \in Seq(Symbols) /\ Len(<<lo, high>>) = 2
        /\ \A j \in 1..2 : <<lo, high>>[j] \in 0..255
    BY <2>7, <2>8
  <2> QED
    BY <2>4, <2>6, <2>9
<1> QED
  BY <1>2, <1>3

\* The bytes of a command.
LEMMA EncodeFacts ==
  ASSUME NEW cmd \in Command
  PROVE  LET v == Varint(cmd.id)
             e == Encode(cmd)
         IN  /\ cmd.id \in 0..(128 * 128 - 1) /\ cmd.method \in Methods
             /\ <<8>> \in Seq(Symbols) /\ <<18, cmd.method>> \in Seq(Symbols)
             /\ Len(v) \in {1, 2} /\ v \in Seq(Symbols)
             /\ e \in Seq(Symbols) /\ Len(e) = Len(v) + 3
             /\ e[1] = 8 /\ \A j \in 1..Len(v) : e[1 + j] = v[j]
             /\ e[Len(v) + 2] = 18 /\ e[Len(v) + 3] = cmd.method
             /\ e = (<<8>> \o v) \o <<18, cmd.method>>
<1> DEFINE v == Varint(cmd.id)
           e == Encode(cmd)
           t == <<18, cmd.method>>
           h == <<8>> \o v
<1>1. cmd.id \in 0..(128 * 128 - 1) /\ cmd.method \in Methods
  BY DEF Command
<1>2. v \in Seq(Symbols) /\ Len(v) \in {1, 2}
  BY <1>1, VarintFacts
<1>3. 8 \in Symbols /\ 18 \in Symbols /\ cmd.method \in Symbols
  <2>1. cmd.method \in Methods
    BY <1>1, Zenon
  <2> QED
    BY <2>1 DEF Symbols
<1> HIDE DEF v
<1>4. /\ <<8>> \in Seq(Symbols) /\ Len(<<8>>) = 1 /\ <<8>>[1] = 8
      /\ t \in Seq(Symbols) /\ Len(t) = 2 /\ t[1] = 18 /\ t[2] = cmd.method
  BY <1>3
<1>5. e = h \o t
  BY DEF Encode, v
<1> HIDE DEF e, t
<1>6. /\ h \in Seq(Symbols) /\ Len(h) = 1 + Len(v)
      /\ \A i \in 1..(1 + Len(v)) : h[i] = IF i <= 1 THEN <<8>>[i] ELSE v[i - 1]
  BY <1>2, <1>4, ConcatProperties
<1>7. h[1] = 8 /\ \A j \in 1..Len(v) : h[1 + j] = v[j]
  <2>1. 1 \in 1..(1 + Len(v)) /\ \A j \in 1..Len(v) : 1 + j \in 1..(1 + Len(v)) /\ ~(1 + j <= 1)
                                                      /\ (1 + j) - 1 = j
    BY <1>2
  <2> QED
    BY <1>4, <1>6, <2>1
<1> HIDE DEF h
<1>8. /\ e \in Seq(Symbols) /\ Len(e) = Len(h) + 2
      /\ \A i \in 1..(Len(h) + 2) : e[i] = IF i <= Len(h) THEN h[i] ELSE t[i - Len(h)]
  <2>1. h \in Seq(Symbols) /\ t \in Seq(Symbols) /\ Len(t) = 2
    BY <1>4, <1>6
  <2>2. /\ h \o t \in Seq(Symbols) /\ Len(h \o t) = Len(h) + Len(t)
        /\ \A i \in 1..(Len(h) + Len(t)) :
             (h \o t)[i] = IF i <= Len(h) THEN h[i] ELSE t[i - Len(h)]
    BY <2>1, ConcatProperties
  <2> QED
    BY <1>5, <2>1, <2>2
<1>9. /\ e[1] = 8 /\ \A j \in 1..Len(v) : e[1 + j] = v[j]
  <2>1. 1 \in 1..(Len(h) + 2) /\ 1 <= Len(h) /\
        \A j \in 1..Len(v) : 1 + j \in 1..(Len(h) + 2) /\ 1 + j <= Len(h)
    BY <1>2, <1>6
  <2> QED
    BY <1>7, <1>8, <2>1
<1>10. e[Len(v) + 2] = 18 /\ e[Len(v) + 3] = cmd.method
  <2>1. /\ Len(v) + 2 \in 1..(Len(h) + 2) /\ ~(Len(v) + 2 <= Len(h)) /\ Len(v) + 2 - Len(h) = 1
        /\ Len(v) + 3 \in 1..(Len(h) + 2) /\ ~(Len(v) + 3 <= Len(h)) /\ Len(v) + 3 - Len(h) = 2
    BY <1>2, <1>6
  <2> QED
    BY <1>4, <1>8, <2>1
<1>11. Len(e) = Len(v) + 3
  BY <1>2, <1>6, <1>8
<1> QED
  BY <1>1, <1>2, <1>4, <1>5, <1>8, <1>9, <1>10, <1>11 DEF v, e, t, h

\* A command that arrives as it was sent is parsed as what it was.
LEMMA ParseEncode ==
  ASSUME NEW cmd \in Command
  PROVE  Parse(Encode(cmd)) = cmd
<1>1. PICK v, e, g :
        /\ v = Varint(cmd.id) /\ e = Encode(cmd) /\ g = ParseFrom(e)
  OBVIOUS
<1>2. /\ cmd.id \in 0..(128 * 128 - 1) /\ cmd.method \in Methods
      /\ e \in Seq(Symbols) /\ Len(v) \in {1, 2} /\ Len(e) = Len(v) + 3
      /\ e[1] = 8 /\ \A j \in 1..Len(v) : e[1 + j] = v[j]
      /\ e[Len(v) + 2] = 18 /\ e[Len(v) + 3] = cmd.method
  BY <1>1, EncodeFacts
<1>11. Len(v) \in {1, 2} /\ Len(e) = Len(v) + 3
  BY <1>2, Zenon
<1>3. Parse(Encode(cmd)) = g[1]
  BY <1>1, ParseIsParseFrom
<1>4. cmd = [id |-> cmd.id, method |-> cmd.method]
  BY DEF Command
<1>5. g[Len(v) + 2] = [id |-> Unset, method |-> cmd.method]
  <2>1. \A i \in Nat : i >= 1 /\ i + 1 = Len(e) /\ e[i] = 18 /\ e[i + 1] \in Methods =>
          g[i] = [id |-> Unset, method |-> e[i + 1]]
    BY <1>1, <1>2, ParseEnds
  <2>2. Len(v) + 2 \in Nat /\ Len(v) + 2 >= 1 /\ (Len(v) + 2) + 1 = Len(v) + 3
    BY <1>11
  <2> QED
    BY <1>2, <2>1, <2>2
<1>6. g[1] = ParseStep(e, g, 1)
  <2>1. 1 \in 1..(Len(e) + 1)
    BY <1>11
  <2> QED
    BY <1>1, <1>2, <2>1, ParseFromUnfolds
<1>7. 1 <= Len(e) /\ 1 + 1 <= Len(e) /\ 1 + 2 <= Len(e) /\ 1 \in 1..(Len(e) + 1)
  BY <1>11
<1>8. At(e, 1) = 8 /\ e[1 + 1] = v[1] /\ At(e, 1 + 1) = v[1]
      /\ (Len(v) = 2 => e[1 + 2] = v[2] /\ At(e, 1 + 2) = v[2])
  <2>1. 1 \in 1..Len(v) /\ (Len(v) = 2 => 2 \in 1..Len(v))
    BY <1>11
  <2> QED
    BY <1>2, <1>7, <2>1 DEF At
<1>9. CASE ShortVarint(cmd.id, v)
  <2>1. Len(v) = 1 /\ v[1] = cmd.id /\ cmd.id \in 0..127
    BY <1>9 DEF ShortVarint
  <2>2. ShortId(e, 1)
    BY <1>8, <2>1 DEF ShortId
  <2>3. g[1] = WithId(g[1 + 2], e[1 + 1])
    <3>1. e \in Seq(Symbols)
      BY <1>2
    <3>2. \A i \in 1..(Len(e) + 1) :
            ShortId(e, i) => ParseStep(e, g, i) = WithId(g[i + 2], e[i + 1])
      BY <3>1, ParseStepCases
    <3> QED
      BY <1>6, <1>7, <2>2, <3>2
  <2>4. g[1] = WithId([id |-> Unset, method |-> cmd.method], cmd.id)
    BY <1>5, <1>8, <2>1, <2>3
  <2> QED
    BY <1>3, <1>4, <2>4 DEF WithId
<1>10. CASE LongVarint(cmd.id, v)
  <2>1. PICK lo \in 128..255, high \in 1..127 : v = <<lo, high>> /\ lo - 128 + 128 * high = cmd.id
    BY <1>10 DEF LongVarint
  <2>2. Len(v) = 2 /\ v[1] = lo /\ v[2] = high /\ high \in 0..127
    BY <2>1
  <2>3. LongId(e, 1)
    BY <1>8, <2>2 DEF LongId
  <2>4. g[1] = WithId(g[1 + 3], e[1 + 1] - 128 + 128 * e[1 + 2])
    <3>1. e \in Seq(Symbols)
      BY <1>2
    <3>2. \A i \in 1..(Len(e) + 1) :
            LongId(e, i) =>
              ParseStep(e, g, i) = WithId(g[i + 3], e[i + 1] - 128 + 128 * e[i + 2])
      BY <3>1, ParseStepCases
    <3> QED
      BY <1>6, <1>7, <2>3, <3>2
  <2>5. g[1] = WithId([id |-> Unset, method |-> cmd.method], cmd.id)
    BY <1>5, <1>8, <2>1, <2>2, <2>4
  <2> QED
    BY <1>3, <1>4, <2>5 DEF WithId
<1> QED
  BY <1>1, <1>2, <1>9, <1>10, VarintFacts

(***************************************************************************)
(* The lines of a command.                                                 *)
(***************************************************************************)
\* A line and its newline are cut off.
LEMMA CutLine ==
  ASSUME NEW E, NEW l \in Seq(E), NoNewline(l), <<NL>> \in Seq(E), NEW r \in Seq(E)
  PROVE  Cut((l \o <<NL>>) \o r) = [lines |-> <<l>> \o Cut(r).lines, rest |-> Cut(r).rest]
<1> DEFINE ln == l \o <<NL>>
           b == ln \o r
           e == Len(l) + 1
<1>1. Len(l) \in Nat /\ Len(r) \in Nat /\ e = Len(l) + 1 /\ Len(<<NL>>) = 1 /\ <<NL>>[1] = NL
  BY LenProperties
<1>2. /\ ln \in Seq(E) /\ Len(ln) = Len(l) + 1
      /\ \A i \in 1..(Len(l) + 1) : ln[i] = IF i <= Len(l) THEN l[i] ELSE <<NL>>[i - Len(l)]
  BY <1>1, ConcatProperties
<1>3. ln[e] = NL /\ \A j \in 1..Len(l) : ln[j] = l[j]
  <2>1. e \in 1..(Len(l) + 1) /\ ~(e <= Len(l)) /\ e - Len(l) = 1
        /\ \A j \in 1..Len(l) : j \in 1..(Len(l) + 1) /\ j <= Len(l)
    BY <1>1
  <2> QED
    BY <1>1, <1>2, <2>1
<1> HIDE DEF ln, e
<1>4. /\ b \in Seq(E) /\ Len(b) = Len(ln) + Len(r)
      /\ \A i \in 1..(Len(ln) + Len(r)) : b[i] = IF i <= Len(ln) THEN ln[i] ELSE r[i - Len(ln)]
  <2>1. ln \in Seq(E)
    BY <1>2
  <2> QED
    BY <2>1, ConcatProperties, SMTT(60)
<1>5. FirstEnd(b, 1, e)
  <2>1. e \in 1..(Len(ln) + Len(r)) /\ e <= Len(ln)
    BY <1>1, <1>2
  <2>2. \A j \in 1..(e - 1) : j \in 1..Len(l) /\ j \in 1..(Len(ln) + Len(r)) /\ j <= Len(ln)
    BY <1>1, <1>2
  <2>3. b[e] = NL /\ \A j \in 1..(e - 1) : b[j] = l[j]
    BY <1>3, <1>4, <2>1, <2>2
  <2> QED
    BY <1>4, <2>1, <2>2, <2>3 DEF FirstEnd, NoNewline
<1>6. SubSeq(b, 1, e - 1) = l
  <2>1. 1 \in Nat /\ 1 > 0 /\ e - 1 = Len(l) /\ e - 1 \in Int /\ e - 1 <= Len(ln) /\ Len(l) <= Len(l)
    BY <1>1, <1>2
  <2>2. SubSeq(b, 1, e - 1) = SubSeq(ln, 1, e - 1)
    BY <1>2, <2>1, PartOfConcat
  <2>3. SubSeq(ln, 1, Len(l)) = SubSeq(l, 1, Len(l))
    BY <1>1, <2>1, PartOfConcat DEF ln
  <2>4. SubSeq(l, 1, Len(l)) = l
    BY SubSeqFull
  <2> QED
    BY <2>1, <2>2, <2>3, <2>4
<1>7. SubSeq(b, e + 1, Len(b)) = r
  <2>1. e + 1 \in 1..(Len(ln) + 1) /\ Len(ln) < e + 1 /\ e + 1 \in Int /\ Len(ln) \in Int
    BY <1>1, <1>2
  <2>2. SubSeq(b, e + 1, Len(b)) = SubSeq(ln, e + 1, Len(ln)) \o r
    BY <1>2, <2>1, RestOfConcat
  <2>3. SubSeq(ln, e + 1, Len(ln)) = <<>>
    BY <2>1, SubSeqEmpty
  <2> QED
    BY <2>2, <2>3, ConcatEmptySeq
<1> HIDE DEF b
<1>8. \A j : FirstEnd(b, 1, j) =>
        Cut(b) = [lines |-> <<SubSeq(b, 1, j - 1)>> \o Cut(SubSeq(b, j + 1, Len(b))).lines,
                  rest |-> Cut(SubSeq(b, j + 1, Len(b))).rest]
  BY <1>4, CutEquations
<1>9. Cut(b) = [lines |-> <<l>> \o Cut(r).lines, rest |-> Cut(r).rest]
  BY <1>5, <1>6, <1>7, <1>8
<1> QED
  BY <1>9 DEF b, ln

\* The last line.
LEMMA CutLastLine ==
  ASSUME NEW E, NEW l \in Seq(E), NoNewline(l), <<NL>> \in Seq(E)
  PROVE  Cut(l \o <<NL>>) = [lines |-> <<l>>, rest |-> <<>>]
<1>1. l \o <<NL>> \in Seq(E) /\ <<>> \in Seq(E)
  BY ConcatProperties, EmptySeq
<1>2. (l \o <<NL>>) \o <<>> = l \o <<NL>>
  BY <1>1, ConcatEmptySeq
<1>3. Cut((l \o <<NL>>) \o <<>>) = [lines |-> <<l>> \o Cut(<<>>).lines, rest |-> Cut(<<>>).rest]
  BY <1>1, CutLine
<1>4. Cut(<<>>) = [lines |-> <<>>, rest |-> <<>>]
  <2>1. NoNewline(<<>>)
    BY DEF NoNewline
  <2> QED
    BY <1>1, <2>1, CutEquations
<1>5. <<l>> \o <<>> = <<l>>
  <2>1. <<l>> \in Seq(Seq(E))
    OBVIOUS
  <2> QED
    BY <2>1, ConcatEmptySeq
<1> QED
  BY <1>2, <1>3, <1>4, <1>5

\* What is parsed, line by line.
LEMMA ParseAllFacts ==
  ASSUME NEW s \in Seq(Seq(Symbols))
  PROVE  /\ ParseAll(s) \in Seq(Parsed) /\ Len(ParseAll(s)) = Len(s)
         /\ \A k \in 1..Len(s) : s[k] \in Seq(Symbols) /\ ParseAll(s)[k] = Parse(s[k])
<1>1. Len(s) \in Nat /\ DOMAIN s = 1..Len(s)
  BY LenProperties
<1>2. \A k \in 1..Len(s) : s[k] \in Seq(Symbols)
  BY ElementOfSeq
<1>3. \A k \in 1..Len(s) : Parse(s[k]) \in Parsed
  BY <1>2, ParseType DEF Among
<1>4. ParseAll(s) = [k \in 1..Len(s) |-> Parse(s[k])]
  BY <1>1 DEF ParseAll
<1>5. PICK f : f = [k \in 1..Len(s) |-> Parse(s[k])]
  OBVIOUS
<1>6. f \in [1..Len(s) -> Parsed] /\ \A k \in 1..Len(s) : f[k] = Parse(s[k])
  BY <1>3, <1>5
<1>7. f \in Seq(Parsed) /\ Len(f) = Len(s)
  BY <1>1, <1>6
<1> QED
  BY <1>2, <1>4, <1>5, <1>6, <1>7

LEMMA ParseAllConcat ==
  ASSUME NEW s \in Seq(Seq(Symbols)), NEW t \in Seq(Seq(Symbols))
  PROVE  ParseAll(s \o t) = ParseAll(s) \o ParseAll(t)
<1>1. PICK c \in Seq(Seq(Symbols)) : c = s \o t
  BY ConcatProperties
<1>2. /\ Len(c) = Len(s) + Len(t)
      /\ \A i \in 1..(Len(s) + Len(t)) : c[i] = IF i <= Len(s) THEN s[i] ELSE t[i - Len(s)]
  BY <1>1, ConcatProperties
<1>3. PICK ps \in Seq(Parsed), pt \in Seq(Parsed), pc \in Seq(Parsed) :
        ps = ParseAll(s) /\ pt = ParseAll(t) /\ pc = ParseAll(c)
  BY ParseAllFacts
<1>4. /\ Len(ps) = Len(s) /\ \A k \in 1..Len(s) : ps[k] = Parse(s[k])
      /\ Len(pt) = Len(t) /\ \A k \in 1..Len(t) : pt[k] = Parse(t[k])
      /\ Len(pc) = Len(c) /\ \A k \in 1..Len(c) : pc[k] = Parse(c[k])
  BY <1>3, ParseAllFacts
<1>5. /\ ps \o pt \in Seq(Parsed) /\ Len(ps \o pt) = Len(ps) + Len(pt)
      /\ \A i \in 1..(Len(ps) + Len(pt)) :
           (ps \o pt)[i] = IF i <= Len(ps) THEN ps[i] ELSE pt[i - Len(ps)]
  BY ConcatProperties
<1>6. Len(s) \in Nat /\ Len(t) \in Nat
  BY LenProperties
<1>7. \A i \in 1..Len(pc) : pc[i] = (ps \o pt)[i]
  <2> TAKE i \in 1..Len(pc)
  <2>1. i \in 1..(Len(s) + Len(t)) /\ i \in 1..Len(c) /\ i \in 1..(Len(ps) + Len(pt))
    BY <1>2, <1>4
  <2>2. CASE i <= Len(s)
    <3>1. i \in 1..Len(s)
      BY <1>6, <2>1, <2>2
    <3> QED
      BY <1>2, <1>4, <1>5, <2>1, <2>2, <3>1
  <2>3. CASE ~(i <= Len(s))
    <3>1. i - Len(s) \in 1..Len(t)
      BY <1>6, <2>1, <2>3
    <3> QED
      BY <1>2, <1>4, <1>5, <2>1, <2>3, <3>1
  <2> QED
    BY <2>2, <2>3
<1>8. pc = ps \o pt
  <2>1. Len(pc) = Len(ps \o pt)
    BY <1>2, <1>4, <1>5
  <2> QED
    BY <1>5, <1>7, <2>1, SeqEqual
<1> QED
  BY <1>1, <1>3, <1>8

LEMMA ParseOne ==
  ASSUME NEW l \in Seq(Symbols)
  PROVE  ParseAll(<<l>>) = <<Parse(l)>>
<1>1. PICK s \in Seq(Seq(Symbols)) : s = <<l>>
  <2>1. \A T : \A x \in T : <<x>> \in Seq(T)
    OBVIOUS
  <2>2. <<l>> \in Seq(Seq(Symbols))
    BY <2>1
  <2> QED
    BY <2>2
<1>2. Len(s) = 1 /\ s[1] = l
  BY <1>1
<1>3. PICK p \in Seq(Parsed) : p = ParseAll(s)
  BY ParseAllFacts
<1>4. Len(p) = 1 /\ p[1] = Parse(l)
  BY <1>2, <1>3, ParseAllFacts
<1>5. Parse(l) \in Parsed
  BY ParseType DEF Among
<1>6. PICK x \in Parsed : x = Parse(l)
  BY <1>5
<1>7. p = <<x>>
  BY <1>4, <1>6
<1> QED
  BY <1>1, <1>3, <1>6, <1>7

\* The place of a newline among the bytes of an id: the last one.
LEMMA NewlineInId ==
  ASSUME NEW cmd \in Command
  PROVE  LET v == Varint(cmd.id)
             front == SubSeq(v, 1, Len(v) - 1)
         IN  IF Has(cmd, NL)
             THEN /\ front \in Seq(Symbols) /\ NoNewline(front)
                  /\ v = front \o <<NL>>
             ELSE \A j \in 1..Len(v) : v[j] # NL
<1>1. PICK v, n : v = Varint(cmd.id) /\ n = cmd.id
  OBVIOUS
<1>2. /\ v \in Seq(Symbols) /\ Len(v) \in {1, 2}
      /\ ShortVarint(n, v) \/ LongVarint(n, v)
  BY <1>1, EncodeFacts, VarintFacts
<1>3. Has(cmd, NL) <=> \E j \in 1..Len(v) : v[j] = NL
  <2>1. DOMAIN v = 1..Len(v)
    BY <1>2, LenProperties
  <2> QED
    BY <1>1, <2>1 DEF Has, ToSet
<1>4. CASE ~Has(cmd, NL)
  BY <1>1, <1>3, <1>4
<1>5. CASE Has(cmd, NL)
  <2>1. PICK j \in 1..Len(v) : v[j] = NL
    BY <1>3, <1>5
  <2>2. j = Len(v) /\ (Len(v) = 2 => v[1] # NL)
    <3>1. CASE Len(v) = 1
      BY <2>1, <3>1
    <3>2. CASE Len(v) = 2
      <4>1. v[1] \in 128..255
        <5>1. ~ShortVarint(n, v)
          BY <3>2 DEF ShortVarint
        <5> QED
          <6>1. PICK lo \in 128..255, high \in 1..127 : v = <<lo, high>>
            BY <1>2, <5>1 DEF LongVarint
          <6> QED
            BY <6>1
      <4>2. v[1] # NL
        <5>1. \A x \in 128..255 : x # 10
          OBVIOUS
        <5> QED
          BY <4>1, <5>1 DEF NL
      <4> QED
        BY <2>1, <3>2, <4>2
    <3> QED
      BY <1>2, <3>1, <3>2
  <2>3. SubSeq(v, 1, Len(v)) = SubSeq(v, 1, Len(v) - 1) \o <<v[Len(v)]>>
    <3>1. 1 \in 1..Len(v) /\ Len(v) \in 1..Len(v)
      BY <1>2
    <3> QED
      BY <1>2, <3>1, SubSeqRecursiveSecond
  <2>4. v = SubSeq(v, 1, Len(v) - 1) \o <<NL>>
    BY <1>2, <2>1, <2>2, <2>3, SubSeqFull
  <2>5. PICK front : front = SubSeq(v, 1, Len(v) - 1)
    OBVIOUS
  <2>6. /\ front \in Seq(Symbols) /\ Len(front) = Len(v) - 1
        /\ \A k \in 1..Len(front) : front[k] = v[k]
    <3>1. \A k \in 1..(Len(v) - 1) : k \in 1..Len(v) /\ v[k] \in Symbols
      BY <1>2, ElementOfSeq
    <3>2. /\ front \in Seq(Symbols)
          /\ Len(front) = IF 1 <= Len(v) - 1 THEN (Len(v) - 1) - 1 + 1 ELSE 0
          /\ \A k \in 1..((Len(v) - 1) - 1 + 1) : front[k] = v[1 + k - 1]
      <4>1. 1 \in Int /\ Len(v) - 1 \in Int
        BY <1>2
      <4> QED
        BY <2>5, <3>1, <4>1, SubSeqProperties
    <3>3. PICK len \in {1, 2} : len = Len(v)
      BY <1>2
    <3>4. Len(front) = len - 1
      BY <3>2, <3>3
    <3>5. \A k \in 1..(len - 1) : k \in 1..((len - 1) - 1 + 1) /\ 1 + k - 1 = k
      OBVIOUS
    <3>6. \A k \in 1..(len - 1) : front[k] = v[k]
      BY <3>2, <3>3, <3>5
    <3> QED
      BY <3>2, <3>3, <3>4, <3>6
  <2>7. NoNewline(front)
    BY <1>2, <2>2, <2>6 DEF NoNewline
  <2> QED
    BY <1>1, <1>5, <2>4, <2>5, <2>6, <2>7
<1> QED
  BY <1>4, <1>5

\* Two sequences of one element make a pair.
LEMMA OneAndOne ==
  ASSUME NEW S, NEW x \in S, NEW y \in S
  PROVE  <<x>> \o <<y>> = <<x, y>>
<1>1. PICK a \in Seq(S), b \in Seq(S), p \in Seq(S) : a = <<x>> /\ b = <<y>> /\ p = <<x, y>>
  <2>1. <<x>> \in Seq(S) /\ <<y>> \in Seq(S) /\ <<x, y>> \in Seq(S)
    OBVIOUS
  <2> QED
    BY <2>1
<1>2. Len(a) = 1 /\ Len(b) = 1 /\ Len(p) = 2 /\ a[1] = x /\ b[1] = y /\ p[1] = x /\ p[2] = y
  BY <1>1
<1>3. PICK c \in Seq(S) : c = a \o b
  BY ConcatProperties
<1>4. Len(c) = 2 /\ \A i \in 1..2 : c[i] = IF i <= 1 THEN a[i] ELSE b[i - 1]
  BY <1>2, <1>3, ConcatProperties
<1>5. \A i \in 1..Len(c) : c[i] = p[i]
  <2> TAKE i \in 1..Len(c)
  <2>1. i = 1 \/ i = 2
    BY <1>4
  <2>2. c[1] = x /\ c[2] = y
    <3>1. 1 \in 1..2 /\ 2 \in 1..2 /\ 1 <= 1 /\ ~(2 <= 1) /\ 2 - 1 = 1
      OBVIOUS
    <3> QED
      BY <1>2, <1>4, <3>1
  <2> QED
    BY <1>2, <2>1, <2>2
<1>6. c = p
  BY <1>2, <1>4, <1>5, SeqEqual
<1> QED
  BY <1>1, <1>3, <1>6

\* The lines of a command that is sent with a newline, and what is parsed from them.
LEMMA CommandLines ==
  ASSUME NEW cmd \in Command
  PROVE  LET c == Cut(Encode(cmd) \o <<NL>>)
         IN  ParseAll(c.lines) = Pieces(cmd) /\ c.rest = <<>>
<1>1. PICK v, e, t, m :
        v = Varint(cmd.id) /\ e = Encode(cmd) /\ t = <<18, m>> /\ m = cmd.method
  OBVIOUS
<1>2. /\ m \in Methods /\ <<8>> \in Seq(Symbols) /\ t \in Seq(Symbols)
      /\ v \in Seq(Symbols) /\ e \in Seq(Symbols) /\ Len(v) \in {1, 2} /\ Len(e) = Len(v) + 3
      /\ e[1] = 8 /\ \A j \in 1..Len(v) : e[1 + j] = v[j]
      /\ e[Len(v) + 2] = 18 /\ e[Len(v) + 3] = m
      /\ e = (<<8>> \o v) \o t
  BY <1>1, EncodeFacts
<1>3. 8 # NL /\ 18 # NL /\ m # NL /\ <<NL>> \in Seq(Symbols)
  <2>1. NL \in Symbols
    BY DEF NL, Symbols
  <2>2. m > 255 /\ m \in Nat
    BY <1>2, SymbolAssumption
  <2> QED
    BY <2>1, <2>2 DEF NL
<1>4. CASE ~Has(cmd, NL)
  <2>1. \A j \in 1..Len(v) : v[j] # NL
    BY <1>1, <1>4, NewlineInId
  <2>2. NoNewline(e)
    <3>1. SUFFICES ASSUME NEW i \in 1..Len(e) PROVE e[i] # NL
      BY DEF NoNewline
    <3>2. Len(v) \in {1, 2} /\ Len(e) = Len(v) + 3
      BY <1>2
    <3>3. i = 1 \/ (\E j \in 1..Len(v) : i = 1 + j) \/ i = Len(v) + 2 \/ i = Len(v) + 3
      <4>1. i \in Nat /\ i >= 1 /\ i <= Len(v) + 3
        BY <3>2
      <4>2. CASE i >= 2 /\ i <= Len(v) + 1
        <5>1. i - 1 \in 1..Len(v) /\ i = 1 + (i - 1)
          BY <3>2, <4>1, <4>2
        <5> QED
          BY <5>1
      <4>3. CASE ~(i >= 2 /\ i <= Len(v) + 1)
        BY <3>2, <4>1, <4>3
      <4> QED
        BY <4>2, <4>3
    <3> QED
      BY <1>2, <1>3, <2>1, <3>3
  <2>3. Cut(e \o <<NL>>) = [lines |-> <<e>>, rest |-> <<>>]
    BY <1>2, <1>3, <2>2, CutLastLine
  <2>4. ParseAll(<<e>>) = <<cmd>>
    <3>1. Parse(e) = cmd
      BY <1>1, ParseEncode
    <3> QED
      BY <1>2, <3>1, ParseOne
  <2> QED
    BY <1>1, <1>4, <2>3, <2>4 DEF Pieces
<1>5. CASE Has(cmd, NL)
  <2>1. PICK f : f = SubSeq(v, 1, Len(v) - 1)
    OBVIOUS
  <2>2. f \in Seq(Symbols) /\ NoNewline(f) /\ v = f \o <<NL>>
    BY <1>1, <1>5, <2>1, NewlineInId
  <2>3. PICK l \in Seq(Symbols) : l = <<8>> \o f
    BY <1>2, <2>2, ConcatProperties
  <2>4. NoNewline(l)
    <3>1. /\ Len(l) = 1 + Len(f) /\ <<8>>[1] = 8 /\ Len(f) \in Nat
          /\ \A i \in 1..(1 + Len(f)) : l[i] = IF i <= 1 THEN <<8>>[i] ELSE f[i - 1]
      <4>1. Len(<<8>>) = 1 /\ <<8>>[1] = 8
        OBVIOUS
      <4> QED
        BY <1>2, <2>2, <2>3, <4>1, ConcatProperties, LenProperties
    <3>2. SUFFICES ASSUME NEW i \in 1..Len(l) PROVE l[i] # NL
      BY DEF NoNewline
    <3>3. CASE i = 1
      BY <1>3, <3>1, <3>3
    <3>4. CASE i # 1
      <4>1. i - 1 \in 1..Len(f) /\ ~(i <= 1) /\ i \in 1..(1 + Len(f))
        BY <3>1, <3>4
      <4> QED
        BY <2>2, <3>1, <4>1 DEF NoNewline
    <3> QED
      BY <3>3, <3>4
  <2>5. NoNewline(t) /\ Len(t) = 2 /\ t[1] = 18 /\ t[2] = m
    BY <1>1, <1>3 DEF NoNewline
  <2>6. PICK tn \in Seq(Symbols) : tn = t \o <<NL>>
    BY <1>2, <1>3, ConcatProperties
  <2>7. e \o <<NL>> = (l \o <<NL>>) \o tn
    <3>2. PICK nl \in Seq(Symbols), eight \in Seq(Symbols) : nl = <<NL>> /\ eight = <<8>>
      BY <1>2, <1>3
    <3>3. eight \o v = l \o nl
      <4>1. v = f \o nl /\ l = eight \o f
        BY <2>2, <2>3, <3>2
      <4>2. (eight \o f) \o nl = eight \o (f \o nl)
        BY <2>2, ConcatAssociative, SMTT(60)
      <4> QED
        BY <4>1, <4>2
    <3>4. PICK ln \in Seq(Symbols) : ln = l \o nl
      BY ConcatProperties
    <3>5. e = ln \o t
      BY <1>2, <3>2, <3>3, <3>4
    <3>6. (ln \o t) \o nl = ln \o (t \o nl)
      <4>1. t \in Seq(Symbols)
        BY <1>2
      <4>2. \A T : ln \in Seq(T) /\ t \in Seq(T) /\ nl \in Seq(T) =>
              (ln \o t) \o nl = ln \o (t \o nl)
        BY Associates, SMTT(60)
      <4> QED
        BY <4>1, <4>2, Zenon
    <3>7. e \o nl = (l \o nl) \o tn
      BY <2>6, <3>2, <3>4, <3>5, <3>6
    <3> QED
      BY <3>2, <3>7
  <2>8. Cut(tn) = [lines |-> <<t>>, rest |-> <<>>]
    BY <1>2, <1>3, <2>5, <2>6, CutLastLine
  <2>9. Cut((l \o <<NL>>) \o tn) = [lines |-> <<l>> \o <<t>>, rest |-> <<>>]
    <3>1. Cut((l \o <<NL>>) \o tn) = [lines |-> <<l>> \o Cut(tn).lines, rest |-> Cut(tn).rest]
      BY <1>3, <2>4, CutLine
    <3> QED
      BY <2>8, <3>1
  <2>10. ParseAll(<<l>> \o <<t>>) = <<Parse(l)>> \o <<Parse(t)>>
    <3>1. \A T : \A x \in T : <<x>> \in Seq(T)
      OBVIOUS
    <3>2. <<l>> \in Seq(Seq(Symbols)) /\ <<t>> \in Seq(Seq(Symbols))
      BY <1>2, <3>1
    <3>3. ParseAll(<<l>> \o <<t>>) = ParseAll(<<l>>) \o ParseAll(<<t>>)
      BY <3>2, ParseAllConcat
    <3> QED
      BY <1>2, <3>3, ParseOne
  <2>11. Parse(t) = [id |-> Unset, method |-> m]
    <3>1. \A i \in Nat : i >= 1 /\ i + 1 = Len(t) /\ t[i] = 18 /\ t[i + 1] \in Methods =>
            ParseFrom(t)[i] = [id |-> Unset, method |-> t[i + 1]]
      BY <1>2, ParseEnds
    <3>2. 1 \in Nat /\ 1 >= 1 /\ 1 + 1 = 2
      OBVIOUS
    <3>3. ParseFrom(t)[1] = [id |-> Unset, method |-> m]
      BY <1>2, <2>5, <3>1, <3>2
    <3> QED
      BY <3>3, ParseIsParseFrom
  <2>12. Pieces(cmd) = <<Parse(l), Parse(t)>>
    <3>1. l = <<8>> \o SubSeq(Varint(cmd.id), 1, Len(Varint(cmd.id)) - 1)
      BY <1>1, <2>1, <2>3
    <3>2. Pieces(cmd) = <<Parse(l), [id |-> Unset, method |-> cmd.method]>>
      BY <1>5, <3>1 DEF Pieces
    <3> QED
      BY <1>1, <2>11, <3>2
  <2>13. <<Parse(l)>> \o <<Parse(t)>> = <<Parse(l), Parse(t)>>
    <3>1. \A S : \A x, y \in S : <<x>> \o <<y>> = <<x, y>>
      BY OneAndOne
    <3>2. Parse(l) \in {Parse(l), Parse(t)} /\ Parse(t) \in {Parse(l), Parse(t)}
      OBVIOUS
    <3> QED
      BY <3>1, <3>2
  <2>14. Cut(Encode(cmd) \o <<NL>>) = [lines |-> <<l>> \o <<t>>, rest |-> <<>>]
    BY <1>1, <2>7, <2>9
  <2>15. ParseAll(<<l>> \o <<t>>) = Pieces(cmd)
    BY <2>10, <2>12, <2>13
  <2>16. PICK c : c = Cut(Encode(cmd) \o <<NL>>)
    OBVIOUS
  <2>17. c.lines = <<l>> \o <<t>> /\ c.rest = <<>>
    BY <2>14, <2>16
  <2>18. ParseAll(c.lines) = Pieces(cmd) /\ c.rest = <<>>
    BY <2>15, <2>17
  <2> QED
    BY <2>16, <2>18
<1> QED
  BY <1>4, <1>5

(***************************************************************************)
(* What a sequence of commands makes due.                                  *)
(***************************************************************************)
LEMMA FlattenFacts ==
  ASSUME NEW E, NEW seqs \in Seq(Seq(E)), NEW s \in Seq(E)
  PROVE  /\ FlattenSeq(seqs) \in Seq(E)
         /\ FlattenSeq(Append(seqs, s)) = FlattenSeq(seqs) \o s
<1>1. \A q : FlattenSeq(q) =
        IF Len(q) = 0 THEN q
        ELSE (CHOOSE f : f = [i \in 1..Len(q) |-> IF i = 1 THEN q[i] ELSE f[i-1] \o q[i]])[Len(q)]
  BY Zenon DEF FlattenSeq
<1>2. \A q : Len(q) \in Nat => \E f : /\ Joined(f, q)
                                     /\ FlattenSeq(q) = IF Len(q) = 0 THEN q ELSE f[Len(q)]
  <2> TAKE q
  <2> HAVE Len(q) \in Nat
  <2> DEFINE g == CHOOSE f : f = [i \in 1..Len(q) |-> IF i = 1 THEN q[i] ELSE f[i-1] \o q[i]]
  <2>1. FlattenSeq(q) = IF Len(q) = 0 THEN q ELSE g[Len(q)]
    BY <1>1
  <2>2. Joined(g, q)
    <3>1. \E f : Joined(f, q)
      BY JoinedExists
    <3> QED
      BY <3>1, Zenon DEF Joined
  <2> HIDE DEF g
  <2> QED
    BY <2>1, <2>2
<1>3. PICK more \in Seq(Seq(E)) : more = Append(seqs, s)
  BY AppendProperties
<1>4. Len(seqs) \in Nat /\ Len(more) = Len(seqs) + 1 /\ more[Len(seqs) + 1] = s
  BY <1>3, AppendProperties, LenProperties
<1>5. PICK g : Joined(g, seqs) /\ FlattenSeq(seqs) = IF Len(seqs) = 0 THEN seqs ELSE g[Len(seqs)]
  BY <1>2, <1>4
<1>6. PICK h : Joined(h, more) /\ FlattenSeq(more) = h[Len(seqs) + 1]
  BY <1>2, <1>4, SMTT(60)
<1>7. h[Len(seqs) + 1] = IF Len(seqs) = 0 THEN s ELSE g[Len(seqs)] \o s
  <2>1. \A m, f, k : m = Append(seqs, s) /\ Joined(f, seqs) /\ Joined(k, m) =>
          k[Len(seqs) + 1] = IF Len(seqs) = 0 THEN s ELSE f[Len(seqs)] \o s
    BY JoinedAppend
  <2>2. more = Append(seqs, s) /\ Joined(g, seqs) /\ Joined(h, more)
    BY <1>3, <1>5, <1>6
  <2> QED
    BY <2>1, <2>2, Zenon
<1>8. CASE Len(seqs) = 0
  <2>1. FlattenSeq(seqs) = <<>>
    BY <1>5, <1>8
  <2>2. <<>> \in Seq(E) /\ <<>> \o s = s
    BY EmptySeq, ConcatEmptySeq
  <2> QED
    BY <1>3, <1>6, <1>7, <1>8, <2>1, <2>2
<1>9. CASE Len(seqs) # 0
  <2>1. Len(seqs) \in 1..Len(seqs)
    BY <1>4, <1>9
  <2>2. g[Len(seqs)] \in Seq(E)
    BY <1>5, <2>1, JoinedType
  <2> QED
    BY <1>3, <1>5, <1>6, <1>7, <1>9, <2>2
<1> QED
  BY <1>8, <1>9

\* What is parsed from the lines of one command.
LEMMA PiecesType ==
  ASSUME NEW cmd \in Command
  PROVE  Pieces(cmd) \in Seq(Parsed) /\ Encode(cmd) \in Seq(Symbols) /\ <<NL>> \in Seq(Symbols)
<1>1. Encode(cmd) \in Seq(Symbols)
  BY EncodeFacts
<1>2. <<NL>> \in Seq(Symbols)
  <2>1. NL \in Symbols
    BY DEF NL, Symbols
  <2> QED
    BY <2>1
<1>3. PICK b \in Seq(Symbols) : b = Encode(cmd) \o <<NL>>
  BY <1>1, <1>2, ConcatProperties
<1>4. Cut(b).lines \in Seq(Seq(Symbols))
  BY CutEquations DEF Cuts
<1>5. ParseAll(Cut(b).lines) \in Seq(Parsed)
  BY <1>4, ParseAllFacts
<1>6. Pieces(cmd) = ParseAll(Cut(b).lines)
  BY <1>3, CommandLines
<1> QED
  BY <1>1, <1>2, <1>5, <1>6

Due(cmds) == FlattenSeq([i \in DOMAIN cmds |-> Pieces(cmds[i])])

LEMMA DueFacts ==
  ASSUME NEW cmds \in Seq(Command), NEW cmd \in Command
  PROVE  /\ Due(<<>>) = <<>> /\ Due(cmds) \in Seq(Parsed)
         /\ Due(Append(cmds, cmd)) = Due(cmds) \o Pieces(cmd)
<1>1. PICK d : d = [i \in DOMAIN cmds |-> Pieces(cmds[i])]
  OBVIOUS
<1>2. PICK more \in Seq(Command) : more = Append(cmds, cmd)
  BY AppendProperties
<1>3. /\ Len(cmds) \in Nat /\ DOMAIN cmds = 1..Len(cmds)
      /\ Len(more) = Len(cmds) + 1 /\ DOMAIN more = 1..(Len(cmds) + 1)
      /\ more[Len(cmds) + 1] = cmd /\ \A i \in 1..Len(cmds) : more[i] = cmds[i] /\ cmds[i] \in Command
  BY <1>2, AppendProperties, LenProperties, ElementOfSeq
<1>4. Pieces(cmd) \in Seq(Parsed) /\ \A i \in 1..Len(cmds) : Pieces(cmds[i]) \in Seq(Parsed)
  BY <1>3, PiecesType
<1>5. d \in Seq(Seq(Parsed)) /\ Len(d) = Len(cmds) /\ \A i \in 1..Len(cmds) : d[i] = Pieces(cmds[i])
  BY <1>1, <1>3, <1>4
<1>6. [i \in DOMAIN more |-> Pieces(more[i])] = Append(d, Pieces(cmd))
  <2>1. PICK e : e = [i \in DOMAIN more |-> Pieces(more[i])]
    OBVIOUS
  <2>2. PICK a \in Seq(Seq(Parsed)) : a = Append(d, Pieces(cmd))
    BY <1>4, <1>5, AppendProperties
  <2>3. Len(a) = Len(cmds) + 1 /\ a[Len(cmds) + 1] = Pieces(cmd) /\ \A i \in 1..Len(cmds) : a[i] = d[i]
    BY <1>4, <1>5, <2>2, AppendProperties
  <2>4. \A i \in 1..(Len(cmds) + 1) : i \in 1..Len(cmds) \/ i = Len(cmds) + 1
    BY <1>3
  <2>5. \A i \in 1..(Len(cmds) + 1) : e[i] = Pieces(more[i])
    BY <1>3, <2>1
  <2>6. \A i \in 1..(Len(cmds) + 1) : e[i] = a[i]
    BY <1>3, <1>5, <2>3, <2>4, <2>5
  <2>7. e = [i \in 1..(Len(cmds) + 1) |-> e[i]]
    BY <1>3, <2>1
  <2>8. a = [i \in 1..(Len(cmds) + 1) |-> a[i]]
    BY <2>2, <2>3, LenProperties
  <2>9. e = a
    BY <2>6, <2>7, <2>8
  <2> QED
    BY <2>1, <2>2, <2>9
<1>7. FlattenSeq(d) \in Seq(Parsed) /\ FlattenSeq(Append(d, Pieces(cmd))) = FlattenSeq(d) \o Pieces(cmd)
  BY <1>4, <1>5, FlattenFacts
<1>8. Due(<<>>) = <<>>
  <2>1. [i \in DOMAIN <<>> |-> Pieces(<<>>[i])] = <<>> /\ Len(<<>>) = 0
    OBVIOUS
  <2> QED
    BY <2>1 DEF Due, FlattenSeq
<1> QED
  BY <1>1, <1>2, <1>6, <1>7, <1>8 DEF Due

(***************************************************************************)
(* What append takes of the bytes that were read.                          *)
(***************************************************************************)
NoNul(s) == \A j \in 1..Len(s) : s[j] # NUL

LEMMA CStringFacts ==
  ASSUME NEW E, NEW r \in Seq(E)
  PROVE  /\ \E n \in 0..Len(r) : CString(r) = SubSeq(r, 1, n)
         /\ NoNul(r) => CString(r) = r
<1>1. PICK I : I = {i \in 1..Len(r) : r[i] = NUL}
  OBVIOUS
<1>2. Len(r) \in Nat
  BY LenProperties
<1>3. SelectInSeq(r, LAMBDA b : b = NUL) = IF I # {} THEN Min(I) ELSE 0
  BY <1>1 DEF SelectInSeq
<1>4. CASE I = {}
  <2>1. CString(r) = r
    BY <1>3, <1>4 DEF CString
  <2>2. SubSeq(r, 1, Len(r)) = r /\ Len(r) \in 0..Len(r)
    BY <1>2, SubSeqFull
  <2> QED
    BY <2>1, <2>2
<1>5. CASE I # {}
  <2>1. ~NoNul(r)
    BY <1>1, <1>5 DEF NoNul
  <2>2. PICK m \in I : \A n \in I : m <= n
    <3>1. I \subseteq Nat
      BY <1>1, <1>2
    <3> QED
      BY <1>5, <3>1, Least
  <2>3. Min(I) \in I
    BY <2>2 DEF Min
  <2>4. PICK q \in 1..Len(r) : q = Min(I)
    BY <1>1, <2>3
  <2>5. CString(r) = SubSeq(r, 1, q - 1) /\ q - 1 \in 0..Len(r)
    <3>1. q # 0 /\ q - 1 \in 0..Len(r)
      BY <1>2
    <3> QED
      BY <1>3, <1>5, <2>4, <3>1 DEF CString
  <2> QED
    BY <2>1, <2>5
<1> QED
  BY <1>4, <1>5

\* A command whose id has no zero byte has none.
LEMMA CommandHasNoNul ==
  ASSUME NEW cmd \in Command, ~Has(cmd, NUL)
  PROVE  NoNul(Encode(cmd) \o <<NL>>)
<1>1. PICK v, e, m :
        v = Varint(cmd.id) /\ e = Encode(cmd) /\ m = cmd.method
  OBVIOUS
<1>2. /\ m \in Methods /\ v \in Seq(Symbols) /\ e \in Seq(Symbols)
      /\ Len(v) \in {1, 2} /\ Len(e) = Len(v) + 3
      /\ e[1] = 8 /\ \A j \in 1..Len(v) : e[1 + j] = v[j]
      /\ e[Len(v) + 2] = 18 /\ e[Len(v) + 3] = m
  BY <1>1, EncodeFacts
<1>3. 8 # NUL /\ 18 # NUL /\ m # NUL /\ NL # NUL
  <2>1. m > 255 /\ m \in Nat
    BY <1>2, SymbolAssumption
  <2> QED
    BY <2>1 DEF NUL, NL
<1>4. \A j \in 1..Len(v) : v[j] # NUL
  <2>1. ToSet(v) = {v[i] : i \in DOMAIN v}
    BY DEF ToSet
  <2>2. DOMAIN v = 1..Len(v)
    BY <1>2, LenProperties
  <2>3. NUL \notin ToSet(v)
    BY <1>1 DEF Has
  <2> QED
    BY <2>1, <2>2, <2>3
<1>5. \A i \in 1..Len(e) : e[i] # NUL
  <2> TAKE i \in 1..Len(e)
  <2>1. i = 1 \/ (\E j \in 1..Len(v) : i = 1 + j) \/ i = Len(v) + 2 \/ i = Len(v) + 3
    <3>1. i \in Nat /\ i >= 1 /\ i <= Len(v) + 3 /\ Len(v) \in {1, 2}
      <4>1. Len(v) \in {1, 2} /\ Len(e) = Len(v) + 3
        BY <1>2
      <4> QED
        BY <4>1
    <3>2. CASE i >= 2 /\ i <= Len(v) + 1
      <4>1. i - 1 \in 1..Len(v) /\ i = 1 + (i - 1)
        BY <3>1, <3>2
      <4> QED
        BY <4>1
    <3>3. CASE ~(i >= 2 /\ i <= Len(v) + 1)
      BY <3>1, <3>3
    <3> QED
      BY <3>2, <3>3
  <2> QED
    BY <1>2, <1>3, <1>4, <2>1
<1>6. PICK n \in Seq(Symbols), b \in Seq(Symbols) : n = <<NL>> /\ b = e \o n
  BY <1>2, PiecesType, ConcatProperties
<1>7. /\ Len(n) = 1 /\ n[1] = NL /\ Len(b) = Len(e) + 1 /\ Len(e) \in Nat
      /\ \A i \in 1..(Len(e) + 1) : b[i] = IF i <= Len(e) THEN e[i] ELSE n[i - Len(e)]
  <2>1. Len(n) = 1 /\ n[1] = NL /\ Len(e) \in Nat
    BY <1>2, <1>6
  <2> QED
    BY <1>2, <1>6, <2>1, ConcatProperties
<1>8. NoNul(b)
  <2>1. SUFFICES ASSUME NEW i \in 1..(Len(e) + 1) PROVE b[i] # NUL
    BY <1>7 DEF NoNul
  <2>2. (i <= Len(e) /\ i \in 1..Len(e)) \/ (~(i <= Len(e)) /\ i - Len(e) = 1)
    BY <1>7
  <2> QED
    BY <1>3, <1>5, <1>7, <2>2
<1> QED
  BY <1>1, <1>6, <1>8

(***************************************************************************)
(* The replies.                                                            *)
(***************************************************************************)
LEMMA AnswerType ==
  ASSUME NEW r \in Response, NEW cmd \in Parsed
  PROVE  Answer(r, cmd) \in Response
<1>1. /\ r.id \in 0..(128 * 128 - 1) \cup {Unset} /\ r.success \in {Unset, 0, 1}
      /\ r.status \in {Unset, 0} /\ r.contact_radius \in BOOLEAN
      /\ r = [id |-> r.id, success |-> r.success, status |-> r.status, contact_radius |-> r.contact_radius]
  BY DEF Response
<1>2. PICK id : id = IF cmd.id = Unset THEN 0 ELSE cmd.id
  OBVIOUS
<1>3. id \in 0..(128 * 128 - 1) \cup {Unset}
  <2>1. cmd.id \in 0..(128 * 128 - 1) \cup {Unset}
    BY DEF Parsed
  <2>2. 0 \in 0..(128 * 128 - 1)
    <3>1. 128 * 128 - 1 = 16383
      OBVIOUS
    <3>2. 0 \in 0..16383
      OBVIOUS
    <3> QED
      BY <3>1, <3>2
  <2>3. CASE cmd.id = Unset
    BY <1>2, <2>2, <2>3
  <2>4. CASE cmd.id # Unset
    BY <1>2, <2>1, <2>4
  <2> QED
    BY <2>3, <2>4
<1>4. /\ [r EXCEPT !.id = id, !.status = 0] \in Response
      /\ [r EXCEPT !.id = id, !.success = 0] \in Response
      /\ [r EXCEPT !.id = id, !.contact_radius = TRUE] \in Response
      /\ [r EXCEPT !.id = id, !.success = 1] \in Response
  BY <1>1, <1>3, ZenonT(60) DEF Response
<1>5. \/ Answer(r, cmd) = r
      \/ Answer(r, cmd) = [r EXCEPT !.id = id, !.status = 0]
      \/ Answer(r, cmd) = [r EXCEPT !.id = id, !.success = 0]
      \/ Answer(r, cmd) = [r EXCEPT !.id = id, !.contact_radius = TRUE]
      \/ Answer(r, cmd) = [r EXCEPT !.id = id, !.success = 1]
  BY <1>2 DEF Answer
<1> QED
  BY <1>4, <1>5

LEMMA FieldType ==
  ASSUME NEW tag \in 0..255, NEW v \in {Unset, 0, 1}
  PROVE  Field(tag, v) \in Seq(Symbols) /\ Len(Field(tag, v)) \in {0, 2}
<1>1. CASE v = Unset
  BY <1>1 DEF Field
<1>2. CASE v # Unset
  <2>1. tag \in Symbols /\ v \in Symbols
    BY <1>2 DEF Symbols
  <2>2. <<tag, v>> \in Seq(Symbols) /\ Len(<<tag, v>>) = 2
    BY <2>1
  <2> QED
    BY <1>2, <2>2 DEF Field
<1> QED
  BY <1>1, <1>2

LEMMA SerialiseType ==
  ASSUME NEW r \in Response
  PROVE  Serialise(r) \in Seq(Symbols)
<1>1. PICK a, b, flags, values : a = Field(8, r.success) /\ b = Field(16, r.status) /\ flags = a \o b
                                /\ values = Values(r)
  OBVIOUS
<1>2. /\ a \in Seq(Symbols) /\ Len(a) \in {0, 2} /\ b \in Seq(Symbols) /\ Len(b) \in {0, 2}
  <2>1. r.success \in {Unset, 0, 1} /\ r.status \in {Unset, 0, 1}
    BY DEF Response
  <2>2. 8 \in 0..255 /\ 16 \in 0..255
    OBVIOUS
  <2> QED
    BY <1>1, <2>1, <2>2, FieldType
<1>3. flags \in Seq(Symbols) /\ Len(flags) = Len(a) + Len(b)
  BY <1>1, <1>2, ConcatProperties
<1>4. PICK size : size = Len(flags) + (IF r.contact_radius THEN 9 ELSE 0)
  OBVIOUS
<1>5. size \in 0..255
  <2>1. \A m, n \in {0, 2} : m + n \in 0..4
    OBVIOUS
  <2>2. PICK len \in 0..4 : len = Len(flags)
    BY <1>2, <1>3, <2>1
  <2>3. size = len + 9 \/ size = len + 0
    BY <1>4, <2>2
  <2>4. len + 9 \in 0..255 /\ len + 0 \in 0..255
    OBVIOUS
  <2> QED
    BY <2>3, <2>4
<1>6. values \in Seq(Symbols)
  <2>1. 25 \in Symbols /\ DOUBLE \in Symbols
    BY DEF Symbols
  <2>2. <<25, DOUBLE>> \in Seq(Symbols) /\ <<>> \in Seq(Symbols)
    BY <2>1
  <2> QED
    BY <1>1, <2>2 DEF Values
<1>7. CASE r.id = Unset
  <2>1. Serialise(r) = <<>>
    BY <1>7 DEF Serialise
  <2> QED
    BY <2>1
<1>8. CASE r.id # Unset
  <2>1. r.id \in 0..(128 * 128 - 1)
    BY <1>8 DEF Response
  <2>2. PICK v \in Seq(Symbols) : v = Varint(r.id)
    BY <2>1, VarintFacts
  <2>3. PICK t \in Seq(Symbols), e \in Seq(Symbols) : t = <<8>> /\ e = <<18, size>>
    <3>1. 8 \in Symbols /\ 18 \in Symbols /\ size \in Symbols
      BY <1>5 DEF Symbols
    <3>2. <<8>> \in Seq(Symbols) /\ <<18, size>> \in Seq(Symbols)
      BY <3>1
    <3> QED
      BY <3>2
  <2>4. Serialise(r) = t \o v \o e \o flags \o values
    BY <1>1, <1>4, <1>8, <2>2, <2>3 DEF Serialise
  <2>5. PICK x \in Seq(Symbols) : x = t \o v
    BY ConcatProperties
  <2>6. PICK y \in Seq(Symbols) : y = x \o e
    BY ConcatProperties
  <2>7. PICK z \in Seq(Symbols) : z = y \o flags
    BY <1>3, ConcatProperties
  <2>8. z \o values \in Seq(Symbols)
    BY <1>6, ConcatProperties
  <2> QED
    BY <2>4, <2>5, <2>6, <2>7, <2>8
<1> QED
  BY <1>7, <1>8

(***************************************************************************)
(* The parts of the steps.                                                 *)
(***************************************************************************)
LEMMA ReceiveParts ==
  ASSUME NEW buf \in Seq(Symbols), NEW up \in Seq(Symbols), NEW k \in 1..Len(up)
  PROVE  LET a == SubSeq(up, 1, k)
             b == SubSeq(up, k + 1, Len(up))
             cut == Cut(buf \o CString(a))
         IN  /\ a \in Seq(Symbols) /\ b \in Seq(Symbols) /\ up = a \o b
             /\ CString(a) \in Seq(Symbols) /\ buf \o CString(a) \in Seq(Symbols)
             /\ cut.lines \in Seq(Seq(Symbols)) /\ cut.rest \in Seq(Symbols) /\ NoNewline(cut.rest)
<1>1. PICK a, b : a = SubSeq(up, 1, k) /\ b = SubSeq(up, k + 1, Len(up))
  OBVIOUS
<1>2. Len(up) \in Nat /\ k \in Nat /\ k >= 1 /\ k <= Len(up) /\ \A i \in 1..Len(up) : up[i] \in Symbols
  BY LenProperties, ElementOfSeq
<1>3. a \in Seq(Symbols)
  <2>1. \A i \in 1..k : up[i] \in Symbols
    BY <1>2
  <2> QED
    BY <1>1, <1>2, <2>1, SubSeqProperties
<1>4. b \in Seq(Symbols)
  <2>1. k + 1 \in Int /\ \A i \in (k + 1)..Len(up) : up[i] \in Symbols
    BY <1>2
  <2> QED
    BY <1>1, <1>2, <2>1, SubSeqProperties
<1>5. up = a \o b
  <2>1. 1 \in 1..Len(up) + 1 /\ k \in 1 - 1..Len(up) /\ Len(up) \in k..Len(up)
    BY <1>2
  <2>2. SubSeq(up, 1, k) \o SubSeq(up, k + 1, Len(up)) = SubSeq(up, 1, Len(up))
    BY <2>1, ConcatAdjacentSubSeq
  <2> QED
    BY <1>1, <2>2, SubSeqFull
<1>6. PICK c \in Seq(Symbols) : c = CString(a)
  <2>1. PICK n \in 0..Len(a) : CString(a) = SubSeq(a, 1, n)
    BY <1>3, CStringFacts
  <2>2. \A i \in 1..n : a[i] \in Symbols
    <3>1. Len(a) \in Nat
      BY <1>3, LenProperties
    <3> QED
      BY <1>3, <3>1, ElementOfSeq
  <2>3. SubSeq(a, 1, n) \in Seq(Symbols)
    BY <2>2, SubSeqProperties
  <2> QED
    BY <2>1, <2>3
<1>7. PICK x \in Seq(Symbols) : x = buf \o c
  BY ConcatProperties
<1>8. Cut(x) \in Cuts(Symbols)
  BY CutEquations
<1>9. Cut(x).lines \in Seq(Seq(Symbols)) /\ Cut(x).rest \in Seq(Symbols) /\ NoNewline(Cut(x).rest)
  BY <1>8 DEF Cuts
<1> QED
  BY <1>1, <1>3, <1>4, <1>5, <1>6, <1>7, <1>9

LEMMA PartType ==
  ASSUME NEW E, NEW s \in Seq(E), NEW a \in Nat, a > 0, NEW b \in 0..Len(s)
  PROVE  SubSeq(s, a, b) \in Seq(E)
<1>1. Len(s) \in Nat /\ \A i \in a..b : s[i] \in E
  <2>1. Len(s) \in Nat
    BY LenProperties
  <2>2. \A i \in a..b : i \in 1..Len(s)
    BY <2>1
  <2> QED
    BY <2>1, <2>2, ElementOfSeq
<1> QED
  BY <1>1, SubSeqProperties

\* A call of readLine leaves bytes in the stream and in the line.
LEMMA ReadLineType ==
  ASSUME stream \in Seq(Symbols), Reader!ReadLine
  PROVE  stream' \in Seq(Symbols) /\ line' \in [ok : BOOLEAN, text : Seq(Symbols)]
<1>1. Len(stream) \in Nat /\ BufferLength \in Nat /\ BufferLength >= 1
  BY BufferAssumption, LenProperties
<1>2. \A a \in Nat : \A b \in 0..Len(stream) : a > 0 => SubSeq(stream, a, b) \in Seq(Symbols)
  BY PartType
<1>3. \A n \in 0..Len(stream) : SubSeq(stream, n + 1, Len(stream)) \in Seq(Symbols)
  BY <1>1, <1>2
<1>4. \A text \in Seq(Symbols) : [ok |-> TRUE, text |-> text] \in [ok : BOOLEAN, text : Seq(Symbols)]
  OBVIOUS
<1>5. CASE Reader!TakeLine
  <2>1. PICK n \in 1..Len(stream) :
          /\ stream' = SubSeq(stream, n + 1, Len(stream))
          /\ line' = [ok |-> TRUE, text |-> SubSeq(stream, 1, n - 1)]
    BY <1>5 DEF Reader!TakeLine, Reader!Take
  <2>2. n \in 0..Len(stream) /\ n - 1 \in 0..Len(stream) /\ 1 \in Nat /\ 1 > 0
    BY <1>1
  <2>3. SubSeq(stream, 1, n - 1) \in Seq(Symbols)
    BY <1>2, <2>2
  <2> QED
    BY <1>3, <1>4, <2>1, <2>2, <2>3
<1>6. CASE Reader!FillBuffer
  <2>1. PICK ok \in BOOLEAN :
          /\ stream' = SubSeq(stream, BufferLength + 1, Len(stream)) /\ BufferLength <= Len(stream)
          /\ line' = [ok |-> ok, text |-> SubSeq(stream, 1, BufferLength)]
    BY <1>6 DEF Reader!FillBuffer, Reader!Take
  <2>2. BufferLength \in 0..Len(stream) /\ 1 \in Nat /\ 1 > 0
    BY <1>1, <2>1
  <2>3. SubSeq(stream, 1, BufferLength) \in Seq(Symbols)
    BY <1>2, <2>2
  <2> QED
    BY <1>3, <1>4, <2>1, <2>2, <2>3
<1>7. CASE Reader!TakeNothing
  <2>1. stream' = SubSeq(stream, 0 + 1, Len(stream)) /\ line' = [ok |-> TRUE, text |-> <<>>]
    BY <1>7 DEF Reader!TakeNothing, Reader!Take
  <2>2. 0 \in 0..Len(stream) /\ <<>> \in Seq(Symbols)
    BY <1>1
  <2> QED
    BY <1>3, <1>4, <2>1, <2>2
<1>8. CASE Reader!GiveUp
  <2>1. stream' = SubSeq(stream, Len(stream) + 1, Len(stream)) /\ line' = [ok |-> FALSE, text |-> <<>>]
    BY <1>8 DEF Reader!GiveUp, Reader!Take, Reader!NoLine
  <2>2. Len(stream) \in 0..Len(stream) /\ <<>> \in Seq(Symbols)
    BY <1>1
  <2> QED
    BY <1>3, <2>1, <2>2
<1> QED
  BY <1>5, <1>6, <1>7, <1>8 DEF Reader!ReadLine

\* Behind the first n of what was taken is what waits in the FIFO; when the first that
\* waits is handled, it is what is behind one more.
LEMMA WaitingBehind ==
  ASSUME NEW t \in Seq(Parsed), NEW n \in 0..Len(t), NEW fifo, fifo = SubSeq(t, n + 1, Len(t))
  PROVE  /\ fifo \in Seq(Parsed)
         /\ fifo # <<>> => n + 1 \in 0..Len(t) /\ Tail(fifo) = SubSeq(t, (n + 1) + 1, Len(t))
<1>1. Len(t) \in Nat /\ Len(t) \in 0..Len(t) /\ n + 1 \in Nat /\ n + 1 > 0
  BY LenProperties
<1>2. fifo \in Seq(Parsed)
  BY <1>1, PartType
<1>6. ASSUME fifo # <<>>
      PROVE  n + 1 \in 0..Len(t) /\ Tail(fifo) = SubSeq(t, (n + 1) + 1, Len(t))
  <2>1. n + 1 <= Len(t)
    <3>1. n + 1 > Len(t) => fifo = <<>>
      BY <1>1, SubSeqEmpty
    <3> QED
      BY <1>1, <1>6, <3>1
  <2>2. n + 1 \in 1..Len(t) /\ Len(t) \in (n + 1)..Len(t)
    BY <1>1, <2>1
  <2>3. Tail(fifo) = SubSeq(t, (n + 1) + 1, Len(t))
    BY <2>2, HeadTailOfSubSeq
  <2> QED
    BY <2>2, <2>3
<1> QED
  BY <1>2, <1>6

(***************************************************************************)
(* Type correctness.                                                       *)
(***************************************************************************)
LEMMA InitType ==
  ASSUME Init
  PROVE  TypeOK
<1>1. /\ cpc \in {"send", "read"}
      /\ server \in {"serving", "stopped", "dead"} /\ m_exit_on_quit \in BOOLEAN
      /\ todo \in Seq(Command) /\ sent \in Seq(Command) /\ eol \in Eols
  BY ScriptAssumption DEF Init
<1>2. upstream \in Seq(Symbols) /\ m_CmdBuffer \in Seq(Symbols) /\ stream \in Seq(Symbols)
  BY DEF Init
<1>3. line \in [ok : BOOLEAN, text : Seq(Symbols)]
  <2>1. line = [ok |-> FALSE, text |-> <<>>] /\ <<>> \in Seq(Symbols)
    BY EmptySeq DEF Init, Reader!NoLine
  <2> QED
    BY <2>1
<1>4. m_response \in Response
  BY DEF Init, NoResponse, Response
<1>5. taken \in Seq(Parsed) /\ \E n \in 0..Len(taken) : m_CmdFIFO = SubSeq(taken, n + 1, Len(taken))
  <2>1. taken = <<>> /\ m_CmdFIFO = <<>> /\ Len(<<>>) = 0 /\ <<>> \in Seq(Parsed)
    BY EmptySeq DEF Init
  <2>2. SubSeq(<<>>, 1, 0) = <<>>
    BY SubSeqEmpty
  <2>3. 0 \in 0..0 /\ 0 + 1 = 1
    OBVIOUS
  <2> QED
    BY <2>1, <2>2, <2>3
<1> QED
  BY <1>1, <1>2, <1>3, <1>4, <1>5 DEF TypeOK

LEMMA SymbolsAssociate ==
  \A u, v, w \in Seq(Symbols) : (u \o v) \o w = u \o (v \o w)
<1> TAKE u, v, w \in Seq(Symbols)
<1> QED
  BY ConcatAssociative

\* What a step of the client sends.
LEMMA SendParts ==
  ASSUME TypeOK, SendCommand
  PROVE  /\ todo \in Seq(Command) /\ Head(todo) \in Command /\ Tail(todo) \in Seq(Command)
         /\ Encode(Head(todo)) \in Seq(Symbols) /\ eol \in Seq(Symbols) /\ eol \in {<<>>, <<NL>>}
         /\ Encode(Head(todo)) \o eol \in Seq(Symbols)
         /\ upstream' = upstream \o (Encode(Head(todo)) \o eol)
         /\ sent' = Append(sent, Head(todo)) /\ sent' \in Seq(Command)
<1>1. PICK cmd \in Command : cmd = Head(todo) /\ Tail(todo) \in Seq(Command)
  BY HeadTailProperties DEF TypeOK, SendCommand
<1>2. PICK e \in Seq(Symbols) : e = Encode(cmd)
  BY PiecesType
<1>3. eol \in Seq(Symbols) /\ eol \in {<<>>, <<NL>>}
  <2>1. eol \in {<<>>, <<NL>>}
    BY ScriptAssumption DEF TypeOK
  <2>2. <<NL>> \in Seq(Symbols) /\ <<>> \in Seq(Symbols)
    BY PiecesType, EmptySeq
  <2> QED
    BY <2>1, <2>2
<1>4. e \o eol \in Seq(Symbols)
  BY <1>3, ConcatProperties
<1>5. upstream' = (upstream \o e) \o eol
  BY <1>1, <1>2 DEF SendCommand
<1>6. (upstream \o e) \o eol = upstream \o (e \o eol)
  <2>1. upstream \in Seq(Symbols)
    BY DEF TypeOK
  <2>2. e \in Seq(Symbols) /\ eol \in Seq(Symbols)
    BY <1>3, Zenon
  <2> QED
    BY <2>1, <2>2, SymbolsAssociate, ZenonT(60)
<1>7. sent' = Append(sent, cmd) /\ Append(sent, cmd) \in Seq(Command)
  BY <1>1, AppendProperties DEF TypeOK, SendCommand
<1> QED
  BY <1>1, <1>2, <1>3, <1>4, <1>5, <1>6, <1>7 DEF TypeOK

LEMMA NextType ==
  ASSUME TypeOK, [Next]_vars
  PROVE  TypeOK'
<1>1. CASE SendCommand
  <2>1. upstream' \in Seq(Symbols) /\ todo' \in Seq(Command) /\ sent' \in Seq(Command)
    <3>1. PICK e \in Seq(Symbols) : upstream' = upstream \o e
      BY <1>1, SendParts
    <3>2. upstream \o e \in Seq(Symbols)
      BY ConcatProperties DEF TypeOK
    <3> QED
      BY <1>1, <3>1, <3>2, SendParts DEF SendCommand
  <2>2. /\ cpc' \in {"send", "read"}
        /\ UNCHANGED <<eol, line, m_CmdBuffer, m_CmdFIFO, m_response, m_exit_on_quit, server,
                       stream, taken>>
    BY <1>1 DEF SendCommand, serverVars
  <2> QED
    BY <2>1, <2>2 DEF TypeOK
<1>2. CASE ReadLineFromSocket
  <2>1. stream' \in Seq(Symbols) /\ line' \in [ok : BOOLEAN, text : Seq(Symbols)]
    BY <1>2, ReadLineType DEF TypeOK, ReadLineFromSocket
  <2>2. /\ cpc' \in {"send", "read"}
        /\ UNCHANGED <<todo, eol, m_CmdBuffer, m_CmdFIFO, m_response, m_exit_on_quit, server,
                       upstream, sent, taken>>
    BY <1>2 DEF ReadLineFromSocket, serverVars
  <2> QED
    BY <2>1, <2>2 DEF TypeOK
<1>3. CASE Receive
  <2>1. PICK k, cut :
          /\ k \in 1..Len(upstream)
          /\ cut = Cut(m_CmdBuffer \o CString(SubSeq(upstream, 1, k)))
          /\ upstream' = SubSeq(upstream, k + 1, Len(upstream))
          /\ m_CmdBuffer' = cut.rest
          /\ m_CmdFIFO' = m_CmdFIFO \o ParseAll(cut.lines)
          /\ taken' = taken \o ParseAll(cut.lines)
    BY <1>3 DEF Receive
  <2>2. upstream' \in Seq(Symbols) /\ m_CmdBuffer' \in Seq(Symbols) /\ cut.lines \in Seq(Seq(Symbols))
    BY <2>1, ReceiveParts DEF TypeOK
  <2>3. PICK p \in Seq(Parsed) : p = ParseAll(cut.lines)
    BY <2>2, ParseAllFacts
  <2>4. taken \in Seq(Parsed)
    BY DEF TypeOK
  <2>5. taken' \in Seq(Parsed)
    BY <2>1, <2>3, <2>4, ConcatProperties
  <2>6. PICK n \in 0..Len(taken) : m_CmdFIFO = SubSeq(taken, n + 1, Len(taken))
    BY DEF TypeOK
  <2>7. n \in 0..Len(taken') /\ m_CmdFIFO' = SubSeq(taken', n + 1, Len(taken'))
    <3>1. PICK t \in Seq(Parsed) : t = taken
      BY <2>4
    <3>2. n \in 0..Len(t) /\ m_CmdFIFO = SubSeq(t, n + 1, Len(t))
      BY <2>6, <3>1
    <3>3. n \in 0..Len(t \o p) /\ m_CmdFIFO \o p = SubSeq(t \o p, n + 1, Len(t \o p))
      <4>1. Len(t) \in Nat /\ Len(p) \in Nat /\ Len(t \o p) = Len(t) + Len(p)
        BY ConcatProperties, LenProperties
      <4>2. n + 1 \in 1..(Len(t) + 1) /\ n \in 0..(Len(t) + Len(p))
        BY <3>2, <4>1
      <4>3. SubSeq(t \o p, n + 1, Len(t \o p)) = SubSeq(t, n + 1, Len(t)) \o p
        BY <4>2, RestOfConcat
      <4> QED
        BY <3>2, <4>1, <4>2, <4>3
    <3> QED
      BY <2>1, <2>3, <3>1, <3>3
  <2>8. UNCHANGED <<cpc, todo, eol, line, m_response, m_exit_on_quit, server, stream, sent>>
    BY <1>3 DEF Receive, clientVars
  <2> QED
    BY <2>2, <2>5, <2>7, <2>8 DEF TypeOK
<1>4. CASE ProcessCommands
  <2>1. /\ m_response' = Answer(m_response, Head(m_CmdFIFO)) /\ m_CmdFIFO' = Tail(m_CmdFIFO)
        /\ stream' = stream \o Serialise(m_response') /\ m_CmdFIFO # <<>>
        /\ server' \in {"serving", "stopped", "dead"}
        /\ UNCHANGED <<cpc, todo, eol, line, m_CmdBuffer, m_exit_on_quit, upstream, sent, taken>>
    BY <1>4 DEF ProcessCommands, clientVars
  <2>2. PICK n \in 0..Len(taken) : m_CmdFIFO = SubSeq(taken, n + 1, Len(taken))
    BY DEF TypeOK
  <2>3. taken \in Seq(Parsed) /\ <<>> \in Seq(Parsed)
    BY EmptySeq DEF TypeOK
  <2>4. /\ m_CmdFIFO \in Seq(Parsed)
        /\ n + 1 \in 0..Len(taken) /\ Tail(m_CmdFIFO) = SubSeq(taken, (n + 1) + 1, Len(taken))
    <3>1. \A t \in Seq(Parsed) : \A m \in 0..Len(t) : \A f :
            f = SubSeq(t, m + 1, Len(t)) =>
              /\ f \in Seq(Parsed)
              /\ f # <<>> => m + 1 \in 0..Len(t) /\ Tail(f) = SubSeq(t, (m + 1) + 1, Len(t))
      BY <2>3, WaitingBehind
    <3> QED
      BY <2>1, <2>2, <2>3, <3>1
  <2>5. m_response' \in Response
    <3>1. Head(m_CmdFIFO) \in Parsed
      BY <2>1, <2>4, HeadTailProperties
    <3>2. m_response \in Response
      BY DEF TypeOK
    <3> QED
      BY <2>1, <3>1, <3>2, AnswerType
  <2>6. stream' \in Seq(Symbols)
    <3>1. Serialise(m_response') \in Seq(Symbols)
      BY <2>5, SerialiseType
    <3> QED
      BY <2>1, <3>1, ConcatProperties DEF TypeOK
  <2>7. \E m \in 0..Len(taken') : m_CmdFIFO' = SubSeq(taken', m + 1, Len(taken'))
    BY <2>1, <2>4
  <2> QED
    BY <2>1, <2>5, <2>6, <2>7 DEF TypeOK
<1>5. CASE ProcessDies
  BY <1>5 DEF ProcessDies, TypeOK, clientVars
<1>6. CASE UNCHANGED vars
  BY <1>6 DEF vars, clientVars, serverVars, TypeOK
<1> QED
  BY <1>1, <1>2, <1>3, <1>4, <1>5, <1>6 DEF Next

\* The types of the variables: what waits in the FIFO is the end of what was taken
\* (recvCBRoutine and processCommands are its only writers), and every reply is bytes.
THEOREM TypeCorrectness == Spec => []TypeOK
<1>1. Init => TypeOK
  BY InitType
<1>2. TypeOK /\ [Next]_vars => TypeOK'
  BY NextType
<1> QED
  BY <1>1, <1>2, PTL DEF Spec

(***************************************************************************)
(* Commands that arrive.                                                   *)
(***************************************************************************)
LEMMA NoNulConcat ==
  ASSUME NEW a \in Seq(Symbols), NEW b \in Seq(Symbols)
  PROVE  NoNul(a \o b) <=> NoNul(a) /\ NoNul(b)
<1>1. PICK c \in Seq(Symbols) : c = a \o b
  BY ConcatProperties
<1>2. /\ Len(a) \in Nat /\ Len(b) \in Nat /\ Len(c) = Len(a) + Len(b)
      /\ \A i \in 1..(Len(a) + Len(b)) : c[i] = IF i <= Len(a) THEN a[i] ELSE b[i - Len(a)]
  BY <1>1, ConcatProperties, LenProperties
<1>3. \A i \in 1..Len(a) : i \in 1..(Len(a) + Len(b)) /\ i <= Len(a)
  BY <1>2
<1>4. \A i \in 1..Len(b) : /\ Len(a) + i \in 1..(Len(a) + Len(b)) /\ ~(Len(a) + i <= Len(a))
                           /\ (Len(a) + i) - Len(a) = i
  BY <1>2
<1>5. \A i \in 1..Len(a) : c[i] = a[i]
  BY <1>2, <1>3
<1>6. \A i \in 1..Len(b) : c[Len(a) + i] = b[i]
  BY <1>2, <1>4
<1>7. ASSUME NoNul(c) PROVE NoNul(a) /\ NoNul(b)
  BY <1>2, <1>3, <1>4, <1>5, <1>6, <1>7 DEF NoNul
<1>8. ASSUME NoNul(a), NoNul(b) PROVE NoNul(c)
  <2>1. SUFFICES ASSUME NEW i \in 1..(Len(a) + Len(b)) PROVE c[i] # NUL
    BY <1>2 DEF NoNul
  <2>2. CASE i <= Len(a)
    <3>1. i \in 1..Len(a)
      BY <1>2, <2>2
    <3> QED
      BY <1>5, <1>8, <3>1 DEF NoNul
  <2>3. CASE ~(i <= Len(a))
    <3>1. i - Len(a) \in 1..Len(b)
      BY <1>2, <2>3
    <3>2. c[i] = b[i - Len(a)]
      BY <1>2, <2>3
    <3> QED
      BY <1>8, <3>1, <3>2 DEF NoNul
  <2> QED
    BY <2>2, <2>3
<1> QED
  BY <1>1, <1>7, <1>8

\* Where no part of a line is left, a command adds its pieces.
LEMMA CommandBehind ==
  ASSUME NEW buf \in Seq(Symbols), NEW up \in Seq(Symbols), NEW cmd \in Command,
         Cut(buf \o up).rest = <<>>
  PROVE  LET more == Cut(buf \o (up \o (Encode(cmd) \o <<NL>>)))
         IN  /\ more.rest = <<>>
             /\ ParseAll(more.lines) = ParseAll(Cut(buf \o up).lines) \o Pieces(cmd)
<1>1. PICK x \in Seq(Symbols) : x = Encode(cmd) \o <<NL>>
  BY PiecesType, ConcatProperties
<1>2. PICK a \in Seq(Symbols) : a = buf \o up
  BY ConcatProperties
<1>3. buf \o (up \o x) = a \o x
  <2>1. \A T : buf \in Seq(T) /\ up \in Seq(T) /\ x \in Seq(T) => (buf \o up) \o x = buf \o (up \o x)
    BY Associates
  <2> QED
    BY <1>2, <2>1
<1>4. PICK ca, cx : ca = Cut(a) /\ cx = Cut(x)
  OBVIOUS
<1>5. Cut(a \o x) = [lines |-> ca.lines \o Cut(ca.rest \o x).lines, rest |-> Cut(ca.rest \o x).rest]
  BY <1>4, CutConcat
<1>6. ca.rest \o x = x
  <2>1. ca.rest = <<>>
    BY <1>2, <1>4
  <2> QED
    BY <2>1, ConcatEmptySeq
<1>7. Cut(a \o x) = [lines |-> ca.lines \o cx.lines, rest |-> cx.rest]
  BY <1>4, <1>5, <1>6
<1>8. ca.lines \in Seq(Seq(Symbols)) /\ cx.lines \in Seq(Seq(Symbols))
  BY <1>4, CutEquations DEF Cuts
<1>9. ParseAll(cx.lines) = Pieces(cmd) /\ cx.rest = <<>>
  BY <1>1, <1>4, CommandLines
<1>10. ParseAll(ca.lines \o cx.lines) = ParseAll(ca.lines) \o ParseAll(cx.lines)
  BY <1>8, ParseAllConcat
<1>11. PICK more : more = Cut(a \o x)
  OBVIOUS
<1>12. more.rest = <<>> /\ ParseAll(more.lines) = ParseAll(ca.lines) \o Pieces(cmd)
  BY <1>7, <1>9, <1>10, <1>11
<1> QED
  BY <1>1, <1>2, <1>3, <1>4, <1>11, <1>12

\* What is taken of the bytes now, and what is left for later.
LEMMA TakenInParts ==
  ASSUME NEW buf \in Seq(Symbols), NEW a \in Seq(Symbols), NEW b \in Seq(Symbols)
  PROVE  LET now   == Cut(buf \o a)
             later == Cut(now.rest \o b)
             all   == Cut(buf \o (a \o b))
         IN  /\ all.rest = later.rest
             /\ ParseAll(all.lines) = ParseAll(now.lines) \o ParseAll(later.lines)
             /\ ParseAll(now.lines) \in Seq(Parsed) /\ ParseAll(later.lines) \in Seq(Parsed)
<1>1. PICK x \in Seq(Symbols) : x = buf \o a
  BY ConcatProperties
<1>2. buf \o (a \o b) = x \o b
  <2>1. \A T : buf \in Seq(T) /\ a \in Seq(T) /\ b \in Seq(T) => (buf \o a) \o b = buf \o (a \o b)
    BY Associates
  <2> QED
    BY <1>1, <2>1
<1>3. PICK now \in Cuts(Symbols) : now = Cut(x)
  BY CutEquations
<1>4. now.rest \in Seq(Symbols) /\ now.lines \in Seq(Seq(Symbols))
  BY DEF Cuts
<1>5. PICK y \in Seq(Symbols) : y = now.rest \o b
  BY <1>4, ConcatProperties
<1>6. PICK later \in Cuts(Symbols) : later = Cut(y)
  BY CutEquations
<1>7. later.lines \in Seq(Seq(Symbols))
  BY DEF Cuts
<1>8. Cut(x \o b) = [lines |-> now.lines \o later.lines, rest |-> later.rest]
  BY <1>3, <1>5, <1>6, CutConcat
<1>9. ParseAll(now.lines \o later.lines) = ParseAll(now.lines) \o ParseAll(later.lines)
  BY <1>4, <1>7, ParseAllConcat
<1>10. ParseAll(now.lines) \in Seq(Parsed) /\ ParseAll(later.lines) \in Seq(Parsed)
  BY <1>4, <1>7, ParseAllFacts
<1>11. PICK all : all = Cut(x \o b)
  OBVIOUS
<1>12. all.rest = later.rest /\ ParseAll(all.lines) = ParseAll(now.lines) \o ParseAll(later.lines)
  BY <1>8, <1>9, <1>11
<1> QED
  BY <1>1, <1>2, <1>3, <1>5, <1>6, <1>10, <1>11, <1>12

NoNulIds(cmds) == \A i \in DOMAIN cmds : ~Has(cmds[i], NUL)

\* Between the steps, the buffer has no whole line, and what has been taken, with what
\* the bytes in the buffer and on the way hold, are the pieces of the commands sent.
ArriveInv ==
  /\ NoNewline(m_CmdBuffer)
  /\ eol = <<NL>> /\ NoNulIds(sent) =>
       /\ NoNul(upstream)
       /\ Due(sent) = taken \o ParseAll(Cut(m_CmdBuffer \o upstream).lines)
       /\ Cut(m_CmdBuffer \o upstream).rest = <<>>

LEMMA InitArrives ==
  ASSUME Init
  PROVE  ArriveInv
<1>1. PICK e \in Seq(Symbols) : e = <<>>
  BY EmptySeq
<1>2. Len(e) = 0 /\ NoNewline(e) /\ NoNul(e)
  BY <1>1 DEF NoNewline, NoNul
<1>3. e \o e = e
  BY <1>1, ConcatEmptySeq
<1>4. Cut(e) = [lines |-> <<>>, rest |-> e]
  BY <1>2, CutEquations
<1>5. Due(<<>>) = <<>>
  <2>1. [i \in DOMAIN <<>> |-> Pieces(<<>>[i])] = <<>> /\ Len(<<>>) = 0
    OBVIOUS
  <2> QED
    BY <2>1 DEF Due, FlattenSeq
<1>6. <<>> \o ParseAll(<<>>) = <<>>
  <2>1. ParseAll(<<>>) = <<>>
    BY DEF ParseAll
  <2>2. <<>> \in Seq(Parsed)
    BY EmptySeq
  <2> QED
    BY <2>1, <2>2, ConcatEmptySeq
<1> QED
  BY <1>1, <1>2, <1>3, <1>4, <1>5, <1>6 DEF Init, ArriveInv

LEMMA SendArrives ==
  ASSUME TypeOK, ArriveInv, SendCommand
  PROVE  ArriveInv'
<1>1. PICK cmd \in Command : /\ cmd = Head(todo) /\ sent' = Append(sent, cmd)
                             /\ upstream' = upstream \o (Encode(cmd) \o eol)
  BY SendParts
<1>2. UNCHANGED <<m_CmdBuffer, taken, eol>>
  BY DEF SendCommand, serverVars
<1>3. /\ upstream \in Seq(Symbols) /\ m_CmdBuffer \in Seq(Symbols)
      /\ sent \in Seq(Command) /\ taken \in Seq(Parsed)
  BY DEF TypeOK
<1>4. ASSUME eol = <<NL>>, NoNulIds(sent')
      PROVE  /\ NoNul(upstream') /\ Due(sent') = taken \o ParseAll(Cut(m_CmdBuffer \o upstream').lines)
             /\ Cut(m_CmdBuffer \o upstream').rest = <<>>
  <2>1. NoNulIds(sent) /\ ~Has(cmd, NUL)
    <3>1. /\ Len(sent) \in Nat /\ DOMAIN sent = 1..Len(sent) /\ DOMAIN sent' = 1..(Len(sent) + 1)
          /\ sent'[Len(sent) + 1] = cmd /\ \A i \in 1..Len(sent) : sent'[i] = sent[i]
      BY <1>1, <1>3, AppendProperties, LenProperties
    <3>2. Len(sent) + 1 \in DOMAIN sent' /\ \A i \in DOMAIN sent : i \in DOMAIN sent'
      BY <3>1
    <3> QED
      BY <1>4, <3>1, <3>2 DEF NoNulIds
  <2>2. /\ NoNul(upstream) /\ Due(sent) = taken \o ParseAll(Cut(m_CmdBuffer \o upstream).lines)
        /\ Cut(m_CmdBuffer \o upstream).rest = <<>>
    BY <1>4, <2>1 DEF ArriveInv
  <2>3. PICK x \in Seq(Symbols) : x = Encode(cmd) \o <<NL>>
    BY PiecesType, ConcatProperties
  <2>4. upstream' = upstream \o x
    BY <1>1, <1>4, <2>3
  <2>5. NoNul(upstream')
    <3>1. NoNul(x)
      BY <2>1, <2>3, CommandHasNoNul
    <3> QED
      BY <1>3, <2>2, <2>4, <3>1, NoNulConcat
  <2>6. PICK p : p = ParseAll(Cut(m_CmdBuffer \o upstream).lines)
    OBVIOUS
  <2>7. /\ Cut(m_CmdBuffer \o upstream').rest = <<>>
        /\ ParseAll(Cut(m_CmdBuffer \o upstream').lines) = p \o Pieces(cmd)
    <3>1. PICK buf \in Seq(Symbols), up \in Seq(Symbols) : buf = m_CmdBuffer /\ up = upstream
      BY <1>3
    <3>2. Cut(buf \o up).rest = <<>>
      BY <2>2, <3>1
    <3>3. /\ Cut(buf \o (up \o (Encode(cmd) \o <<NL>>))).rest = <<>>
          /\ ParseAll(Cut(buf \o (up \o (Encode(cmd) \o <<NL>>))).lines)
               = ParseAll(Cut(buf \o up).lines) \o Pieces(cmd)
      BY <3>2, CommandBehind
    <3> QED
      BY <2>3, <2>4, <2>6, <3>1, <3>3
  <2>8. Due(sent') = Due(sent) \o Pieces(cmd)
    BY <1>1, <1>3, DueFacts
  <2>9. (taken \o p) \o Pieces(cmd) = taken \o (p \o Pieces(cmd))
    <3>1. p \in Seq(Parsed)
      <4>1. PICK a \in Seq(Symbols) : a = m_CmdBuffer \o upstream
        BY <1>3, ConcatProperties
      <4>2. Cut(a).lines \in Seq(Seq(Symbols))
        BY CutEquations DEF Cuts
      <4> QED
        BY <2>6, <4>1, <4>2, ParseAllFacts
    <3>2. PICK q \in Seq(Parsed) : q = Pieces(cmd)
      BY PiecesType
    <3>3. \A T : taken \in Seq(T) /\ p \in Seq(T) /\ q \in Seq(T) =>
            (taken \o p) \o q = taken \o (p \o q)
      BY Associates
    <3> QED
      BY <1>3, <3>1, <3>2, <3>3
  <2>10. Due(sent') = taken \o ParseAll(Cut(m_CmdBuffer \o upstream').lines)
    BY <2>2, <2>6, <2>7, <2>8, <2>9
  <2> QED
    BY <2>5, <2>7, <2>10
<1> QED
  BY <1>2, <1>4 DEF ArriveInv

LEMMA ReceiveArrives ==
  ASSUME TypeOK, ArriveInv, Receive
  PROVE  ArriveInv'
<1>1. PICK k, cut :
        /\ k \in 1..Len(upstream)
        /\ cut = Cut(m_CmdBuffer \o CString(SubSeq(upstream, 1, k)))
        /\ upstream' = SubSeq(upstream, k + 1, Len(upstream))
        /\ m_CmdBuffer' = cut.rest
        /\ taken' = taken \o ParseAll(cut.lines)
  BY DEF Receive
<1>2. UNCHANGED <<sent, eol>>
  BY DEF Receive, clientVars
<1>3. PICK buf \in Seq(Symbols), up \in Seq(Symbols) : buf = m_CmdBuffer /\ up = upstream
  BY DEF TypeOK
<1>4. PICK a, b : a = SubSeq(up, 1, k) /\ b = SubSeq(up, k + 1, Len(up))
  OBVIOUS
<1>5. /\ a \in Seq(Symbols) /\ b \in Seq(Symbols) /\ up = a \o b
      /\ NoNewline(Cut(buf \o CString(a)).rest)
  <2>1. k \in 1..Len(up)
    BY <1>1, <1>3
  <2> QED
    BY <1>4, <2>1, ReceiveParts
<1>6. NoNewline(m_CmdBuffer')
  BY <1>1, <1>3, <1>4, <1>5
<1>7. ASSUME eol = <<NL>>, NoNulIds(sent)
      PROVE  /\ NoNul(upstream') /\ Due(sent) = taken' \o ParseAll(Cut(m_CmdBuffer' \o upstream').lines)
             /\ Cut(m_CmdBuffer' \o upstream').rest = <<>>
  <2>1. /\ NoNul(up) /\ Due(sent) = taken \o ParseAll(Cut(buf \o up).lines)
        /\ Cut(buf \o up).rest = <<>>
    BY <1>3, <1>7 DEF ArriveInv
  <2>2. NoNul(a) /\ NoNul(b)
    BY <1>5, <2>1, NoNulConcat
  <2>3. CString(a) = a
    BY <1>5, <2>2, CStringFacts
  <2>4. cut = Cut(buf \o a) /\ upstream' = b
    BY <1>1, <1>3, <1>4, <2>3
  <2>5. PICK later : later = Cut(cut.rest \o b)
    OBVIOUS
  <2>6. /\ Cut(buf \o (a \o b)).rest = later.rest
        /\ ParseAll(Cut(buf \o (a \o b)).lines) = ParseAll(cut.lines) \o ParseAll(later.lines)
        /\ ParseAll(cut.lines) \in Seq(Parsed) /\ ParseAll(later.lines) \in Seq(Parsed)
    BY <1>5, <2>4, <2>5, TakenInParts, ZenonT(60)
  <2>7. later.rest = <<>> /\ Due(sent) = taken \o (ParseAll(cut.lines) \o ParseAll(later.lines))
    BY <1>5, <2>1, <2>6
  <2>8. taken \o (ParseAll(cut.lines) \o ParseAll(later.lines))
          = (taken \o ParseAll(cut.lines)) \o ParseAll(later.lines)
    <3>1. PICK p \in Seq(Parsed), q \in Seq(Parsed) : p = ParseAll(cut.lines) /\ q = ParseAll(later.lines)
      BY <2>6
    <3>2. \A T : taken \in Seq(T) /\ p \in Seq(T) /\ q \in Seq(T) =>
            (taken \o p) \o q = taken \o (p \o q)
      BY Associates
    <3>3. taken \in Seq(Parsed)
      BY DEF TypeOK
    <3> QED
      BY <3>1, <3>2, <3>3
  <2> QED
    BY <1>1, <2>2, <2>4, <2>5, <2>7, <2>8
<1> QED
  BY <1>2, <1>6, <1>7 DEF ArriveInv

LEMMA NextArrives ==
  ASSUME TypeOK, ArriveInv, [Next]_vars
  PROVE  ArriveInv'
<1>1. CASE SendCommand
  BY <1>1, SendArrives
<1>2. CASE ReadLineFromSocket
  BY <1>2 DEF ReadLineFromSocket, serverVars, ArriveInv
<1>3. CASE Receive
  BY <1>3, ReceiveArrives
<1>4. CASE ProcessCommands
  BY <1>4 DEF ProcessCommands, clientVars, ArriveInv
<1>5. CASE ProcessDies
  BY <1>5 DEF ProcessDies, clientVars, ArriveInv
<1>6. CASE UNCHANGED vars
  BY <1>6 DEF vars, clientVars, serverVars, ArriveInv
<1> QED
  BY <1>1, <1>2, <1>3, <1>4, <1>5, <1>6 DEF Next

\* What has arrived is the first part of what is due, and all of it when no byte is on
\* the way.
LEMMA ArrivedIsDue ==
  ASSUME TypeOK, ArriveInv
  PROVE  CommandsArrive
<1>1. SUFFICES ASSUME eol = <<NL>>, NoNulIds(sent)
               PROVE  /\ IsPrefix(taken, Due(sent))
                      /\ upstream = <<>> => taken = Due(sent)
  BY DEF CommandsArrive, NoNulIds, Due
<1>2. Due(sent) = taken \o ParseAll(Cut(m_CmdBuffer \o upstream).lines)
  BY <1>1 DEF ArriveInv
<1>3. PICK a \in Seq(Symbols) : a = m_CmdBuffer \o upstream
  BY ConcatProperties DEF TypeOK
<1>4. PICK t \in Seq(Parsed), p \in Seq(Parsed) : t = taken /\ p = ParseAll(Cut(a).lines)
  <2>1. Cut(a).lines \in Seq(Seq(Symbols))
    BY CutEquations DEF Cuts
  <2> QED
    BY <2>1, ParseAllFacts DEF TypeOK
<1>5. PICK due \in Seq(Parsed) : due = t \o p
  BY ConcatProperties
<1>6. Due(sent) = due
  BY <1>2, <1>3, <1>4, <1>5
<1>7. IsPrefix(t, due)
  <2>1. Len(t) \in Nat /\ Len(p) \in Nat /\ Len(due) = Len(t) + Len(p)
    BY <1>5, ConcatProperties, LenProperties
  <2>2. SubSeq(due, 1, Len(t)) = SubSeq(t, 1, Len(t))
    <3>1. 1 > 0 /\ 1 \in Nat /\ Len(t) \in Int /\ Len(t) <= Len(t)
      BY <2>1
    <3> QED
      BY <1>5, <3>1, PartOfConcat
  <2> QED
    BY <2>1, <2>2 DEF IsPrefix
<1>8. ASSUME upstream = <<>> PROVE t = due
  <2>1. a = m_CmdBuffer
    BY <1>3, <1>8, ConcatEmptySeq DEF TypeOK
  <2>2. NoNewline(a)
    BY <2>1 DEF ArriveInv
  <2>3. Cut(a) = [lines |-> <<>>, rest |-> a]
    BY <2>2, CutEquations
  <2>4. p = <<>>
    BY <1>4, <2>3 DEF ParseAll
  <2> QED
    BY <1>5, <2>4, ConcatEmptySeq
<1> QED
  BY <1>4, <1>6, <1>7, <1>8

\* However the bytes are divided into reads, a command sent with a newline is taken
\* whole or in its pieces, once and in order (update_rx, SocketTransport.cpp:341).
THEOREM CommandsDoArrive == Spec => []CommandsArrive
<1>1. Init => TypeOK /\ ArriveInv
  BY InitType, InitArrives
<1>2. TypeOK /\ ArriveInv /\ [Next]_vars => TypeOK' /\ ArriveInv'
  BY NextType, NextArrives
<1>3. TypeOK /\ ArriveInv => CommandsArrive
  BY ArrivedIsDue
<1> QED
  BY <1>1, <1>2, <1>3, PTL DEF Spec

(***************************************************************************)
(* The methods, in order: a sequence thins another if its methods are some *)
(* of the methods of the other, in their order.                            *)
(***************************************************************************)
Places(s) == {p \in 1..Len(s) : s[p] \in Methods}

Thinning(s, t, h) ==
  /\ h \in [Places(s) -> Places(t)]
  /\ \A p, q \in Places(s) : p < q => h[p] < h[q]
  /\ \A p \in Places(s) : t[h[p]] = s[p]

Thins(s, t) == \E h : Thinning(s, t, h)

LEMMA ThinsItself ==
  ASSUME NEW s
  PROVE  Thins(s, s)
<1> DEFINE h == [p \in Places(s) |-> p]
<1>1. Thinning(s, s, h)
  BY DEF Thinning
<1> QED
  BY <1>1 DEF Thins

LEMMA NothingThins ==
  ASSUME NEW s, NEW t, Places(s) = {}
  PROVE  Thins(s, t)
<1> DEFINE h == [p \in Places(s) |-> p]
<1>1. Thinning(s, t, h)
  BY DEF Thinning
<1> QED
  BY <1>1 DEF Thins

LEMMA OneThins ==
  ASSUME NEW s, NEW t, NEW p, Places(s) \subseteq {p}, NEW q \in Places(t), t[q] = s[p],
         p \in Nat
  PROVE  Thins(s, t)
<1> DEFINE h == [i \in Places(s) |-> q]
<1>1. Thinning(s, t, h)
  BY DEF Thinning
<1> QED
  BY <1>1 DEF Thins

LEMMA ThinsTransitive ==
  ASSUME NEW s, NEW t, NEW u, Thins(s, t), Thins(t, u)
  PROVE  Thins(s, u)
<1>1. PICK g : Thinning(s, t, g)
  BY DEF Thins
<1>2. PICK h : Thinning(t, u, h)
  BY DEF Thins
<1> DEFINE f == [p \in Places(s) |-> h[g[p]]]
<1>3. Thinning(s, u, f)
  BY <1>1, <1>2 DEF Thinning
<1> QED
  BY <1>3 DEF Thins

LEMMA PlacesOfConcat ==
  ASSUME NEW a \in Seq(Symbols), NEW b \in Seq(Symbols)
  PROVE  \A p \in 1..(Len(a) + Len(b)) :
           /\ p <= Len(a) => /\ p \in 1..Len(a) /\ (a \o b)[p] = a[p]
                             /\ p \in Places(a \o b) <=> p \in Places(a)
           /\ ~(p <= Len(a)) => /\ p - Len(a) \in 1..Len(b) /\ (a \o b)[p] = b[p - Len(a)]
                                /\ p \in Places(a \o b) <=> p - Len(a) \in Places(b)
<1>1. PICK c \in Seq(Symbols) : c = a \o b
  BY ConcatProperties
<1>2. /\ Len(a) \in Nat /\ Len(b) \in Nat /\ Len(c) = Len(a) + Len(b)
      /\ \A i \in 1..(Len(a) + Len(b)) : c[i] = IF i <= Len(a) THEN a[i] ELSE b[i - Len(a)]
  BY <1>1, ConcatProperties, LenProperties
<1>3. SUFFICES ASSUME NEW p \in 1..(Len(a) + Len(b))
               PROVE  /\ p <= Len(a) => /\ p \in 1..Len(a) /\ c[p] = a[p]
                                        /\ p \in Places(c) <=> p \in Places(a)
                      /\ ~(p <= Len(a)) => /\ p - Len(a) \in 1..Len(b) /\ c[p] = b[p - Len(a)]
                                           /\ p \in Places(c) <=> p - Len(a) \in Places(b)
  BY <1>1
<1>4. ASSUME p <= Len(a)
      PROVE  p \in 1..Len(a) /\ c[p] = a[p] /\ (p \in Places(c) <=> p \in Places(a))
  <2>1. p \in 1..Len(a) /\ c[p] = a[p] /\ p \in 1..Len(c)
    BY <1>2, <1>4
  <2> QED
    BY <2>1 DEF Places
<1>5. ASSUME ~(p <= Len(a))
      PROVE  p - Len(a) \in 1..Len(b) /\ c[p] = b[p - Len(a)]
             /\ (p \in Places(c) <=> p - Len(a) \in Places(b))
  <2>1. p - Len(a) \in 1..Len(b) /\ c[p] = b[p - Len(a)] /\ p \in 1..Len(c)
    BY <1>2, <1>5
  <2> QED
    BY <2>1 DEF Places
<1> QED
  BY <1>4, <1>5

LEMMA ThinsConcat ==
  ASSUME NEW a \in Seq(Symbols), NEW b \in Seq(Symbols),
         NEW c \in Seq(Symbols), NEW d \in Seq(Symbols), Thins(a, c), Thins(b, d)
  PROVE  Thins(a \o b, c \o d)
<1>1. PICK g : Thinning(a, c, g)
  BY DEF Thins
<1>2. PICK h : Thinning(b, d, h)
  BY DEF Thins
<1>3. PICK s, t : s = a \o b /\ t = c \o d
  OBVIOUS
<1>4. PICK la \in Nat, lb \in Nat, lc \in Nat, ld \in Nat :
        la = Len(a) /\ lb = Len(b) /\ lc = Len(c) /\ ld = Len(d)
  BY LenProperties
<1>5. /\ Places(a) \subseteq 1..la /\ Places(b) \subseteq 1..lb
      /\ Places(c) \subseteq 1..lc /\ Places(d) \subseteq 1..ld
      /\ Places(s) \subseteq 1..(la + lb)
  <2>1. Len(s) = la + lb
    BY <1>3, <1>4, ConcatProperties
  <2> QED
    BY <1>4, <2>1 DEF Places
<1>6. \A p \in Places(s) :
        /\ p <= la => p \in Places(a) /\ s[p] = a[p]
        /\ ~(p <= la) => p - la \in Places(b) /\ s[p] = b[p - la]
  BY <1>3, <1>4, <1>5, PlacesOfConcat
<1>7. \A p \in 1..(lc + ld) :
        /\ p <= lc => t[p] = c[p] /\ (p \in Places(t) <=> p \in Places(c))
        /\ ~(p <= lc) => t[p] = d[p - lc] /\ (p \in Places(t) <=> p - lc \in Places(d))
  BY <1>3, <1>4, PlacesOfConcat
<1>8. \A p \in Places(c) : p \in Places(t) /\ t[p] = c[p]
  <2> TAKE p \in Places(c)
  <2>1. p \in 1..(lc + ld) /\ p <= lc
    BY <1>5
  <2> QED
    BY <1>7, <2>1
<1>9. \A p \in Places(d) : lc + p \in Places(t) /\ t[lc + p] = d[p]
  <2> TAKE p \in Places(d)
  <2>1. lc + p \in 1..(lc + ld) /\ ~(lc + p <= lc) /\ (lc + p) - lc = p
    BY <1>5
  <2> QED
    BY <1>7, <2>1
<1> DEFINE f == [p \in Places(s) |-> IF p <= la THEN g[p] ELSE lc + h[p - la]]
<1>10. \A p \in Places(s) :
         /\ p <= la => f[p] = g[p] /\ g[p] \in Places(c) /\ g[p] \in 1..lc /\ p \in Places(a)
         /\ ~(p <= la) => /\ f[p] = lc + h[p - la] /\ h[p - la] \in Places(d) /\ h[p - la] \in 1..ld
                          /\ p - la \in Places(b)
  <2>1. g \in [Places(a) -> Places(c)] /\ h \in [Places(b) -> Places(d)]
    BY <1>1, <1>2 DEF Thinning
  <2> QED
    BY <1>5, <1>6, <2>1
<1> HIDE DEF f
<1>11. f \in [Places(s) -> Places(t)]
  <2>1. \A p \in Places(s) : f[p] \in Places(t)
    BY <1>8, <1>9, <1>10
  <2> QED
    BY <2>1 DEF f
<1>12. \A p, q \in Places(s) : p < q => f[p] < f[q]
  <2> TAKE p, q \in Places(s)
  <2> HAVE p < q
  <2>1. p \in 1..(la + lb) /\ q \in 1..(la + lb)
    BY <1>5
  <2>2. CASE p <= la /\ q <= la
    BY <1>1, <1>10, <2>2 DEF Thinning
  <2>3. CASE p <= la /\ ~(q <= la)
    <3>1. f[p] \in 1..lc /\ f[q] = lc + h[q - la] /\ h[q - la] \in 1..ld
      BY <1>10, <2>3
    <3> QED
      BY <3>1
  <2>4. CASE ~(p <= la) /\ ~(q <= la)
    <3>1. f[p] = lc + h[p - la] /\ f[q] = lc + h[q - la] /\ h[p - la] \in 1..ld /\ h[q - la] \in 1..ld
      BY <1>10, <2>4
    <3>2. p - la < q - la /\ p - la \in Places(b) /\ q - la \in Places(b)
      BY <1>10, <2>1, <2>4
    <3>3. h[p - la] < h[q - la]
      BY <1>2, <3>2 DEF Thinning
    <3> QED
      BY <3>1, <3>3
  <2>5. ~(~(p <= la) /\ q <= la)
    BY <2>1
  <2> QED
    BY <2>2, <2>3, <2>4, <2>5
<1>13. \A p \in Places(s) : t[f[p]] = s[p]
  <2> TAKE p \in Places(s)
  <2>1. CASE p <= la
    <3>1. f[p] = g[p] /\ g[p] \in Places(c) /\ p \in Places(a) /\ s[p] = a[p]
      BY <1>6, <1>10, <2>1
    <3>2. c[g[p]] = a[p]
      BY <1>1, <3>1 DEF Thinning
    <3> QED
      BY <1>8, <3>1, <3>2
  <2>2. CASE ~(p <= la)
    <3>1. f[p] = lc + h[p - la] /\ h[p - la] \in Places(d) /\ p - la \in Places(b) /\ s[p] = b[p - la]
      BY <1>6, <1>10, <2>2
    <3>2. d[h[p - la]] = b[p - la]
      BY <1>2, <3>1 DEF Thinning
    <3> QED
      BY <1>9, <3>1, <3>2
  <2> QED
    BY <2>1, <2>2
<1>14. Thinning(s, t, f)
  BY <1>11, <1>12, <1>13 DEF Thinning
<1> QED
  BY <1>3, <1>14 DEF Thins

MethodsOf(cmds) == [i \in DOMAIN cmds |-> cmds[i].method]

LEMMA MethodsType ==
  ASSUME NEW s \in Seq(Parsed)
  PROVE  /\ MethodsOf(s) \in Seq(Symbols) /\ Len(MethodsOf(s)) = Len(s)
         /\ \A i \in 1..Len(s) : MethodsOf(s)[i] = s[i].method /\ s[i] \in Parsed
<1>1. Len(s) \in Nat /\ DOMAIN s = 1..Len(s) /\ \A i \in 1..Len(s) : s[i] \in Parsed
  BY LenProperties, ElementOfSeq
<1>2. \A c \in Parsed : c.method \in Symbols
  <2>1. NONE \in Symbols /\ Methods \subseteq Symbols
    BY DEF Symbols, NONE
  <2> QED
    BY <2>1 DEF Parsed
<1>3. \A i \in 1..Len(s) : s[i].method \in Symbols
  BY <1>1, <1>2
<1> QED
  BY <1>1, <1>3 DEF MethodsOf

LEMMA MethodsConcat ==
  ASSUME NEW s \in Seq(Parsed), NEW t \in Seq(Parsed)
  PROVE  MethodsOf(s \o t) = MethodsOf(s) \o MethodsOf(t)
<1>1. PICK c \in Seq(Parsed) : c = s \o t
  BY ConcatProperties
<1>2. /\ Len(s) \in Nat /\ Len(t) \in Nat /\ Len(c) = Len(s) + Len(t)
      /\ \A i \in 1..(Len(s) + Len(t)) : c[i] = IF i <= Len(s) THEN s[i] ELSE t[i - Len(s)]
  BY <1>1, ConcatProperties, LenProperties
<1>3. PICK ms \in Seq(Symbols), mt \in Seq(Symbols), mc \in Seq(Symbols) :
        ms = MethodsOf(s) /\ mt = MethodsOf(t) /\ mc = MethodsOf(c)
  BY MethodsType
<1>4. /\ Len(ms) = Len(s) /\ \A i \in 1..Len(s) : ms[i] = s[i].method
      /\ Len(mt) = Len(t) /\ \A i \in 1..Len(t) : mt[i] = t[i].method
      /\ Len(mc) = Len(c) /\ \A i \in 1..Len(c) : mc[i] = c[i].method
  BY <1>3, MethodsType
<1>5. PICK d \in Seq(Symbols) : d = ms \o mt
  BY ConcatProperties
<1>6. /\ Len(d) = Len(s) + Len(t)
      /\ \A i \in 1..(Len(s) + Len(t)) : d[i] = IF i <= Len(s) THEN ms[i] ELSE mt[i - Len(s)]
  <2>1. /\ Len(d) = Len(ms) + Len(mt)
        /\ \A i \in 1..(Len(ms) + Len(mt)) : d[i] = IF i <= Len(ms) THEN ms[i] ELSE mt[i - Len(ms)]
    BY <1>5, ConcatProperties
  <2>2. Len(ms) = Len(s) /\ Len(mt) = Len(t)
    BY <1>4
  <2> QED
    BY <2>1, <2>2
<1>7. \A i \in 1..Len(mc) : mc[i] = d[i]
  <2> TAKE i \in 1..Len(mc)
  <2>1. i \in 1..(Len(s) + Len(t)) /\ i \in 1..Len(c)
    BY <1>2, <1>4
  <2>2. CASE i <= Len(s)
    <3>1. i \in 1..Len(s)
      BY <1>2, <2>1, <2>2
    <3> QED
      BY <1>2, <1>4, <1>6, <2>1, <2>2, <3>1
  <2>3. CASE ~(i <= Len(s))
    <3>1. i - Len(s) \in 1..Len(t)
      BY <1>2, <2>1, <2>3
    <3> QED
      BY <1>2, <1>4, <1>6, <2>1, <2>3, <3>1
  <2> QED
    BY <2>2, <2>3
<1>8. mc = d
  BY <1>2, <1>4, <1>6, <1>7, SeqEqual
<1> QED
  BY <1>1, <1>3, <1>5, <1>8

LEMMA MethodsOfOne ==
  ASSUME NEW c \in Parsed
  PROVE  MethodsOf(<<c>>) = <<c.method>> /\ <<c>> \in Seq(Parsed)
BY DEF MethodsOf

\* What is parsed from a line has no method but one of that line.
LEMMA LineThins ==
  ASSUME NEW l \in Seq(Symbols)
  PROVE  Thins(MethodsOf(<<Parse(l)>>), l)
<1>1. PICK c : c = Parse(l)
  OBVIOUS
<1>2. c \in Parsed /\ (c.method # NONE => \E j \in 1..Len(l) : l[j] = c.method)
  BY <1>1, ParseType DEF Among
<1>3. PICK m : m = <<c.method>>
  OBVIOUS
<1>4. MethodsOf(<<c>>) = m /\ Len(m) = 1 /\ m[1] = c.method
  BY <1>2, <1>3, MethodsOfOne
<1>5. CASE c.method \in Methods
  <2>1. c.method # NONE
    BY <1>5, SymbolAssumption DEF NONE
  <2>2. PICK j \in 1..Len(l) : l[j] = c.method
    BY <1>2, <2>1
  <2>3. j \in Places(l) /\ l[j] = m[1]
    BY <1>4, <1>5, <2>2 DEF Places
  <2>4. Places(m) \subseteq {1} /\ 1 \in Nat
    BY <1>4 DEF Places
  <2>5. Thins(m, l)
    BY <2>3, <2>4, OneThins
  <2> QED
    BY <1>1, <1>4, <2>5
<1>6. CASE c.method \notin Methods
  <2>1. Places(m) = {}
    BY <1>4, <1>6 DEF Places
  <2>2. Thins(m, l)
    BY <2>1, NothingThins
  <2> QED
    BY <1>1, <1>4, <2>2
<1> QED
  BY <1>5, <1>6

LEMMA NewlineIsNoPlace ==
  Places(<<NL>>) = {} /\ Places(<<>>) = {}
<1>1. NL \notin Methods
  BY SymbolAssumption DEF NL
<1>2. Len(<<NL>>) = 1 /\ <<NL>>[1] = NL /\ Len(<<>>) = 0
  OBVIOUS
<1> QED
  BY <1>1, <1>2 DEF Places

\* The bytes of a command have its method once, and the line end has none.
LEMMA CommandThins ==
  ASSUME NEW cmd \in Command, NEW end \in {<<>>, <<NL>>}
  PROVE  Thins(Encode(cmd) \o end, MethodsOf(<<cmd>>))
<1>1. PICK v, e, m :
        v = Varint(cmd.id) /\ e = Encode(cmd) /\ m = <<cmd.method>>
  OBVIOUS
<1>2. /\ cmd.id \in 0..(128 * 128 - 1) /\ cmd.method \in Methods /\ v \in Seq(Symbols) /\ e \in Seq(Symbols)
      /\ Len(v) \in {1, 2} /\ Len(e) = Len(v) + 3
      /\ e[1] = 8 /\ \A j \in 1..Len(v) : e[1 + j] = v[j]
      /\ e[Len(v) + 2] = 18 /\ e[Len(v) + 3] = cmd.method
  BY <1>1, EncodeFacts
<1>3. \A j \in 1..Len(v) : v[j] \in 0..255
  BY <1>1, <1>2, VarintFacts, ZenonT(60)
<1>4. \A b \in 0..255 : b \notin Methods
  BY SymbolAssumption
<1>5. Places(e) \subseteq {Len(v) + 3}
  <2>1. SUFFICES ASSUME NEW i \in 1..Len(e), i # Len(v) + 3 PROVE e[i] \notin Methods
    BY DEF Places
  <2>2. i = 1 \/ (\E j \in 1..Len(v) : i = 1 + j) \/ i = Len(v) + 2
    <3>1. Len(v) \in {1, 2} /\ Len(e) = Len(v) + 3
      BY <1>2
    <3>2. i \in Nat /\ i >= 1 /\ i <= Len(v) + 3
      BY <3>1
    <3>3. CASE i >= 2 /\ i <= Len(v) + 1
      <4>1. i - 1 \in 1..Len(v) /\ i = 1 + (i - 1)
        BY <3>1, <3>2, <3>3
      <4> QED
        BY <4>1
    <3>4. CASE ~(i >= 2 /\ i <= Len(v) + 1)
      BY <2>1, <3>1, <3>2, <3>4
    <3> QED
      BY <3>3, <3>4
  <2>3. 8 \in 0..255 /\ 18 \in 0..255
    OBVIOUS
  <2>4. e[i] \in 0..255
    <3>1. e[1] \in 0..255 /\ e[Len(v) + 2] \in 0..255
      BY <1>2, <2>3
    <3>2. \A j \in 1..Len(v) : e[1 + j] \in 0..255
      BY <1>2, <1>3, ZenonT(60)
    <3> QED
      BY <2>2, <3>1, <3>2
  <2> QED
    BY <1>4, <2>4
<1>6. /\ m \in Seq(Symbols) /\ Len(m) = 1 /\ m[1] = cmd.method /\ 1 \in Places(m)
  <2>1. cmd.method \in Symbols
    BY <1>2 DEF Symbols
  <2>2. m \in Seq(Symbols) /\ Len(m) = 1 /\ m[1] = cmd.method
    BY <1>1, <2>1
  <2>5. cmd.method \in Methods
    BY <1>2, Zenon
  <2>3. m[1] \in Methods /\ 1 \in 1..Len(m)
    BY <2>2, <2>5
  <2>4. 1 \in Places(m)
    BY <2>3 DEF Places
  <2> QED
    BY <2>2, <2>4
<1>7. Thins(e, m)
  <2>2. Len(v) \in {1, 2} /\ e[Len(v) + 3] = cmd.method
    BY <1>2, Zenon
  <2>3. m[1] = cmd.method
    BY <1>6, Zenon
  <2>1. Len(v) + 3 \in Nat /\ m[1] = e[Len(v) + 3]
    BY <2>2, <2>3
  <2> QED
    BY <1>5, <1>6, <2>1, OneThins
<1>8. PICK n \in Seq(Symbols) : n = end /\ Places(n) = {}
  <2>1. <<NL>> \in Seq(Symbols) /\ <<>> \in Seq(Symbols)
    BY PiecesType, EmptySeq
  <2> QED
    BY <2>1, NewlineIsNoPlace
<1>9. PICK z \in Seq(Symbols) : z = <<>>
  BY EmptySeq
<1>10. Thins(n, z)
  BY <1>8, NothingThins
<1>11. Thins(e \o n, m \o z)
  BY <1>2, <1>6, <1>7, <1>10, ThinsConcat
<1>12. m \o z = m
  BY <1>6, <1>9, ConcatEmptySeq
<1>13. MethodsOf(<<cmd>>) = m
  <2>1. cmd \in Parsed
    BY DEF Command, Parsed
  <2> QED
    BY <1>1, <2>1, MethodsOfOne
<1> QED
  BY <1>1, <1>8, <1>11, <1>12, <1>13

LEMMA CStringThins ==
  ASSUME NEW r \in Seq(Symbols)
  PROVE  CString(r) \in Seq(Symbols) /\ Thins(CString(r), r)
<1>1. PICK n \in 0..Len(r) : CString(r) = SubSeq(r, 1, n)
  BY CStringFacts
<1>2. Len(r) \in Nat /\ n \in Nat /\ n <= Len(r)
  BY LenProperties
<1>3. PICK a \in Seq(Symbols), b \in Seq(Symbols) : a = SubSeq(r, 1, n) /\ b = SubSeq(r, n + 1, Len(r))
  <2>1. 1 \in Nat /\ 1 > 0 /\ n + 1 \in Nat /\ n + 1 > 0 /\ Len(r) \in 0..Len(r)
    BY <1>2
  <2> QED
    BY <2>1, PartType
<1>4. r = a \o b
  <2>1. 1 \in 1..Len(r) + 1 /\ n \in 1 - 1..Len(r) /\ Len(r) \in n..Len(r)
    BY <1>2
  <2>2. SubSeq(r, 1, n) \o SubSeq(r, n + 1, Len(r)) = SubSeq(r, 1, Len(r))
    BY <2>1, ConcatAdjacentSubSeq
  <2> QED
    BY <1>3, <2>2, SubSeqFull
<1>5. PICK z \in Seq(Symbols) : z = <<>> /\ Places(z) = {}
  BY EmptySeq, NewlineIsNoPlace
<1>6. Thins(a, a) /\ Thins(z, b)
  BY <1>5, ThinsItself, NothingThins
<1>7. Thins(a \o z, a \o b)
  BY <1>6, ThinsConcat
<1>8. a \o z = a
  BY <1>5, ConcatEmptySeq
<1> QED
  BY <1>1, <1>3, <1>4, <1>7, <1>8

\* A line is cut off, and the rest thins as before.
LEMMA LineThinsToo ==
  ASSUME NEW l \in Seq(Symbols), NEW ls \in Seq(Seq(Symbols)), NEW rest \in Seq(Symbols),
         NEW y \in Seq(Symbols)
  PROVE  Thins(MethodsOf(ParseAll(ls)) \o rest, y) =>
           Thins(MethodsOf(ParseAll(<<l>> \o ls)) \o rest, (l \o <<NL>>) \o y)
<1>1. PICK p \in Seq(Parsed), ps \in Seq(Parsed) : p = <<Parse(l)>> /\ ps = ParseAll(ls)
  <2>1. Parse(l) \in Parsed
    BY ParseType DEF Among
  <2> QED
    BY <2>1, ParseAllFacts, MethodsOfOne
<1>2. ParseAll(<<l>> \o ls) = p \o ps
  <2>1. PICK one \in Seq(Seq(Symbols)) : one = <<l>>
    <3>1. \A T : \A x \in T : <<x>> \in Seq(T)
      OBVIOUS
    <3>2. <<l>> \in Seq(Seq(Symbols))
      BY <3>1
    <3> QED
      BY <3>2
  <2>2. ParseAll(one \o ls) = ParseAll(one) \o ParseAll(ls)
    BY ParseAllConcat
  <2>3. ParseAll(one) = p
    BY <1>1, <2>1, ParseOne
  <2> QED
    BY <1>1, <2>1, <2>2, <2>3
<1>3. PICK m \in Seq(Symbols), ms \in Seq(Symbols) : m = MethodsOf(p) /\ ms = MethodsOf(ps)
  BY MethodsType
<1>4. MethodsOf(ParseAll(<<l>> \o ls)) = m \o ms
  BY <1>2, <1>3, MethodsConcat
<1>5. (m \o ms) \o rest = m \o (ms \o rest)
  BY SymbolsAssociate, ZenonT(60)
<1>6. PICK nl \in Seq(Symbols), z \in Seq(Symbols) : nl = <<NL>> /\ z = <<>> /\ Places(z) = {}
  <2>1. <<NL>> \in Seq(Symbols)
    <3>1. NL \in Symbols
      BY DEF NL, Symbols
    <3> QED
      BY <3>1
  <2> QED
    BY <2>1, EmptySeq, NewlineIsNoPlace
<1>7. Thins(m, l)
  BY <1>1, <1>3, LineThins
<1>8. Thins(m \o z, l \o nl)
  <2>1. Thins(z, nl)
    BY <1>6, NothingThins
  <2> QED
    BY <1>7, <2>1, ThinsConcat
<1>9. m \o z = m
  BY <1>6, ConcatEmptySeq
<1>10. PICK w \in Seq(Symbols), x \in Seq(Symbols) : w = ms \o rest /\ x = l \o nl
  BY ConcatProperties
<1> HAVE Thins(MethodsOf(ParseAll(ls)) \o rest, y)
<1>11. Thins(w, y)
  BY <1>1, <1>3, <1>10
<1>12. Thins(m, x)
  BY <1>8, <1>9, <1>10
<1>13. Thins(m \o w, x \o y)
  BY <1>11, <1>12, ThinsConcat
<1> QED
  BY <1>4, <1>5, <1>6, <1>10, <1>13

\* What is parsed from the lines cut off a buffer, and what stays there, has no
\* method but those of the buffer, in their order.
LEMMA CutThins ==
  ASSUME NEW buf \in Seq(Symbols)
  PROVE  Thins(MethodsOf(ParseAll(Cut(buf).lines)) \o Cut(buf).rest, buf)
<1> DEFINE P(x) == Thins(MethodsOf(ParseAll(Cut(x).lines)) \o Cut(x).rest, x)
           S == {n \in Nat : \E x \in Seq(Symbols) : Len(x) = n /\ ~P(x)}
<1>1. SUFFICES ASSUME S # {} PROVE FALSE
  <2>1. Len(buf) \in Nat /\ Len(buf) \notin S
    BY <1>1, LenProperties
  <2>2. P(buf)
    BY <2>1
  <2> QED
    BY <2>2
<1>2. PICK n \in S : \A k \in S : n <= k
  <2>1. S \subseteq Nat
    OBVIOUS
  <2> HIDE DEF S
  <2> QED
    BY <1>1, <2>1, Least
<1>3. PICK x \in Seq(Symbols) : Len(x) = n /\ ~P(x)
  BY <1>2
<1>4. \A y \in Seq(Symbols) : Len(y) < Len(x) => P(y)
  <2> TAKE y \in Seq(Symbols)
  <2> HAVE Len(y) < Len(x)
  <2>1. Len(y) \in Nat /\ n \in Nat /\ ~(n <= Len(y))
    BY <1>2, <1>3, LenProperties
  <2>2. Len(y) \notin S
    <3> HIDE DEF S
    <3> QED
      BY <1>2, <2>1
  <2> HIDE DEF P
  <2> QED
    BY <2>1, <2>2
<1> HIDE DEF S
<1>5. CASE NoNewline(x)
  <2>1. Cut(x) = [lines |-> <<>>, rest |-> x]
    BY <1>5, CutEquations
  <2>2. MethodsOf(ParseAll(<<>>)) = <<>>
    BY DEF ParseAll, MethodsOf
  <2>3. <<>> \o x = x
    BY ConcatEmptySeq
  <2>4. Thins(x, x)
    BY ThinsItself
  <2>5. Cut(x).lines = <<>> /\ Cut(x).rest = x
    BY <2>1
  <2>6. P(x)
    BY <2>2, <2>3, <2>4, <2>5
  <2> QED
    BY <1>3, <2>6
<1>6. ASSUME NEW e, FirstEnd(x, 1, e) PROVE FALSE
  <2>1. PICK l, y : l = SubSeq(x, 1, e - 1) /\ y = SubSeq(x, e + 1, Len(x))
    OBVIOUS
  <2>2. Len(x) \in Nat /\ e \in 1..Len(x) /\ e \in Nat /\ e >= 1 /\ x[e] = NL
    BY <1>6, LenProperties DEF FirstEnd
  <2>3. l \in Seq(Symbols) /\ y \in Seq(Symbols) /\ Len(y) < Len(x)
    <3>1. 1 \in Nat /\ 1 > 0 /\ e - 1 \in 0..Len(x) /\ e + 1 \in Nat /\ e + 1 > 0 /\ Len(x) \in 0..Len(x)
      BY <2>2
    <3>2. l \in Seq(Symbols) /\ y \in Seq(Symbols)
      BY <2>1, <3>1, PartType
    <3>3. Len(y) = IF e + 1 <= Len(x) THEN Len(x) - (e + 1) + 1 ELSE 0
      <4>1. \A j \in (e + 1)..Len(x) : x[j] \in Symbols
        <5> TAKE j \in (e + 1)..Len(x)
        <5>1. j \in 1..Len(x)
          BY <2>2
        <5> QED
          BY <5>1, ElementOfSeq
      <4> QED
        BY <2>1, <2>2, <4>1, SubSeqProperties
    <3> QED
      BY <2>2, <3>2, <3>3
  <2>4. x = (l \o <<NL>>) \o y
    <3>1. SubSeq(x, 1, e) = SubSeq(x, 1, e - 1) \o <<x[e]>>
      <4>1. 1 \in 1..Len(x) /\ e \in 1..Len(x)
        BY <2>2
      <4> QED
        BY <4>1, SubSeqRecursiveSecond
    <3>2. SubSeq(x, 1, e) \o SubSeq(x, e + 1, Len(x)) = SubSeq(x, 1, Len(x))
      <4>1. 1 \in 1..Len(x) + 1 /\ e \in 1 - 1..Len(x) /\ Len(x) \in e..Len(x)
        BY <2>2
      <4> QED
        BY <4>1, ConcatAdjacentSubSeq
    <3> QED
      BY <2>1, <2>2, <3>1, <3>2, SubSeqFull
  <2>5. Cut(x) = [lines |-> <<l>> \o Cut(y).lines, rest |-> Cut(y).rest]
    BY <1>6, <2>1, CutEquations
  <2>6. Cut(y).lines \in Seq(Seq(Symbols)) /\ Cut(y).rest \in Seq(Symbols)
    BY <2>3, CutEquations DEF Cuts
  <2>7. PICK ls \in Seq(Seq(Symbols)), rest \in Seq(Symbols) : ls = Cut(y).lines /\ rest = Cut(y).rest
    BY <2>6
  <2>8. Thins(MethodsOf(ParseAll(ls)) \o rest, y)
    BY <1>4, <2>3, <2>7
  <2>9. Thins(MethodsOf(ParseAll(<<l>> \o ls)) \o rest, (l \o <<NL>>) \o y)
    BY <2>3, <2>8, LineThinsToo
  <2>10. Cut(x).lines = <<l>> \o ls /\ Cut(x).rest = rest
    BY <2>5, <2>7
  <2>11. P(x)
    BY <2>4, <2>9, <2>10
  <2> QED
    BY <1>3, <2>11
<1> QED
  <2>1. x \in Seq(Symbols) /\ 1 \in Nat
    OBVIOUS
  <2> QED
    BY <1>5, <1>6, <2>1, NoEndOrFirst DEF NoNewline

(***************************************************************************)
(* Methods that are handled once, in order.                                *)
(***************************************************************************)
\* The methods that were taken, those in the buffer and those on the way are some of
\* those that were sent, in their order.
OrderInv == Thins(MethodsOf(taken) \o (m_CmdBuffer \o upstream), MethodsOf(sent))

LEMMA CommandIsParsed ==
  ASSUME NEW s \in Seq(Command)
  PROVE  s \in Seq(Parsed)
<1>1. Command \subseteq Parsed
  BY DEF Command, Parsed
<1> QED
  BY <1>1, SeqMonotonic

\* Concatenation with its definition hidden: that it is associative is all that the
\* two lemmas about regrouped sequences use.
Cat(a, b) == a \o b

LEMMA CatFacts ==
  /\ \A a, b \in Seq(Symbols) : Cat(a, b) \in Seq(Symbols)
  /\ \A a, b, c \in Seq(Symbols) : Cat(Cat(a, b), c) = Cat(a, Cat(b, c))
<1>1. ASSUME NEW a \in Seq(Symbols), NEW b \in Seq(Symbols) PROVE Cat(a, b) \in Seq(Symbols)
  BY ConcatProperties DEF Cat
<1>2. ASSUME NEW a \in Seq(Symbols), NEW b \in Seq(Symbols), NEW c \in Seq(Symbols)
      PROVE  Cat(Cat(a, b), c) = Cat(a, Cat(b, c))
  <2>1. (a \o b) \o c = a \o (b \o c)
    BY ConcatAssociative
  <2> QED
    BY <2>1 DEF Cat
<1> QED
  BY <1>1, <1>2

LEMMA ThinsCat ==
  \A a, b, c, d \in Seq(Symbols) : Thins(a, c) /\ Thins(b, d) => Thins(Cat(a, b), Cat(c, d))
BY ThinsConcat DEF Cat

\* More bytes behind, and their method behind those sent.
LEMMA SentBehind ==
  ASSUME NEW w \in Seq(Symbols), NEW buf \in Seq(Symbols), NEW up \in Seq(Symbols),
         NEW x \in Seq(Symbols), NEW ms \in Seq(Symbols), NEW m \in Seq(Symbols),
         Thins(x, m), Thins(Cat(w, Cat(buf, up)), ms)
  PROVE  Thins(Cat(w, Cat(buf, Cat(up, x))), Cat(ms, m))
<1>1. PICK y \in Seq(Symbols) : y = Cat(buf, up)
  BY CatFacts
<1>2. Cat(buf, Cat(up, x)) = Cat(y, x)
  BY <1>1, CatFacts
<1>3. PICK z \in Seq(Symbols) : z = Cat(w, y)
  BY CatFacts
<1>4. Cat(w, Cat(y, x)) = Cat(z, x)
  BY <1>3, CatFacts
<1>5. Thins(Cat(z, x), Cat(ms, m))
  BY <1>1, <1>3, ThinsCat
<1> QED
  BY <1>2, <1>4, <1>5

LEMMA SentThins ==
  ASSUME NEW w \in Seq(Symbols), NEW buf \in Seq(Symbols), NEW up \in Seq(Symbols),
         NEW x \in Seq(Symbols), NEW ms \in Seq(Symbols), NEW m \in Seq(Symbols),
         Thins(x, m)
  PROVE  Thins(w \o (buf \o up), ms) => Thins(w \o (buf \o (up \o x)), ms \o m)
BY SentBehind, Zenon DEF Cat

\* What is taken and what stays thins the bytes they come from.
LEMMA TakenBehind ==
  ASSUME NEW w \in Seq(Symbols), NEW q \in Seq(Symbols), NEW rest \in Seq(Symbols),
         NEW buf \in Seq(Symbols), NEW a \in Seq(Symbols), NEW c \in Seq(Symbols),
         NEW b \in Seq(Symbols), Thins(Cat(q, rest), Cat(buf, c)), Thins(c, a)
  PROVE  Thins(Cat(Cat(w, q), Cat(rest, b)), Cat(w, Cat(buf, Cat(a, b))))
<1>1. PICK l \in Seq(Symbols), r \in Seq(Symbols), s \in Seq(Symbols), t \in Seq(Symbols) :
        l = Cat(q, rest) /\ r = Cat(buf, c) /\ s = Cat(buf, a) /\ t = Cat(rest, b)
  BY CatFacts
<1>2. Cat(Cat(w, q), t) = Cat(w, Cat(q, t))
  BY CatFacts
<1>3. Cat(q, t) = Cat(l, b)
  BY <1>1, CatFacts
<1>4. Cat(buf, Cat(a, b)) = Cat(s, b)
  BY <1>1, CatFacts
<1>5. PICK lb \in Seq(Symbols), sb \in Seq(Symbols) : lb = Cat(l, b) /\ sb = Cat(s, b)
  BY CatFacts
<1>6. Thins(r, s)
  <2>1. Thins(buf, buf)
    BY ThinsItself
  <2> QED
    BY <1>1, <2>1, ThinsCat
<1>7. Thins(l, s)
  BY <1>1, <1>6, ThinsTransitive
<1>8. Thins(lb, sb)
  <2>1. Thins(b, b)
    BY ThinsItself
  <2> QED
    BY <1>5, <1>7, <2>1, ThinsCat
<1>9. Thins(Cat(w, lb), Cat(w, sb))
  <2>1. Thins(w, w)
    BY ThinsItself
  <2> QED
    BY <1>8, <2>1, ThinsCat
<1> QED
  BY <1>1, <1>2, <1>3, <1>4, <1>5, <1>9

LEMMA TakenThins ==
  ASSUME NEW w \in Seq(Symbols), NEW q \in Seq(Symbols), NEW rest \in Seq(Symbols),
         NEW buf \in Seq(Symbols), NEW a \in Seq(Symbols), NEW c \in Seq(Symbols),
         NEW b \in Seq(Symbols)
  PROVE  Thins(q \o rest, buf \o c) /\ Thins(c, a) =>
           Thins((w \o q) \o (rest \o b), w \o (buf \o (a \o b)))
BY TakenBehind, Zenon DEF Cat

LEMMA InitOrdered ==
  ASSUME Init
  PROVE  OrderInv
<1>1. MethodsOf(<<>>) = <<>>
  BY DEF MethodsOf
<1>2. PICK z \in Seq(Symbols) : z = <<>> /\ Places(z) = {}
  BY EmptySeq, NewlineIsNoPlace
<1>3. z \o (z \o z) = z
  BY <1>2, ConcatEmptySeq
<1>4. Thins(z, z)
  BY ThinsItself
<1> QED
  BY <1>1, <1>2, <1>3, <1>4 DEF Init, OrderInv

LEMMA SendOrdered ==
  ASSUME TypeOK, OrderInv, SendCommand
  PROVE  OrderInv'
<1>1. PICK cmd \in Command : /\ cmd = Head(todo) /\ sent' = Append(sent, cmd)
                             /\ upstream' = upstream \o (Encode(cmd) \o eol)
                             /\ eol \in {<<>>, <<NL>>} /\ Encode(cmd) \o eol \in Seq(Symbols)
  BY SendParts
<1>2. UNCHANGED <<m_CmdBuffer, taken>>
  BY DEF SendCommand, serverVars
<1>3. PICK x \in Seq(Symbols) : x = Encode(cmd) \o eol
  BY <1>1
<1>4. PICK buf \in Seq(Symbols), up \in Seq(Symbols), s \in Seq(Parsed), t \in Seq(Parsed) :
        buf = m_CmdBuffer /\ up = upstream /\ s = sent /\ t = taken
  BY CommandIsParsed DEF TypeOK
<1>5. PICK w \in Seq(Symbols), ms \in Seq(Symbols) : w = MethodsOf(t) /\ ms = MethodsOf(s)
  BY MethodsType
<1>6. cmd \in Parsed
  BY DEF Command, Parsed
<1>7. PICK one \in Seq(Parsed) : one = <<cmd>>
  BY <1>6, MethodsOfOne
<1>8. PICK m \in Seq(Symbols) : m = MethodsOf(one)
  BY MethodsType
<1>9. Thins(x, m)
  BY <1>1, <1>3, <1>7, <1>8, CommandThins
<1>10. MethodsOf(sent') = ms \o m
  <2>1. sent' = s \o one
    BY <1>1, <1>4, <1>6, <1>7, AppendIsConcat
  <2> QED
    BY <1>5, <1>8, <2>1, MethodsConcat
<1>11. Thins(w \o (buf \o up), ms)
  BY <1>4, <1>5 DEF OrderInv
<1>12. Thins(w \o (buf \o (up \o x)), ms \o m)
  BY <1>9, <1>11, SentThins
<1> QED
  BY <1>1, <1>2, <1>3, <1>4, <1>5, <1>10, <1>12 DEF OrderInv

LEMMA ReceiveOrdered ==
  ASSUME TypeOK, OrderInv, Receive
  PROVE  OrderInv'
<1>1. PICK k, cut :
        /\ k \in 1..Len(upstream)
        /\ cut = Cut(m_CmdBuffer \o CString(SubSeq(upstream, 1, k)))
        /\ upstream' = SubSeq(upstream, k + 1, Len(upstream))
        /\ m_CmdBuffer' = cut.rest
        /\ taken' = taken \o ParseAll(cut.lines)
  BY DEF Receive
<1>2. UNCHANGED sent
  BY DEF Receive
<1>3. PICK buf \in Seq(Symbols), up \in Seq(Symbols), t \in Seq(Parsed), s \in Seq(Parsed) :
        buf = m_CmdBuffer /\ up = upstream /\ t = taken /\ s = sent
  BY CommandIsParsed DEF TypeOK
<1>4. PICK a, b : a = SubSeq(up, 1, k) /\ b = SubSeq(up, k + 1, Len(up))
  OBVIOUS
<1>5. a \in Seq(Symbols) /\ b \in Seq(Symbols) /\ up = a \o b
  <2>1. k \in 1..Len(up)
    BY <1>1, <1>3
  <2> QED
    BY <1>4, <2>1, ReceiveParts
<1>6. PICK c \in Seq(Symbols) : c = CString(a) /\ Thins(c, a)
  BY <1>5, CStringThins
<1>7. PICK x \in Seq(Symbols) : x = buf \o c
  BY ConcatProperties
<1>8. cut = Cut(x) /\ upstream' = b
  BY <1>1, <1>3, <1>4, <1>6, <1>7
<1>9. cut.lines \in Seq(Seq(Symbols)) /\ cut.rest \in Seq(Symbols)
  BY <1>8, CutEquations DEF Cuts
<1>10. PICK p \in Seq(Parsed), rest \in Seq(Symbols) : p = ParseAll(cut.lines) /\ rest = cut.rest
  BY <1>9, ParseAllFacts
<1>11. PICK w \in Seq(Symbols), q \in Seq(Symbols), ms \in Seq(Symbols) : /\ w = MethodsOf(t) /\ q = MethodsOf(p)
                                                          /\ ms = MethodsOf(s)
  BY MethodsType
<1>12. MethodsOf(taken') = w \o q
  BY <1>1, <1>3, <1>10, <1>11, MethodsConcat
<1>13. Thins(q \o rest, x)
  BY <1>8, <1>10, <1>11, CutThins
<1>14. Thins((w \o q) \o (rest \o b), w \o (buf \o (a \o b)))
  BY <1>5, <1>6, <1>7, <1>13, TakenThins
<1>15. Thins(w \o (buf \o (a \o b)), ms)
  BY <1>3, <1>5, <1>11 DEF OrderInv
<1>16. Thins((w \o q) \o (rest \o b), ms)
  BY <1>14, <1>15, ThinsTransitive
<1> QED
  BY <1>1, <1>2, <1>3, <1>8, <1>10, <1>11, <1>12, <1>16 DEF OrderInv

LEMMA NextOrdered ==
  ASSUME TypeOK, OrderInv, [Next]_vars
  PROVE  OrderInv'
<1>1. CASE SendCommand
  BY <1>1, SendOrdered
<1>2. CASE ReadLineFromSocket
  BY <1>2 DEF ReadLineFromSocket, serverVars, OrderInv
<1>3. CASE Receive
  BY <1>3, ReceiveOrdered
<1>4. CASE ProcessCommands
  BY <1>4 DEF ProcessCommands, clientVars, OrderInv
<1>5. CASE ProcessDies
  BY <1>5 DEF ProcessDies, clientVars, OrderInv
<1>6. CASE UNCHANGED vars
  BY <1>6 DEF vars, clientVars, serverVars, OrderInv
<1> QED
  BY <1>1, <1>2, <1>3, <1>4, <1>5, <1>6 DEF Next

LEMMA OrderedIsOnce ==
  ASSUME TypeOK, OrderInv
  PROVE  AtMostOnceInOrder
<1>1. PICK t \in Seq(Parsed), s \in Seq(Parsed), y \in Seq(Symbols) :
        t = taken /\ s = sent /\ y = m_CmdBuffer \o upstream
  <2>1. m_CmdBuffer \o upstream \in Seq(Symbols)
    BY ConcatProperties DEF TypeOK
  <2> QED
    BY <2>1, CommandIsParsed DEF TypeOK
<1>2. PICK w \in Seq(Symbols), ms \in Seq(Symbols) : w = MethodsOf(t) /\ ms = MethodsOf(s)
  BY MethodsType
<1>3. /\ Len(w) = Len(t) /\ \A i \in 1..Len(t) : w[i] = t[i].method /\ t[i] \in Parsed
      /\ Len(ms) = Len(s) /\ \A i \in 1..Len(s) : ms[i] = s[i].method
  BY <1>2, MethodsType
<1>4. Len(t) \in Nat /\ DOMAIN t = 1..Len(t) /\ Len(s) \in Nat /\ DOMAIN s = 1..Len(s) /\ Len(y) \in Nat
  BY LenProperties
<1>5. PICK h : Thinning(w \o y, ms, h)
  BY <1>1, <1>2 DEF OrderInv, Thins
<1>6. PICK done : done = {i \in DOMAIN taken : taken[i].method # NONE}
  OBVIOUS
<1>7. \A i \in done : i \in 1..Len(t) /\ i \in Places(w \o y) /\ (w \o y)[i] = t[i].method
  <2> TAKE i \in done
  <2>1. i \in 1..Len(t) /\ t[i].method # NONE
    BY <1>1, <1>4, <1>6
  <2>2. t[i].method \in Methods
    BY <1>3, <2>1 DEF Parsed
  <2>3. i \in 1..Len(w) /\ w[i] = t[i].method
    BY <1>3, <2>1
  <2>4. i \in Places(w)
    BY <2>2, <2>3 DEF Places
  <2>5. i \in 1..(Len(w) + Len(y)) /\ i <= Len(w)
    BY <1>3, <1>4, <2>3
  <2>6. i \in Places(w \o y) /\ (w \o y)[i] = w[i]
    BY <2>4, <2>5, PlacesOfConcat
  <2> QED
    BY <2>1, <2>3, <2>6
<1>8. \A i \in done : h[i] \in DOMAIN sent /\ sent[h[i]].method = taken[i].method
  <2> TAKE i \in done
  <2>1. i \in Places(w \o y) /\ (w \o y)[i] = t[i].method
    BY <1>7
  <2>2. h[i] \in Places(ms) /\ ms[h[i]] = t[i].method
    BY <1>5, <2>1 DEF Thinning
  <2>3. h[i] \in 1..Len(s)
    BY <1>3, <2>2 DEF Places
  <2>4. ms[h[i]] = s[h[i]].method
    BY <1>3, <2>3
  <2> QED
    BY <1>1, <1>4, <2>2, <2>3, <2>4
<1>9. \A i, j \in done : i < j => h[i] < h[j]
  BY <1>5, <1>7 DEF Thinning
<1> DEFINE f == [i \in done |-> h[i]]
<1>10. /\ f \in [done -> DOMAIN sent]
       /\ \A i, j \in done : i < j => f[i] < f[j]
       /\ \A i \in done : sent[f[i]].method = taken[i].method
  BY <1>8, <1>9
<1> HIDE DEF f
<1> QED
  BY <1>6, <1>10 DEF AtMostOnceInOrder

\* Whatever the ids, the line ends and the reads, every method handled is one that was
\* sent, none is handled twice, and they are handled in order (update_rx and
\* recvCBRoutine, SocketTransport.cpp:341-359).
THEOREM HandledOnceInOrder == Spec => []AtMostOnceInOrder
<1>1. Init => TypeOK /\ OrderInv
  BY InitType, InitOrdered
<1>2. TypeOK /\ OrderInv /\ [Next]_vars => TypeOK' /\ OrderInv'
  BY NextType, NextOrdered
<1>3. TypeOK /\ OrderInv => AtMostOnceInOrder
  BY OrderedIsOnce
<1> QED
  BY <1>1, <1>2, <1>3, PTL DEF Spec
===============================================================================
