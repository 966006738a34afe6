--------------------------- MODULE ClientSocketProofs ---------------------------
(***************************************************************************)
(* Theorems about ClientSocket, for every set of bytes, every buffer       *)
(* length, every timeout and all bounds, however the server and the calls  *)
(* of the client interleave.                                               *)
(***************************************************************************)
EXTENDS ClientSocket, SequenceTheorems, TLAPS

(***************************************************************************)
(* The inductive invariant.                                                *)
(***************************************************************************)
\* Nothing waits on a connection that there is not or that was reset, and a socket
\* that is not connected has none.
LinkInv ==
  /\ link \in {"none", "rst"} => inq = <<>>
  /\ m_ClientSock # "connected" => link = "none"

\* While readLine runs the characters of the line come first in the buffer, none of
\* them ends a line, and NULs follow.
BufferInv ==
  pc = "read" =>
    /\ \A i \in 1..numRead : rcvBuffer[i] \in Bytes \ LineEnds
    /\ \A i \in (numRead + 1)..BufferLength : rcvBuffer[i] = NUL

\* The pauses made and those left are less than a timeout before the first
\* character and less than two after it.
WaitInv ==
  /\ pc = "read" => /\ timeout_us > 0
                    /\ slept + timeout_us <= IF firstChar THEN 2 * Timeout - 1 ELSE Timeout
  /\ slept <= 2 * Timeout - 1

\* Behind the line that was returned the buffer is all NUL, nothing of an earlier
\* line and no line end: readLineFromSocket makes a string of the whole buffer
\* (client.cpp:47).
NothingBehindLine ==
  pc # "read" /\ line.ok =>
    \A i \in 1..BufferLength :
      rcvBuffer[i] = IF i <= Len(line.text) THEN line.text[i] ELSE NUL

\* Everything above, with the types and LostWhenRead; every step preserves it.
IndInv == TypeOK /\ LinkInv /\ BufferInv /\ WaitInv /\ LostWhenRead /\ NothingBehindLine

(***************************************************************************)
(* Facts about sequences.                                                  *)
(***************************************************************************)
\* What has been read of a buffer is a sequence of what it holds.
LEMMA Held ==
  ASSUME NEW S, NEW f, NEW n \in Nat, \A i \in 1..n : f[i] \in S
  PROVE  /\ SubSeq(f, 1, n) \in Seq(S) /\ Len(SubSeq(f, 1, n)) = n
         /\ \A i \in 1..n : SubSeq(f, 1, n)[i] = f[i]
<1>1. /\ SubSeq(f, 1, n) \in Seq(S)
      /\ Len(SubSeq(f, 1, n)) = IF 1 <= n THEN n - 1 + 1 ELSE 0
      /\ \A i \in 1..(n - 1 + 1) : SubSeq(f, 1, n)[i] = f[1 + i - 1]
  BY SubSeqProperties
<1> QED
  BY <1>1

\* A concatenation is cut where its parts meet.
LEMMA CutConcat ==
  ASSUME NEW S, NEW h \in Seq(S), NEW q \in Seq(S)
  PROVE  /\ SubSeq(h \o q, 1, Len(h)) = h
         /\ SubSeq(h \o q, Len(h) + 1, Len(h \o q)) = q
<1> DEFINE s == h \o q
<1>1. /\ s \in Seq(S) /\ Len(s) = Len(h) + Len(q) /\ Len(h) \in Nat /\ Len(q) \in Nat
      /\ \A i \in 1..(Len(h) + Len(q)) : s[i] = IF i <= Len(h) THEN h[i] ELSE q[i - Len(h)]
  BY ConcatProperties, LenProperties
<1>3. \A i \in 1..Len(s) : s[i] \in S
  BY <1>1, ElementOfSeq
<1> HIDE DEF s
<1>2. ASSUME NEW m \in Int, NEW n \in Int, \A i \in m..n : s[i] \in S
      PROVE  /\ SubSeq(s, m, n) \in Seq(S)
             /\ Len(SubSeq(s, m, n)) = IF m <= n THEN n - m + 1 ELSE 0
             /\ \A i \in 1..(n - m + 1) : SubSeq(s, m, n)[i] = s[m + i - 1]
  BY <1>2, SubSeqProperties
<1>4. SubSeq(s, 1, Len(h)) = h
  <2>1. /\ SubSeq(s, 1, Len(h)) \in Seq(S) /\ Len(SubSeq(s, 1, Len(h))) = Len(h)
        /\ \A i \in 1..Len(h) : SubSeq(s, 1, Len(h))[i] = h[i]
    BY <1>1, <1>2, <1>3
  <2> QED
    BY <2>1, SeqEqual
<1>5. SubSeq(s, Len(h) + 1, Len(s)) = q
  <2>0. ASSUME NEW i \in 1..Len(q)
        PROVE  Len(h) + i \in 1..Len(s) /\ s[Len(h) + 1 + i - 1] = q[i]
    <3>1. Len(h) + i \in 1..(Len(h) + Len(q)) /\ ~(Len(h) + i <= Len(h))
      BY <1>1
    <3>2. Len(h) + 1 + i - 1 = Len(h) + i /\ Len(h) + i - Len(h) = i
      BY <1>1
    <3> QED
      BY <1>1, <3>1, <3>2
  <2>2. \A i \in (Len(h) + 1)..Len(s) : s[i] \in S
    BY <1>1, <1>3
  <2>3. /\ SubSeq(s, Len(h) + 1, Len(s)) \in Seq(S)
        /\ Len(SubSeq(s, Len(h) + 1, Len(s))) =
             IF Len(h) + 1 <= Len(s) THEN Len(s) - (Len(h) + 1) + 1 ELSE 0
        /\ \A i \in 1..(Len(s) - (Len(h) + 1) + 1) :
             SubSeq(s, Len(h) + 1, Len(s))[i] = s[Len(h) + 1 + i - 1]
    BY <1>1, <1>2, <2>2
  <2>4. Len(s) - (Len(h) + 1) + 1 = Len(q)
    BY <1>1
  <2>1. /\ SubSeq(s, Len(h) + 1, Len(s)) \in Seq(S)
        /\ Len(SubSeq(s, Len(h) + 1, Len(s))) = Len(q)
        /\ \A i \in 1..Len(q) : SubSeq(s, Len(h) + 1, Len(s))[i] = q[i]
    BY <1>1, <2>0, <2>3, <2>4
  <2> QED
    BY <2>1, SeqEqual
<1> QED
  BY <1>4, <1>5 DEF s

\* One more character is moved from the queue to what has been read.
LEMMA MoveOne ==
  ASSUME NEW S, NEW h \in Seq(S), NEW q \in Seq(S), q # <<>>
  PROVE  /\ Append(h, Head(q)) \in Seq(S) /\ Len(Append(h, Head(q))) = Len(h) + 1
         /\ h \o q = Append(h, Head(q)) \o Tail(q)
         /\ (h \o q)[Len(h) + 1] = Head(q)
<1> DEFINE a == Append(h, Head(q))
<1>1. /\ Head(q) \in S /\ Tail(q) \in Seq(S) /\ Len(Tail(q)) = Len(q) - 1
      /\ \A i \in 1..Len(Tail(q)) : Tail(q)[i] = q[i + 1]
  BY HeadTailProperties
<1>2. Len(h) \in Nat /\ Len(q) \in Nat \ {0} /\ Head(q) = q[1]
  BY LenProperties, EmptySeq
<1>3. /\ a \in Seq(S) /\ Len(a) = Len(h) + 1
      /\ \A i \in 1..Len(h) : a[i] = h[i]
      /\ a[Len(h) + 1] = Head(q)
  BY <1>1, AppendProperties
<1> HIDE DEF a
<1>4. /\ h \o q \in Seq(S) /\ Len(h \o q) = Len(h) + Len(q)
      /\ \A i \in 1..(Len(h) + Len(q)) :
           (h \o q)[i] = IF i <= Len(h) THEN h[i] ELSE q[i - Len(h)]
  BY ConcatProperties
<1>5. /\ a \o Tail(q) \in Seq(S) /\ Len(a \o Tail(q)) = Len(a) + Len(Tail(q))
      /\ \A i \in 1..(Len(a) + Len(Tail(q))) :
           (a \o Tail(q))[i] = IF i <= Len(a) THEN a[i] ELSE Tail(q)[i - Len(a)]
  BY <1>1, <1>3, ConcatProperties
<1>6. Len(h \o q) = Len(a \o Tail(q))
  BY <1>1, <1>2, <1>3, <1>4, <1>5
<1>7. ASSUME NEW i \in 1..Len(h \o q) PROVE (h \o q)[i] = (a \o Tail(q))[i]
  <2>0. i \in 1..(Len(h) + Len(q))
    BY <1>4
  <2>1. CASE i <= Len(h)
    BY <2>0, <2>1, <1>1, <1>2, <1>3, <1>4, <1>5
  <2>2. CASE i = Len(h) + 1
    BY <2>0, <2>2, <1>1, <1>2, <1>3, <1>4, <1>5
  <2>3. CASE i > Len(h) + 1
    <3>1. i - Len(h) - 1 \in 1..Len(Tail(q)) /\ ~(i <= Len(h)) /\ ~(i <= Len(h) + 1)
      BY <2>0, <2>3, <1>1, <1>2
    <3>2. (h \o q)[i] = q[i - Len(h)]
      BY <2>0, <3>1, <1>4
    <3>3. i \in 1..(Len(a) + Len(Tail(q)))
      BY <2>0, <1>1, <1>2, <1>3
    <3>4. (a \o Tail(q))[i] = Tail(q)[i - Len(a)]
      BY <3>1, <3>3, <1>3, <1>5
    <3>5. Tail(q)[i - Len(h) - 1] = q[(i - Len(h) - 1) + 1]
      BY <3>1, <1>1
    <3>6. i - Len(a) = i - Len(h) - 1 /\ (i - Len(h) - 1) + 1 = i - Len(h)
      BY <2>0, <1>2, <1>3
    <3> QED
      BY <3>2, <3>4, <3>5, <3>6
  <2>4. i <= Len(h) \/ i = Len(h) + 1 \/ i > Len(h) + 1
    BY <2>0, <1>2
  <2> QED
    BY <2>1, <2>2, <2>3, <2>4
<1>8. h \o q = a \o Tail(q)
  BY <1>4, <1>5, <1>6, <1>7, SeqEqual
<1>9. (h \o q)[Len(h) + 1] = Head(q)
  BY <1>2, <1>4
<1> QED
  BY <1>3, <1>8, <1>9 DEF a

\* A character is written behind what has been read of a buffer.
LEMMA WriteOne ==
  ASSUME NEW S, NEW L \in Nat, NEW f, DOMAIN f = 1..L, NEW n \in Nat, n < L,
         \A i \in 1..n : f[i] \in S, NEW b \in S
  PROVE  SubSeq([f EXCEPT ![n + 1] = b], 1, n + 1) = Append(SubSeq(f, 1, n), b)
<1> DEFINE g == [f EXCEPT ![n + 1] = b]
           h == SubSeq(f, 1, n)
<1>1. g[n + 1] = b /\ \A i \in 1..n : g[i] = f[i]
  OBVIOUS
<1>2. h \in Seq(S) /\ Len(h) = n /\ \A i \in 1..n : h[i] = f[i]
  BY Held
<1> HIDE DEF g
<1>3. \A i \in 1..(n + 1) : g[i] \in S
  BY <1>1
<1>4. /\ SubSeq(g, 1, n + 1) \in Seq(S) /\ Len(SubSeq(g, 1, n + 1)) = n + 1
      /\ \A i \in 1..(n + 1) : SubSeq(g, 1, n + 1)[i] = g[i]
  BY <1>3, Held
<1> HIDE DEF h
<1>5. /\ Append(h, b) \in Seq(S) /\ Len(Append(h, b)) = n + 1
      /\ \A i \in 1..n : Append(h, b)[i] = h[i]
      /\ Append(h, b)[n + 1] = b
  BY <1>2, AppendProperties
<1>6. \A i \in 1..(n + 1) : SubSeq(g, 1, n + 1)[i] = Append(h, b)[i]
  BY <1>1, <1>2, <1>4, <1>5
<1>7. SubSeq(g, 1, n + 1) = Append(h, b)
  BY <1>4, <1>5, <1>6, SeqEqual
<1> QED
  BY <1>7 DEF g, h

(***************************************************************************)
(* The invariant, one lemma for each kind of step.                         *)
(***************************************************************************)
\* While readLine runs there is a place for the next character.
LEMMA Place ==
  ASSUME IndInv, pc = "read"
  PROVE  /\ numRead \in Nat /\ numRead < BufferLength
         /\ rcvBuffer \in [1..BufferLength -> Bytes \cup {NUL}]
         /\ \A i \in 1..numRead : rcvBuffer[i] \in Bytes \ LineEnds
         /\ \A i \in (numRead + 1)..BufferLength : rcvBuffer[i] = NUL
         /\ timeout_us \in 1..Timeout /\ slept \in Nat /\ Timeout \in Nat \ {0}
         /\ slept + timeout_us <= IF firstChar THEN 2 * Timeout - 1 ELSE Timeout
<1>1. numRead \in -1..BufferLength /\ numRead + 1 \in DOMAIN rcvBuffer
  BY DEF IndInv, TypeOK
<1>2. rcvBuffer \in [1..BufferLength -> Bytes \cup {NUL}] /\ DOMAIN rcvBuffer = 1..BufferLength
  BY DEF IndInv, TypeOK
<1>3. numRead + 1 \in 1..BufferLength
  BY <1>1, <1>2
<1>4. numRead \in Nat /\ numRead < BufferLength
  BY <1>1, <1>3, ReadAssumption
<1>5. timeout_us \in 1..Timeout /\ slept \in Nat /\ Timeout \in Nat \ {0}
  BY ReadAssumption DEF IndInv, TypeOK, WaitInv
<1> QED
  BY <1>2, <1>4, <1>5 DEF IndInv, BufferInv, WaitInv

\* An empty answer has the type of one.
LEMMA NoText == \A b \in BOOLEAN : [ok |-> b, text |-> <<>>] \in [ok : BOOLEAN, text : Seq(Bytes)]
<1>1. <<>> \in Seq(Bytes)
  BY EmptySeq
<1> QED
  BY <1>1

\* The client begins without a socket, a connection or a line.
LEMMA InvInit == Init => IndInv
<1> SUFFICES ASSUME Init PROVE IndInv
  OBVIOUS
<1> USE ReadAssumption, BoundsAssumption
<1>1. TypeOK
  <2>1. inq \in Seq(Bytes) /\ line \in [ok : BOOLEAN, text : Seq(Bytes)]
    BY EmptySeq, NoText DEF Init, Reader!NoLine
  <2>2. rcvBuffer \in [1..BufferLength -> Bytes \cup {NUL}]
    BY DEF Init, ZeroBuffer
  <2>3. sent \in 0..MaxSent /\ opens \in 0..MaxOpens /\ timeout_us \in 0..Timeout
    BY DEF Init
  <2>4. numRead \in -1..BufferLength /\ pc = "new" /\ slept \in Nat
    BY DEF Init
  <2> QED
    BY <2>1, <2>2, <2>3, <2>4 DEF Init, TypeOK
<1>2. LinkInv /\ BufferInv /\ WaitInv /\ LostWhenRead /\ NothingBehindLine
  BY DEF Init, LinkInv, BufferInv, WaitInv, LostWhenRead, NothingBehindLine, Reader!NoLine
<1> QED
  BY <1>1, <1>2 DEF IndInv

\* The server sends, closes or resets.
LEMMA InvPeer ==
  ASSUME IndInv, (\E b \in Bytes : Send(b)) \/ Close
  PROVE  IndInv'
<1> USE ReadAssumption, BoundsAssumption
<1>1. TypeOK'
  <2>1. inq' \in Seq(Bytes) /\ sent' \in 0..MaxSent /\ link' \in {"none", "up", "fin", "rst"}
    <3>1. ASSUME NEW b \in Bytes, Send(b) PROVE inq' \in Seq(Bytes) /\ sent' \in 0..MaxSent
      BY <3>1, AppendProperties DEF IndInv, TypeOK, Send
    <3>2. CASE Close
      BY <3>2, EmptySeq DEF IndInv, TypeOK, Close
    <3> QED
      BY <3>1, <3>2 DEF IndInv, TypeOK, Send
  <2>2. UNCHANGED <<sockVars, pc, readVars, line, slept>>
    BY DEF Send, Close
  <2> QED
    BY <2>1, <2>2 DEF IndInv, TypeOK, sockVars, readVars
<1>2. (LinkInv /\ LostWhenRead)'
  BY DEF IndInv, LinkInv, LostWhenRead, Send, Close, sockVars, readVars
<1>3. (BufferInv /\ WaitInv /\ NothingBehindLine)'
  BY DEF IndInv, BufferInv, WaitInv, NothingBehindLine, Send, Close, sockVars, readVars
<1> QED
  BY <1>1, <1>2, <1>3 DEF IndInv

\* The client connects, reconnects, closes, or sends.
LEMMA InvClient ==
  ASSUME IndInv, InitClient \/ ResetConnection \/ CloseConnection \/ SendData
  PROVE  IndInv'
<1> USE ReadAssumption, BoundsAssumption
       DEF InitClient, ResetConnection, Reconnect, CloseConnection, SendData,
           peerVars, sockVars, readVars
<1>1. TypeOK'
  <2>1. inq' \in Seq(Bytes)
    BY EmptySeq DEF IndInv, TypeOK
  <2>2. UNCHANGED <<readVars, line, slept>> /\ pc' \in {"idle", "dead"} /\ sent' = sent
    BY DEF IndInv, TypeOK
  <2>3. /\ opens' \in 0..MaxOpens /\ link' \in {"none", "up", "fin", "rst"}
        /\ m_ClientSock' \in {"INVALID", "unconnected", "connected"}
        /\ m_ConnectionState' \in {"NO_CONNECTION", "CONNECTED"}
    BY DEF IndInv, TypeOK
  <2> QED
    BY <2>1, <2>2, <2>3 DEF IndInv, TypeOK
<1>2. (LinkInv /\ LostWhenRead)'
  BY DEF IndInv, LinkInv, LostWhenRead
<1>3. (BufferInv /\ WaitInv /\ NothingBehindLine)'
  <2>1. UNCHANGED <<rcvBuffer, line, slept>> /\ pc # "read" /\ pc' # "read"
    OBVIOUS
  <2> QED
    BY <2>1 DEF IndInv, BufferInv, WaitInv, NothingBehindLine
<1> QED
  BY <1>1, <1>2, <1>3 DEF IndInv

\* readLine begins, with an empty buffer.
LEMMA InvCall ==
  ASSUME IndInv, NEW stop \in BOOLEAN, CallReadLine(stop)
  PROVE  IndInv'
<1> USE ReadAssumption, BoundsAssumption
       DEF CallReadLine, peerVars, sockVars
<1>1. TypeOK'
  <2>1. numRead' = 0 /\ rcvBuffer' = [i \in 1..BufferLength |-> NUL]
    BY DEF ZeroBuffer
  <2>2. /\ numRead' \in -1..BufferLength /\ numRead' + 1 \in DOMAIN rcvBuffer'
        /\ rcvBuffer' \in [1..BufferLength -> Bytes \cup {NUL}]
        /\ timeout_us' \in 0..Timeout /\ slept' \in Nat
    BY <2>1
  <2> QED
    BY <2>2 DEF IndInv, TypeOK
<1>2. (LinkInv /\ LostWhenRead)'
  BY DEF IndInv, LinkInv, LostWhenRead
<1>3. (BufferInv /\ WaitInv /\ NothingBehindLine)'
  BY DEF IndInv, BufferInv, WaitInv, NothingBehindLine, ZeroBuffer
<1> QED
  BY <1>1, <1>2, <1>3 DEF IndInv

\* A line end is read: what has been read is the line.
LEMMA InvLineEnd ==
  ASSUME IndInv, ReadLineEnd
  PROVE  IndInv'
<1> USE ReadAssumption, BoundsAssumption
       DEF ReadLineEnd, Reading, Return, Restarted, sockVars
<1> DEFINE text == SubSeq(rcvBuffer, 1, numRead)
<1>1. /\ numRead \in Nat /\ numRead < BufferLength
      /\ \A i \in 1..numRead : rcvBuffer[i] \in Bytes
      /\ \A i \in (numRead + 1)..BufferLength : rcvBuffer[i] = NUL
      /\ rcvBuffer \in [1..BufferLength -> Bytes \cup {NUL}]
  BY Place
<1>2. text \in Seq(Bytes) /\ Len(text) = numRead /\ \A i \in 1..numRead : text[i] = rcvBuffer[i]
  BY <1>1, Held
<1>3. Tail(inq) \in Seq(Bytes)
  BY HeadTailProperties DEF IndInv, TypeOK
<1> HIDE DEF text
<1>4. line' = [ok |-> TRUE, text |-> text]
  BY DEF text
<1>5. TypeOK'
  BY <1>1, <1>2, <1>3, <1>4 DEF IndInv, TypeOK
<1>6. (LinkInv /\ LostWhenRead)'
  BY DEF IndInv, LinkInv, LostWhenRead
<1>7. (BufferInv /\ WaitInv)'
  BY DEF IndInv, TypeOK, BufferInv, WaitInv
<1>8. NothingBehindLine'
  BY <1>1, <1>2, <1>4 DEF NothingBehindLine
<1> QED
  BY <1>5, <1>6, <1>7, <1>8 DEF IndInv

\* Any other character is read: it is added, or it fills the buffer.
LEMMA InvChar ==
  ASSUME IndInv, ReadChar
  PROVE  IndInv'
<1> USE ReadAssumption, BoundsAssumption
       DEF ReadChar, Reading, Return, Restarted, EndOfTurn, Fits, sockVars
<1>1. /\ numRead \in Nat /\ numRead < BufferLength
      /\ \A i \in 1..numRead : rcvBuffer[i] \in Bytes \ LineEnds
      /\ \A i \in (numRead + 1)..BufferLength : rcvBuffer[i] = NUL
      /\ rcvBuffer \in [1..BufferLength -> Bytes \cup {NUL}]
  BY Place
<1>2. Head(inq) \in Bytes \ LineEnds /\ Tail(inq) \in Seq(Bytes)
  BY HeadTailProperties DEF IndInv, TypeOK
<1>3. /\ rcvBuffer' \in [1..BufferLength -> Bytes \cup {NUL}]
      /\ \A i \in 1..(numRead + 1) : rcvBuffer'[i] \in Bytes \ LineEnds
      /\ \A i \in (numRead + 2)..BufferLength : rcvBuffer'[i] = NUL
  BY <1>1, <1>2
<1>4. Restarted \in 1..Timeout /\ numRead' = numRead + 1 /\ timeout_us' = Restarted
  BY Place
<1>5. ~Fits(numRead + 1) =>
        /\ numRead + 1 = BufferLength
        /\ rcvBuffer' \in Seq(Bytes) /\ Len(rcvBuffer') = BufferLength
        /\ line' = [ok |-> TRUE, text |-> rcvBuffer'] /\ pc' = "idle"
  <2> SUFFICES ASSUME ~Fits(numRead + 1)
               PROVE  /\ numRead + 1 = BufferLength
                      /\ rcvBuffer' \in Seq(Bytes) /\ Len(rcvBuffer') = BufferLength
                      /\ line' = [ok |-> TRUE, text |-> rcvBuffer'] /\ pc' = "idle"
    OBVIOUS
  <2>1. numRead + 1 = BufferLength
    BY <1>1
  <2>2. rcvBuffer' \in [1..BufferLength -> Bytes]
    BY <1>3, <2>1
  <2>3. rcvBuffer' \in Seq(Bytes) /\ Len(rcvBuffer') = BufferLength
    <3>1. BufferLength \in Nat
      OBVIOUS
    <3> HIDE DEF ReadChar
    <3> QED
      BY <2>2, <3>1, LenProperties
  <2>4. line' = [ok |-> TRUE, text |-> rcvBuffer'] /\ pc' = "idle"
    OBVIOUS
  <2> QED
    BY <2>1, <2>3, <2>4
<1>6. Fits(numRead + 1) => UNCHANGED <<pc, line>>
  BY <1>4
<1>7. TypeOK'
  <2>1. CASE Fits(numRead + 1)
    BY <2>1, <1>1, <1>2, <1>3, <1>4, <1>6 DEF IndInv, TypeOK
  <2>2. CASE ~Fits(numRead + 1)
    BY <2>2, <1>1, <1>2, <1>3, <1>4, <1>5 DEF IndInv, TypeOK
  <2> QED
    BY <2>1, <2>2
<1>8. (LinkInv /\ LostWhenRead)'
  BY DEF IndInv, LinkInv, LostWhenRead
<1>9. BufferInv'
  BY <1>1, <1>3, <1>4 DEF BufferInv
<1>10. WaitInv'
  BY <1>4 DEF IndInv, TypeOK, WaitInv
<1>11. NothingBehindLine'
  BY <1>1, <1>3, <1>5, <1>6 DEF NothingBehindLine
<1> QED
  BY <1>7, <1>8, <1>9, <1>10, <1>11 DEF IndInv

\* Nothing is read: a pause, or the end of the call.
LEMMA InvNothing ==
  ASSUME IndInv, ReadAgain \/ ReadEof \/ ReadError \/ ReadInterrupted
  PROVE  IndInv'
<1> USE ReadAssumption, BoundsAssumption
       DEF ReadAgain, ReadEof, ReadError, ReadInterrupted, Reading, Return, EndOfTurn, Pause,
           peerVars, sockVars, readVars
<1>0. /\ numRead \in Nat /\ numRead < BufferLength
      /\ rcvBuffer \in [1..BufferLength -> Bytes \cup {NUL}]
      /\ timeout_us \in 1..Timeout /\ slept \in Nat /\ timeout_us - 1 \in 0..Timeout
  BY Place
<1>1. TypeOK'
  <2>1. line' \in [ok : BOOLEAN, text : Seq(Bytes)]
    BY NoText DEF IndInv, TypeOK
  <2>2. numRead' \in -1..BufferLength /\ (pc' = "read" => numRead' + 1 \in DOMAIN rcvBuffer')
    BY <1>0
  <2>3. timeout_us' \in 0..Timeout /\ slept' \in Nat
    BY <1>0
  <2> QED
    BY <2>1, <2>2, <2>3 DEF IndInv, TypeOK
<1>2. (LinkInv /\ LostWhenRead)'
  BY DEF IndInv, LinkInv, LostWhenRead
<1>3. BufferInv'
  BY DEF IndInv, BufferInv
<1>4. WaitInv'
  BY DEF IndInv, TypeOK, WaitInv
<1>5. NothingBehindLine'
  <2> SUFFICES ASSUME pc' # "read", line'.ok
               PROVE  /\ line'.text = <<>>
                      /\ \A i \in 1..BufferLength : rcvBuffer[i] = NUL
    <3>1. rcvBuffer' = rcvBuffer /\ Len(<<>>) = 0
      OBVIOUS
    <3> QED
      BY <3>1 DEF NothingBehindLine
  <2>1. pc = "read" /\ rcvBuffer' = rcvBuffer
    OBVIOUS
  <2>2. line' = [ok |-> (numRead = 0), text |-> <<>>] \/ line' = [ok |-> FALSE, text |-> <<>>]
    BY <1>0
  <2> HIDE DEF ReadAgain, ReadEof, ReadError, ReadInterrupted
  <2>3. CASE line' = [ok |-> (numRead = 0), text |-> <<>>]
    <3>1. numRead = 0 /\ line'.text = <<>>
      BY <2>3
    <3> QED
      BY <3>1, <2>1, Place
  <2>4. CASE line' = [ok |-> FALSE, text |-> <<>>]
    BY <2>4
  <2> QED
    BY <2>2, <2>3, <2>4
<1> QED
  BY <1>1, <1>2, <1>3, <1>4, <1>5 DEF IndInv

\* Every step preserves the invariant.
LEMMA InvNext ==
  ASSUME IndInv, [Next]_vars
  PROVE  IndInv'
<1>1. CASE UNCHANGED vars
  BY <1>1 DEF IndInv, TypeOK, LinkInv, BufferInv, WaitInv, LostWhenRead, NothingBehindLine,
              vars, peerVars, sockVars, readVars
<1>2. CASE \E stop \in BOOLEAN : CallReadLine(stop)
  BY <1>2, InvCall
<1> QED
  BY <1>1, <1>2, InvPeer, InvClient, InvLineEnd, InvChar, InvNothing DEF Next, ReadStep

\* The invariant holds in every state: the buffer of readLine holds the line so far and
\* nothing else, and the pauses add up to what its timeout allows.
THEOREM Invariant == Spec => []IndInv
BY InvInit, InvNext, PTL DEF Spec

(***************************************************************************)
(* The properties of the runs.                                             *)
(***************************************************************************)
\* Every variable keeps its type, and the next character always has a place in the
\* buffer (readLine, LinuxSocket.cpp:210, 260).
THEOREM TypeCorrect == Spec => []TypeOK
<1>1. IndInv => TypeOK
  BY DEF IndInv
<1> QED
  BY Invariant, <1>1, PTL

\* A call pauses for less than twice its timeout (LinuxSocket.cpp:245-249, 263-274).
THEOREM WaitIsBounded == Spec => []BoundedWait
<1>1. IndInv => BoundedWait
  BY ReadAssumption DEF IndInv, TypeOK, WaitInv, BoundedWait
<1> QED
  BY Invariant, <1>1, PTL

\* A connection that is taken for lost is closed, and read to its end
\* (LinuxSocket.cpp:219-232).
THEOREM LostOnlyWhenRead == Spec => []LostWhenRead
<1>1. IndInv => LostWhenRead
  BY DEF IndInv
<1> QED
  BY Invariant, <1>1, PTL

\* Whoever makes a string of the whole buffer, as client.cpp:47 does, sees the line
\* and nothing of an earlier one.
THEOREM CleanBuffer == Spec => []NothingBehindLine
<1>1. IndInv => NothingBehindLine
  BY DEF IndInv
<1> QED
  BY Invariant, <1>1, PTL

(***************************************************************************)
(* The refinement: what the bytes in the buffer and in the queue make up   *)
(* is the stream of LineReader.                                            *)
(***************************************************************************)
Unread == (IF pc = "read" THEN SubSeq(rcvBuffer, 1, numRead) ELSE <<>>) \o inq

\* The stream when readLine runs, and when it does not.
LEMMA Streams ==
  ASSUME IndInv
  PROVE  /\ inq \in Seq(Bytes)
         /\ pc # "read" => Unread = inq
         /\ pc = "read" =>
              LET h == SubSeq(rcvBuffer, 1, numRead) IN
                /\ Unread = h \o inq
                /\ h \in Seq(Bytes) /\ Len(h) = numRead
                /\ \A i \in 1..numRead : h[i] = rcvBuffer[i] /\ h[i] \notin LineEnds
<1>1. inq \in Seq(Bytes)
  BY DEF IndInv, TypeOK
<1>2. <<>> \o inq = inq
  BY <1>1, ConcatEmptySeq
<1>3. CASE pc = "read"
  <2>1. numRead \in Nat /\ \A i \in 1..numRead : rcvBuffer[i] \in Bytes \ LineEnds
    BY <1>3, Place
  <2>2. \A i \in 1..numRead : rcvBuffer[i] \in Bytes
    BY <2>1
  <2>3. /\ SubSeq(rcvBuffer, 1, numRead) \in Seq(Bytes)
        /\ Len(SubSeq(rcvBuffer, 1, numRead)) = numRead
        /\ \A i \in 1..numRead : SubSeq(rcvBuffer, 1, numRead)[i] = rcvBuffer[i]
    BY <2>1, <2>2, Held
  <2> QED
    BY <1>1, <1>3, <2>1, <2>3 DEF Unread
<1> QED
  BY <1>1, <1>2, <1>3 DEF Unread

\* The stream is cut behind the first character of the queue.
LEMMA CutOne ==
  ASSUME NEW S, NEW h \in Seq(S), NEW q \in Seq(S), q # <<>>
  PROVE  /\ Len(h) + 1 \in 1..Len(h \o q)
         /\ \A i \in 1..Len(h) : (h \o q)[i] = h[i]
         /\ (h \o q)[Len(h) + 1] = Head(q)
         /\ SubSeq(h \o q, 1, Len(h)) = h
         /\ SubSeq(h \o q, 1, Len(h) + 1) = Append(h, Head(q))
         /\ SubSeq(h \o q, Len(h) + 1 + 1, Len(h \o q)) = Tail(q)
<1>1. /\ Append(h, Head(q)) \in Seq(S) /\ Len(Append(h, Head(q))) = Len(h) + 1
      /\ h \o q = Append(h, Head(q)) \o Tail(q)
      /\ (h \o q)[Len(h) + 1] = Head(q)
  BY MoveOne
<1>2. Tail(q) \in Seq(S)
  BY HeadTailProperties
<1>3. /\ SubSeq(h \o q, 1, Len(h) + 1) = Append(h, Head(q))
      /\ SubSeq(h \o q, Len(h) + 1 + 1, Len(h \o q)) = Tail(q)
  <2> DEFINE a == Append(h, Head(q))
  <2> HIDE DEF a
  <2>1. a \in Seq(S) /\ Len(a) = Len(h) + 1 /\ h \o q = a \o Tail(q)
    BY <1>1 DEF a
  <2>2. /\ SubSeq(a \o Tail(q), 1, Len(a)) = a
        /\ SubSeq(a \o Tail(q), Len(a) + 1, Len(a \o Tail(q))) = Tail(q)
    BY <2>1, <1>2, CutConcat
  <2>3. SubSeq(h \o q, 1, Len(h) + 1) = a /\ SubSeq(h \o q, Len(h) + 1 + 1, Len(h \o q)) = Tail(q)
    BY <2>1, <2>2
  <2> QED
    BY <2>3 DEF a
<1>4. SubSeq(h \o q, 1, Len(h)) = h
  BY CutConcat
<1>5. /\ Len(h \o q) = Len(h) + Len(q) /\ Len(h) \in Nat /\ Len(q) \in Nat \ {0}
      /\ \A i \in 1..(Len(h) + Len(q)) : (h \o q)[i] = IF i <= Len(h) THEN h[i] ELSE q[i - Len(h)]
  BY ConcatProperties, LenProperties, EmptySeq
<1>6. Len(h) + 1 \in 1..Len(h \o q) /\ \A i \in 1..Len(h) : (h \o q)[i] = h[i]
  BY <1>5
<1> QED
  BY <1>1, <1>3, <1>4, <1>6

\* A line end completes the line.
LEMMA TakesLine ==
  ASSUME IndInv, ReadLineEnd
  PROVE  Reader!TakeLine
<1> DEFINE h == SubSeq(rcvBuffer, 1, numRead)
<1>1. /\ pc = "read" /\ pc' = "idle" /\ inq # <<>> /\ Head(inq) \in LineEnds
      /\ inq' = Tail(inq) /\ line' = [ok |-> TRUE, text |-> h]
  BY DEF ReadLineEnd, Reading, Return
<1>2. /\ inq \in Seq(Bytes) /\ Unread = h \o inq /\ h \in Seq(Bytes) /\ Len(h) = numRead
      /\ \A i \in 1..numRead : h[i] \notin LineEnds
  BY <1>1, Streams
<1>3. numRead \in Nat /\ numRead + 1 <= BufferLength
  BY <1>1, Place, ReadAssumption
<1>4. Unread' = Tail(inq)
  <2>1. Tail(inq) \in Seq(Bytes)
    BY <1>1, <1>2, HeadTailProperties
  <2>2. <<>> \o Tail(inq) = Tail(inq)
    BY <2>1, ConcatEmptySeq
  <2> QED
    BY <1>1, <2>2 DEF Unread
<1> HIDE DEF h
<1>5. /\ numRead + 1 \in 1..Len(Unread)
      /\ \A i \in 1..numRead : Unread[i] = h[i]
      /\ Unread[numRead + 1] = Head(inq)
      /\ SubSeq(Unread, 1, numRead) = h
      /\ SubSeq(Unread, numRead + 1 + 1, Len(Unread)) = Tail(inq)
  <2>1. /\ Len(h) + 1 \in 1..Len(h \o inq)
        /\ \A i \in 1..Len(h) : (h \o inq)[i] = h[i]
        /\ (h \o inq)[Len(h) + 1] = Head(inq)
        /\ SubSeq(h \o inq, 1, Len(h)) = h
        /\ SubSeq(h \o inq, Len(h) + 1 + 1, Len(h \o inq)) = Tail(inq)
    <3>1. h \in Seq(Bytes) /\ inq \in Seq(Bytes) /\ inq # <<>>
      BY <1>1, <1>2
    <3>2. /\ Len(h) + 1 \in 1..Len(h \o inq)
          /\ (h \o inq)[Len(h) + 1] = Head(inq)
          /\ SubSeq(h \o inq, 1, Len(h)) = h
          /\ SubSeq(h \o inq, Len(h) + 1 + 1, Len(h \o inq)) = Tail(inq)
      BY <3>1, CutOne
    <3>3. ASSUME NEW i \in 1..Len(h) PROVE (h \o inq)[i] = h[i]
      BY <3>1, CutOne
    <3> QED
      BY <3>2, <3>3
  <2> QED
    BY <1>2, <2>1
<1>6. (numRead + 1) - 1 = numRead
  BY <1>3
<1> DEFINE Ends(n) == /\ n <= BufferLength
                      /\ Unread[n] \in LineEnds /\ \A i \in 1..(n - 1) : Unread[i] \notin LineEnds
                      /\ Unread' = SubSeq(Unread, n + 1, Len(Unread))
                      /\ line' = [ok |-> TRUE, text |-> SubSeq(Unread, 1, n - 1)]
<1>7. Ends(numRead + 1)
  BY <1>1, <1>2, <1>3, <1>4, <1>5, <1>6
<1> HIDE DEF Ends
<1>8. \E n \in 1..Len(Unread) : Ends(n)
  BY <1>5, <1>7
<1> QED
  BY <1>8 DEF Ends, Unread, Reader!TakeLine, Reader!Take, Reader!Unfinished

\* Any other character moves from the queue to the buffer, or fills it.
LEMMA TakesChar ==
  ASSUME IndInv, IndInv', ReadChar
  PROVE  Reader!FillBuffer \/ UNCHANGED <<Unread, line>>
<1> DEFINE h == SubSeq(rcvBuffer, 1, numRead)
           b == Head(inq)
<1>1. /\ pc = "read" /\ inq # <<>> /\ b \notin LineEnds /\ inq' = Tail(inq)
      /\ rcvBuffer' = [rcvBuffer EXCEPT ![numRead + 1] = b]
  BY DEF ReadChar, Reading
<1>2. /\ inq \in Seq(Bytes) /\ Unread = h \o inq /\ h \in Seq(Bytes) /\ Len(h) = numRead
      /\ \A i \in 1..numRead : h[i] \notin LineEnds
  BY <1>1, Streams
<1>3. /\ numRead \in Nat /\ numRead < BufferLength
      /\ BufferLength \in Nat /\ DOMAIN rcvBuffer = 1..BufferLength
      /\ \A i \in 1..numRead : rcvBuffer[i] \in Bytes
      /\ timeout_us \in 1..Timeout /\ Timeout \in Nat \ {0}
  BY <1>1, Place, ReadAssumption
<1>4. b \in Bytes /\ Tail(inq) \in Seq(Bytes)
  BY <1>1, <1>2, HeadTailProperties
<1>5. SubSeq(rcvBuffer', 1, numRead + 1) = Append(h, b)
  BY <1>1, <1>3, <1>4, WriteOne
<1>6. /\ h \o inq = Append(h, b) \o Tail(inq)
      /\ Append(h, b) \in Seq(Bytes) /\ Len(Append(h, b)) = numRead + 1
  <2>1. /\ h \o inq = Append(h, b) \o Tail(inq)
        /\ Append(h, b) \in Seq(Bytes) /\ Len(Append(h, b)) = Len(h) + 1
    BY <1>1, <1>2, MoveOne
  <2> QED
    BY <1>2, <2>1
<1>7. CASE Fits(numRead + 1)
  <2>1. numRead' = numRead + 1 /\ pc' = "read" /\ line' = line
    BY <1>1, <1>3, <1>7 DEF ReadChar, EndOfTurn, Restarted
  <2>2. Unread' = SubSeq(rcvBuffer', 1, numRead + 1) \o Tail(inq)
    BY <1>1, <2>1 DEF Unread
  <2> QED
    BY <1>2, <1>5, <1>6, <2>1, <2>2
<1>8. CASE ~Fits(numRead + 1)
  <2>1. /\ numRead + 1 = BufferLength /\ pc' = "idle"
        /\ line' = [ok |-> TRUE, text |-> rcvBuffer']
    BY <1>1, <1>3, <1>8 DEF ReadChar, Fits, Return
  <2>2. Unread' = Tail(inq)
    <3>1. <<>> \o Tail(inq) = Tail(inq)
      BY <1>4, ConcatEmptySeq
    <3> QED
      BY <1>1, <2>1, <3>1 DEF Unread
  <2>3. rcvBuffer' = Append(h, b)
    <3>1. rcvBuffer' \in Seq(Bytes)
      BY <2>1 DEF IndInv, TypeOK
    <3>2. DOMAIN rcvBuffer' = 1..BufferLength
      BY <1>1, <1>3
    <3>3. Len(rcvBuffer') = numRead + 1
      BY <3>1, <3>2, <2>1, <1>3, LenProperties
    <3>4. \A i \in 1..(numRead + 1) : rcvBuffer'[i] \in Bytes
      BY <3>1, <3>3, ElementOfSeq
    <3>5. \A i \in 1..(numRead + 1) : SubSeq(rcvBuffer', 1, numRead + 1)[i] = rcvBuffer'[i]
      BY <3>4, <1>3, Held
    <3> QED
      BY <3>1, <3>3, <3>5, <1>5, <1>6, SeqEqual
  <2> HIDE DEF h, b
  <2>4. /\ numRead + 1 \in 1..Len(Unread)
        /\ \A i \in 1..numRead : Unread[i] = h[i]
        /\ Unread[numRead + 1] = b
        /\ SubSeq(Unread, 1, numRead + 1) = Append(h, b)
        /\ SubSeq(Unread, numRead + 1 + 1, Len(Unread)) = Tail(inq)
    <3>1. /\ Len(h) + 1 \in 1..Len(h \o inq)
          /\ \A i \in 1..Len(h) : (h \o inq)[i] = h[i]
          /\ (h \o inq)[Len(h) + 1] = b
          /\ SubSeq(h \o inq, 1, Len(h) + 1) = Append(h, b)
          /\ SubSeq(h \o inq, Len(h) + 1 + 1, Len(h \o inq)) = Tail(inq)
      <4>1. h \in Seq(Bytes) /\ inq \in Seq(Bytes) /\ inq # <<>>
        BY <1>1, <1>2
      <4>2. /\ Len(h) + 1 \in 1..Len(h \o inq)
            /\ (h \o inq)[Len(h) + 1] = Head(inq)
            /\ SubSeq(h \o inq, 1, Len(h) + 1) = Append(h, Head(inq))
            /\ SubSeq(h \o inq, Len(h) + 1 + 1, Len(h \o inq)) = Tail(inq)
        BY <4>1, CutOne
      <4>3. ASSUME NEW i \in 1..Len(h) PROVE (h \o inq)[i] = h[i]
        BY <4>1, CutOne
      <4> QED
        BY <4>2, <4>3 DEF b
    <3> QED
      BY <1>2, <3>1
  <2>5. ASSUME NEW i \in 1..BufferLength PROVE Unread[i] \notin LineEnds
    <3>1. i \in 1..numRead \/ i = numRead + 1
      BY <1>3, <2>1
    <3> QED
      BY <3>1, <1>1, <1>2, <2>4
  <2>6. /\ BufferLength <= Len(Unread)
        /\ Unread' = SubSeq(Unread, BufferLength + 1, Len(Unread))
        /\ line' = [ok |-> TRUE, text |-> SubSeq(Unread, 1, BufferLength)]
    <3>1. Len(Unread) \in Nat /\ numRead + 1 <= Len(Unread)
      BY <2>4
    <3>2. SubSeq(Unread, 1, BufferLength) = rcvBuffer'
      BY <2>1, <2>3, <2>4
    <3>3. SubSeq(Unread, BufferLength + 1, Len(Unread)) = Unread'
      BY <2>1, <2>2, <2>4
    <3> QED
      BY <2>1, <3>1, <3>2, <3>3
  <2> QED
    BY <2>5, <2>6, TRUE \in BOOLEAN DEF Unread, Reader!FillBuffer, Reader!Take, Reader!Unfinished
<1> QED
  BY <1>7, <1>8

\* Nothing is read: a timeout, a closed connection or an error ends the call with
\* what there was.
LEMMA TakesNothing ==
  ASSUME IndInv, ReadAgain \/ ReadEof \/ ReadError \/ ReadInterrupted
  PROVE  Reader!TakeNothing \/ Reader!GiveUp \/ UNCHANGED <<Unread, line>>
<1> DEFINE h == SubSeq(rcvBuffer, 1, numRead)
<1>1. pc = "read" /\ rcvBuffer' = rcvBuffer /\ inq' = inq
  BY DEF ReadAgain, ReadEof, ReadError, ReadInterrupted, Reading, peerVars, readVars
<1>2. /\ inq \in Seq(Bytes) /\ Unread = h \o inq /\ h \in Seq(Bytes) /\ Len(h) = numRead
      /\ \A i \in 1..numRead : h[i] \notin LineEnds
  BY <1>1, Streams
<1>3. numRead \in Nat /\ numRead < BufferLength /\ timeout_us \in 1..Timeout
  BY <1>1, Place
<1>4. \/ pc' = "read" /\ numRead' = numRead /\ line' = line
      \/ /\ pc' = "idle" /\ inq = <<>>
         /\ line' = Reader!NoLine \/ (numRead = 0 /\ line' = [ok |-> TRUE, text |-> <<>>])
  <2>1. CASE ReadAgain
    BY <2>1, <1>1, <1>3 DEF ReadAgain, EndOfTurn, Return, Reader!NoLine
  <2>2. CASE ReadEof
    BY <2>2, <1>1, <1>3 DEF ReadEof, EndOfTurn, Return, Reader!NoLine
  <2>3. CASE ReadError
    BY <2>3, <1>1 DEF ReadError, Return, IndInv, LinkInv, Reader!NoLine
  <2>4. CASE ReadInterrupted
    BY <2>4, <1>1, <1>3 DEF ReadInterrupted, EndOfTurn
  <2> QED
    BY <2>1, <2>2, <2>3, <2>4
<1>5. CASE pc' = "read" /\ numRead' = numRead /\ line' = line
  BY <1>1, <1>5 DEF Unread
<1>6. ASSUME pc' = "idle", inq = <<>> PROVE Unread = h /\ Unread' = <<>>
  <2>1. h \o <<>> = h /\ <<>> \o inq = inq
    BY <1>2, ConcatEmptySeq
  <2> QED
    BY <1>1, <1>2, <1>6, <2>1 DEF Unread
<1>7. CASE pc' = "idle" /\ inq = <<>> /\ line' = Reader!NoLine
  <2>1. SubSeq(Unread, Len(Unread) + 1, Len(Unread)) = <<>>
    BY <1>2, <1>3, <1>6, <1>7, SubSeqEmpty
  <2>2. Len(Unread) < BufferLength /\ \A i \in 1..Len(Unread) : Unread[i] \notin LineEnds
    BY <1>2, <1>3, <1>6, <1>7
  <2>3. Unread' = SubSeq(Unread, Len(Unread) + 1, Len(Unread))
    BY <1>6, <1>7, <2>1
  <2> QED
    BY <1>7, <2>2, <2>3 DEF Unread, Reader!GiveUp, Reader!Take, Reader!Unfinished
<1>8. CASE pc' = "idle" /\ inq = <<>> /\ numRead = 0 /\ line' = [ok |-> TRUE, text |-> <<>>]
  <2>1. Unread = <<>>
    BY <1>2, <1>6, <1>8, EmptySeq
  <2>2. Len(Unread) = 0 /\ SubSeq(Unread, 0 + 1, Len(Unread)) = <<>>
    BY <2>1, SubSeqEmpty
  <2>3. Unread' = SubSeq(Unread, 0 + 1, Len(Unread))
    BY <1>6, <1>8, <2>2
  <2> QED
    BY <1>8, <2>1, <2>3 DEF Unread, Reader!TakeNothing, Reader!Take
<1> QED
  BY <1>4, <1>5, <1>7, <1>8

\* A byte arrives at the end, and a reset loses what is in the queue.
LEMMA PeerActs ==
  ASSUME IndInv, (\E b \in Bytes : Send(b)) \/ Close
  PROVE  Reader!Arrive \/ Reader!Lose \/ UNCHANGED <<Unread, line>>
<1> DEFINE h == IF pc = "read" THEN SubSeq(rcvBuffer, 1, numRead) ELSE <<>>
<1>1. h \in Seq(Bytes) /\ inq \in Seq(Bytes) /\ Unread = h \o inq
  BY Streams, EmptySeq DEF Unread
<1>2. Unread' = h \o inq' /\ line' = line
  BY DEF Send, Close, readVars, Unread
<1> HIDE DEF h
<1>3. ASSUME NEW b \in Bytes, Send(b) PROVE Reader!Arrive
  <2>1. inq' = Append(inq, b)
    BY <1>3 DEF Send
  <2>2. /\ Append(inq, b) = inq \o <<b>> /\ Append(h \o inq, b) = (h \o inq) \o <<b>>
        /\ (h \o inq) \o <<b>> = h \o (inq \o <<b>>)
    <3>1. h \o inq \in Seq(Bytes) /\ <<b>> \in Seq(Bytes)
      BY <1>1, ConcatProperties
    <3> QED
      BY <1>1, <3>1, AppendIsConcat, ConcatAssociative, SMTT(60)
  <2>3. Unread' = Append(Unread, b)
    BY <1>1, <1>2, <2>1, <2>2
  <2> QED
    BY <1>2, <2>3 DEF Unread, Reader!Arrive
<1>4. ASSUME Close PROVE Reader!Lose \/ UNCHANGED <<Unread, line>>
  <2>1. CASE inq' = inq
    BY <1>1, <1>2, <2>1
  <2>2. CASE inq' = <<>>
    <3>1. Unread' = h
      BY <1>1, <1>2, <2>2, ConcatEmptySeq
    <3>2. SubSeq(Unread, 1, Len(h)) = h
      BY <1>1, CutConcat
    <3>3. Len(h) \in 0..Len(Unread)
      BY <1>1, ConcatProperties, LenProperties
    <3>4. \E n \in 0..Len(Unread) : Unread' = SubSeq(Unread, 1, n)
      BY <3>1, <3>2, <3>3
    <3> QED
      BY <1>2, <3>4 DEF Unread, Reader!Lose
  <2> QED
    BY <1>4, <2>1, <2>2 DEF Close
<1> QED
  BY <1>3, <1>4

\* Another connection, or none, loses everything; to send loses nothing.
LEMMA ClientActs ==
  ASSUME IndInv, InitClient \/ ResetConnection \/ CloseConnection \/ SendData
  PROVE  Reader!Lose \/ UNCHANGED <<Unread, line>>
<1>1. pc # "read" /\ pc' # "read" /\ line' = line /\ (inq' = inq \/ inq' = <<>>)
  BY DEF InitClient, ResetConnection, Reconnect, CloseConnection, SendData, peerVars
<1>2. Unread = inq /\ inq \in Seq(Bytes)
  BY <1>1, Streams
<1>3. Unread' = inq'
  <2>1. <<>> \o inq = inq /\ <<>> \o <<>> = <<>>
    BY <1>2, EmptySeq, ConcatEmptySeq
  <2> QED
    BY <1>1, <2>1 DEF Unread
<1>4. CASE inq' = <<>>
  <2>1. 0 \in 0..Len(Unread) /\ Unread' = SubSeq(Unread, 1, 0)
    BY <1>2, <1>3, <1>4, LenProperties, SubSeqEmpty
  <2>2. \E n \in 0..Len(Unread) : Unread' = SubSeq(Unread, 1, n)
    BY <2>1
  <2> QED
    BY <1>1, <2>2 DEF Unread, Reader!Lose
<1> QED
  BY <1>1, <1>2, <1>3, <1>4

\* A call begins with nothing in the buffer.
LEMMA CallBegins ==
  ASSUME IndInv, NEW stop \in BOOLEAN, CallReadLine(stop)
  PROVE  UNCHANGED <<Unread, line>>
<1>1. /\ pc # "read" /\ pc' = "read" /\ numRead' = 0 /\ inq' = inq /\ line' = line
  BY DEF CallReadLine, peerVars
<1>2. Unread = inq /\ inq \in Seq(Bytes)
  BY <1>1, Streams
<1>3. SubSeq(rcvBuffer', 1, 0) = <<>> /\ <<>> \o inq = inq
  BY <1>2, SubSeqEmpty, ConcatEmptySeq
<1> QED
  BY <1>1, <1>2, <1>3 DEF Unread

\* The first state of the client is one of the reader.
LEMMA ReaderInit == Init => Reader!Init
<1>1. <<>> \o <<>> = <<>>
  BY EmptySeq, ConcatEmptySeq
<1> QED
  BY <1>1 DEF Init, Reader!Init

\* Every step of the client is one of the reader, or none.
LEMMA ReaderNext ==
  ASSUME IndInv, IndInv', [Next]_vars
  PROVE  Reader!Next \/ UNCHANGED <<Unread, line>>
<1>1. CASE UNCHANGED vars
  BY <1>1 DEF vars, peerVars, readVars, Unread
<1>2. CASE \E stop \in BOOLEAN : CallReadLine(stop)
  BY <1>2, CallBegins
<1>3. CASE (\E b \in Bytes : Send(b)) \/ Close
  BY <1>3, PeerActs DEF Reader!Next
<1>4. CASE InitClient \/ ResetConnection \/ CloseConnection \/ SendData
  BY <1>4, ClientActs DEF Reader!Next
<1>5. CASE ReadLineEnd
  BY <1>5, TakesLine DEF Reader!Next, Reader!ReadLine
<1>6. CASE ReadChar
  BY <1>6, TakesChar DEF Reader!Next, Reader!ReadLine
<1>7. CASE ReadAgain \/ ReadEof \/ ReadError \/ ReadInterrupted
  BY <1>7, TakesNothing DEF Reader!Next, Reader!ReadLine
<1> QED
  BY <1>1, <1>2, <1>3, <1>4, <1>5, <1>6, <1>7 DEF Next, ReadStep

\* A call of readLine takes exactly one line from the stream, or a buffer full of bytes
\* without a line end, or comes back empty-handed only when no bytes are there; bytes
\* are only lost by a call that fails in the middle of a line (readLine,
\* LinuxSocket.cpp:196-286).
THEOREM Refinement == Spec => ReadsLines
<1>1. IndInv /\ IndInv' /\ [Next]_vars => [Reader!Next]_<<Unread, line>>
  BY ReaderNext
<1> QED
  BY ReaderInit, Invariant, <1>1, PTL DEF Spec, ReadsLines, Reader!Spec, Unread
=============================================================================
