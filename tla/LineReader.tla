------------------------------ MODULE LineReader ------------------------------
(***************************************************************************)
(* What a call of readLine promises, as one step on the stream of bytes:   *)
(* it takes one line; or nothing, when there is nothing; or it fails, and  *)
(* what it has taken of an unfinished line is gone.  Of as many bytes as   *)
(* the buffer holds, with no line end among them, it promises neither      *)
(* true nor false.  ClientSocket implements this byte by byte, RemoteCall  *)
(* builds on it.                                                           *)
(***************************************************************************)
EXTENDS Integers, Sequences

CONSTANTS
  Bytes,         \* the bytes that may arrive
  LineEnds,      \* '\n' and '\r', two of them
  BufferLength   \* buffer_length, at least 1

VARIABLES
  stream,   \* the bytes that have been sent and that no call has taken
  line      \* the result of the last call: its value, and the line if it is true

NoLine == [ok |-> FALSE, text |-> <<>>]

Init == stream = <<>> /\ line = NoLine

\* No line ends among the first n bytes.
Unfinished(n) == \A i \in 1..n : stream[i] \notin LineEnds

Take(n, result) ==
  /\ stream' = SubSeq(stream, n + 1, Len(stream))
  /\ line' = result

Arrive == (\E b \in Bytes : stream' = Append(stream, b)) /\ UNCHANGED line

\* The connection breaks, or is replaced by another one.
Lose == (\E n \in 0..Len(stream) : stream' = SubSeq(stream, 1, n)) /\ UNCHANGED line

TakeLine ==
  \E n \in 1..Len(stream) :
    /\ n <= BufferLength
    /\ stream[n] \in LineEnds /\ Unfinished(n - 1)
    /\ Take(n, [ok |-> TRUE, text |-> SubSeq(stream, 1, n - 1)])

\* The code returns true, and holds a test and a message that mean false.
FillBuffer ==
  /\ BufferLength <= Len(stream) /\ Unfinished(BufferLength)
  /\ \E ok \in BOOLEAN :
       Take(BufferLength, [ok |-> ok, text |-> SubSeq(stream, 1, BufferLength)])

\* A timeout before the first byte.
TakeNothing == stream = <<>> /\ Take(0, [ok |-> TRUE, text |-> <<>>])

\* A timeout after it, a closed connection, or an error.
GiveUp ==
  /\ Len(stream) < BufferLength /\ Unfinished(Len(stream))
  /\ Take(Len(stream), NoLine)

ReadLine == TakeLine \/ FillBuffer \/ TakeNothing \/ GiveUp

Next == Arrive \/ Lose \/ ReadLine

Spec == Init /\ [][Next]_<<stream, line>>
===============================================================================
