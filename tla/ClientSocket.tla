----------------------------- MODULE ClientSocket -----------------------------
(***************************************************************************)
(* LinuxSocket in client mode, and what client.cpp makes of it: connecting *)
(* and reconnecting, sendData, CloseConnection and readLine, which reads a *)
(* line byte by byte from a non-blocking socket, against a timeout.  The   *)
(* server at the other end and the kernel are the environment.             *)
(*                                                                         *)
(* Time is counted in the pauses of 250 microseconds that readLine makes.  *)
(***************************************************************************)
EXTENDS Integers, Sequences

CONSTANTS
  Bytes,         \* the bytes the server may send
  LineEnds,      \* '\n' and '\r'
  NUL,           \* '\0', which the server does not send here
  BufferLength,  \* buffer_length
  Timeout,       \* timeout_s, in pauses
  MaxSent,       \* how many bytes the server sends; a bound, not in the code
  MaxOpens       \* how often the client connects; a bound, not in the code

ASSUME ReadAssumption ==
  /\ LineEnds \subseteq Bytes /\ NUL \notin Bytes
  /\ BufferLength \in Nat \ {0} /\ Timeout \in Nat \ {0}

ASSUME BoundsAssumption == MaxSent \in Nat /\ MaxOpens \in Nat

VARIABLES
  link,               \* the connection: "none", "up", "fin" (closed) or "rst" (aborted)
  inq,                \* sent by the server and not read by the client
  sent,               \* how much the server has sent
  opens,              \* how often the client has tried to connect
  m_ClientSock,       \* "INVALID", or a descriptor: "unconnected", "connected"
  m_ConnectionState,
  pc,                 \* "new", "idle", "read" (in readLine) or "dead"
  stopOnDisconnect, rcvBuffer, numRead, timeout_us, firstChar,  \* readLine's
  line,               \* what the last readLine returned: its value, and the line
  slept               \* history: how often this readLine has paused

peerVars == <<link, inq, sent>>
sockVars == <<m_ClientSock, m_ConnectionState, opens>>
readVars == <<stopOnDisconnect, rcvBuffer, numRead, timeout_us, firstChar>>
vars == <<peerVars, sockVars, pc, readVars, line, slept>>

Reader == INSTANCE LineReader WITH
  stream <- (IF pc = "read" THEN SubSeq(rcvBuffer, 1, numRead) ELSE <<>>) \o inq

ZeroBuffer == [i \in 1..BufferLength |-> NUL]

Init ==
  /\ link = "none" /\ inq = <<>> /\ sent = 0 /\ opens = 0
  /\ m_ClientSock = "INVALID" /\ m_ConnectionState = "NO_CONNECTION"
  /\ pc = "new"
  /\ stopOnDisconnect = FALSE /\ rcvBuffer = ZeroBuffer /\ numRead = 0
  /\ timeout_us = 0 /\ firstChar = FALSE
  /\ line = Reader!NoLine /\ slept = 0

(***************************************************************************)
(* The server.                                                             *)
(***************************************************************************)
Send(b) ==
  /\ link = "up" /\ sent < MaxSent
  /\ inq' = Append(inq, b) /\ sent' = sent + 1
  /\ UNCHANGED <<link, sockVars, pc, readVars, line, slept>>

\* It closes, or resets the connection; a reset discards what was not read.
Close ==
  /\ link = "up"
  /\ \/ link' = "fin" /\ UNCHANGED inq
     \/ link' = "rst" /\ inq' = <<>>
  /\ UNCHANGED <<sent, sockVars, pc, readVars, line, slept>>

(***************************************************************************)
(* Connecting.                                                             *)
(***************************************************************************)
\* The old socket is closed. If socket or setsockopt fails there is none; if
\* connect fails the new one stays.
Reconnect ==
  /\ opens < MaxOpens /\ opens' = opens + 1
  /\ inq' = <<>>
  /\ \/ m_ClientSock' = "connected" /\ link' = "up" /\ m_ConnectionState' = "CONNECTED"
     \/ /\ m_ClientSock' \in {"INVALID", "unconnected"}
        /\ link' = "none" /\ m_ConnectionState' = "NO_CONNECTION"
  /\ UNCHANGED <<sent, readVars, line, slept>>

InitClient == pc = "new" /\ pc' = "idle" /\ Reconnect

ResetConnection == pc = "idle" /\ Reconnect /\ UNCHANGED pc

\* The state is left as it is.
CloseConnection ==
  /\ pc = "idle"
  /\ m_ClientSock' = "INVALID" /\ link' = "none" /\ inq' = <<>>
  /\ UNCHANGED <<sent, m_ConnectionState, opens, pc, readVars, line, slept>>

\* sendData, with some bytes: on a socket that is not connected, or whose peer
\* has gone, send may raise SIGPIPE.
SendData ==
  /\ pc = "idle" /\ m_ClientSock # "INVALID"
  /\ \/ m_ClientSock = "connected" /\ UNCHANGED pc
     \/ (m_ClientSock = "unconnected" \/ link \in {"fin", "rst"}) /\ pc' = "dead"
  /\ UNCHANGED <<peerVars, sockVars, readVars, line, slept>>

(***************************************************************************)
(* readLine.                                                               *)
(***************************************************************************)
\* The callers ask for the state first. The true that readLineFromSocket passes is
\* the timeout, one second, and not stopOnDisconnect; update_rx, in a mode that is
\* never selected, would pass that.
CallReadLine(stop) ==
  /\ pc = "idle" /\ m_ConnectionState = "CONNECTED"
  /\ pc' = "read" /\ stopOnDisconnect' = stop
  /\ rcvBuffer' = ZeroBuffer /\ numRead' = 0
  /\ timeout_us' = Timeout /\ firstChar' = FALSE /\ slept' = 0
  /\ UNCHANGED <<peerVars, sockVars, line>>

Return(ok, text) ==
  /\ pc' = "idle"
  /\ line' = [ok |-> ok, text |-> text]

\* Mutant of EndOfTurn: a timeout in the middle of a line is not told from one
\* before it.
EndOfTurnAlwaysTrue(n, t) ==
  /\ numRead' = n /\ timeout_us' = t
  /\ IF t > 0 THEN UNCHANGED <<pc, line>> ELSE Return(TRUE, <<>>)

\* The end of the loop's body, when the line is not done: the timeout.
EndOfTurn(n, t) ==
  /\ numRead' = n /\ timeout_us' = t
  /\ IF t > 0 THEN UNCHANGED <<pc, line>> ELSE Return(n = 0, <<>>)

Pause == slept' = slept + 1

Reading == pc = "read" /\ m_ClientSock = "connected"

\* The timeout starts again at the first character.
Restarted == IF firstChar THEN timeout_us ELSE Timeout

\* The line ends: '\n' or '\r' is overwritten.
ReadLineEnd ==
  /\ Reading /\ inq # <<>> /\ Head(inq) \in LineEnds
  /\ inq' = Tail(inq)
  /\ firstChar' = TRUE /\ timeout_us' = Restarted
  /\ rcvBuffer' = [rcvBuffer EXCEPT ![numRead + 1] = NUL]
  /\ Return(TRUE, SubSeq(rcvBuffer, 1, numRead))
  /\ UNCHANGED <<link, sent, sockVars, stopOnDisconnect, numRead, slept>>

\* Mutant of Fits: one comparison too late.
FitsOneMore(n) == n <= BufferLength

\* numRead >= buffer_length ends the loop.
Fits(n) == n < BufferLength

\* Mutant of ReadChar: every character starts the timeout again.
ReadCharRestarts ==
  /\ Reading /\ inq # <<>> /\ Head(inq) \notin LineEnds
  /\ inq' = Tail(inq)
  /\ rcvBuffer' = [rcvBuffer EXCEPT ![numRead + 1] = Head(inq)]
  /\ IF Fits(numRead + 1)
     THEN EndOfTurn(numRead + 1, Restarted)
     ELSE /\ numRead' = numRead + 1 /\ timeout_us' = Restarted
          /\ Return(TRUE, rcvBuffer')
  /\ UNCHANGED <<link, sent, sockVars, stopOnDisconnect, firstChar, slept>>

\* Another character; a full buffer ends the loop with done set, as a line end does.
ReadChar ==
  /\ Reading /\ inq # <<>> /\ Head(inq) \notin LineEnds
  /\ inq' = Tail(inq)
  /\ firstChar' = TRUE
  /\ rcvBuffer' = [rcvBuffer EXCEPT ![numRead + 1] = Head(inq)]
  /\ IF Fits(numRead + 1)
     THEN EndOfTurn(numRead + 1, Restarted)
     ELSE /\ numRead' = numRead + 1 /\ timeout_us' = Restarted
          /\ Return(TRUE, rcvBuffer')
  /\ UNCHANGED <<link, sent, sockVars, stopOnDisconnect, slept>>

\* Mutant of ReadAgain: no data is taken for the end of the connection.
ReadAgainDisconnects ==
  /\ Reading /\ link = "up" /\ inq = <<>>
  /\ m_ConnectionState' = "NO_CONNECTION"
  /\ EndOfTurn(numRead, timeout_us - 1) /\ Pause
  /\ UNCHANGED <<peerVars, m_ClientSock, opens, stopOnDisconnect, rcvBuffer, firstChar>>

\* EAGAIN.
ReadAgain ==
  /\ Reading /\ link = "up" /\ inq = <<>>
  /\ EndOfTurn(numRead, timeout_us - 1) /\ Pause
  /\ UNCHANGED <<peerVars, sockVars, stopOnDisconnect, rcvBuffer, firstChar>>

\* Mutant of ReadEof: the pause is not subtracted from the timeout.
ReadEofForEver ==
  /\ Reading /\ link = "fin" /\ inq = <<>>
  /\ m_ConnectionState' = "NO_CONNECTION"
  /\ IF stopOnDisconnect
     THEN /\ numRead' = -1 /\ Return(FALSE, <<>>)
          /\ UNCHANGED <<timeout_us, slept>>
     ELSE EndOfTurn(numRead, timeout_us) /\ slept' = slept
  /\ UNCHANGED <<peerVars, m_ClientSock, opens, stopOnDisconnect, rcvBuffer, firstChar>>

\* The server has closed: read returns 0, from now on.
ReadEof ==
  /\ Reading /\ link = "fin" /\ inq = <<>>
  /\ m_ConnectionState' = "NO_CONNECTION"
  /\ IF stopOnDisconnect
     THEN /\ numRead' = -1 /\ Return(FALSE, <<>>)
          /\ UNCHANGED <<timeout_us, slept>>
     ELSE EndOfTurn(numRead, timeout_us - 1) /\ Pause
  /\ UNCHANGED <<peerVars, m_ClientSock, opens, stopOnDisconnect, rcvBuffer, firstChar>>

\* The descriptor is not one, or the connection was reset; after it has been
\* reported a reset looks like an end of file.
ReadError ==
  /\ pc = "read" /\ (m_ClientSock # "connected" \/ link = "rst")
  /\ link' = IF link = "rst" THEN "fin" ELSE link
  /\ Return(FALSE, <<>>)
  /\ UNCHANGED <<inq, sent, sockVars, readVars, slept>>

\* A signal interrupts read.
ReadInterrupted ==
  /\ Reading /\ EndOfTurn(numRead, timeout_us)
  /\ UNCHANGED <<peerVars, sockVars, stopOnDisconnect, rcvBuffer, firstChar, slept>>

ReadStep == ReadLineEnd \/ ReadChar \/ ReadAgain \/ ReadEof \/ ReadError

Next ==
  \/ \E b \in Bytes : Send(b)
  \/ Close
  \/ InitClient \/ ResetConnection \/ CloseConnection \/ SendData
  \/ \E stop \in BOOLEAN : CallReadLine(stop)
  \/ ReadStep
  \/ ReadInterrupted
  \/ pc = "dead" /\ UNCHANGED vars

\* readLine goes on, and read is not interrupted for ever.
Spec == Init /\ [][Next]_vars
FairSpec == Spec /\ WF_vars(ReadStep)

(***************************************************************************)
(* Properties.                                                             *)
(***************************************************************************)
\* Types; and the next character always has a place in the buffer (lines 210, 260).
TypeOK ==
  /\ link \in {"none", "up", "fin", "rst"}
  /\ inq \in Seq(Bytes) /\ sent \in 0..MaxSent /\ opens \in 0..MaxOpens
  /\ m_ClientSock \in {"INVALID", "unconnected", "connected"}
  /\ m_ConnectionState \in {"NO_CONNECTION", "CONNECTED"}
  /\ pc \in {"new", "idle", "read", "dead"}
  /\ stopOnDisconnect \in BOOLEAN /\ firstChar \in BOOLEAN
  /\ rcvBuffer \in [1..BufferLength -> Bytes \cup {NUL}]
  /\ numRead \in -1..BufferLength /\ (pc = "read" => numRead + 1 \in DOMAIN rcvBuffer)
  /\ timeout_us \in 0..Timeout
  /\ line \in [ok : BOOLEAN, text : Seq(Bytes)] /\ slept \in Nat

\* A call takes exactly one line from the stream, or a buffer full of bytes without a
\* line end, or comes back empty-handed only when no bytes are there, whatever the
\* interleaving with the server; bytes are only lost by a call that fails in the
\* middle of a line (readLine, LinuxSocket.cpp:196-286).  Whether a full buffer is a
\* success it leaves open: the code says so, its message in line 290 does not.
ReadsLines == Reader!Spec

\* A call pauses for less than twice its timeout, however the server spreads its
\* bytes: only the first one starts the timeout again (lines 245-249).
BoundedWait == slept < 2 * Timeout

\* As long as the client does not reconnect, it takes the connection for lost only
\* when it is, and has read everything that was sent before (lines 219-232).
LostWhenRead ==
  m_ClientSock = "connected" /\ m_ConnectionState = "NO_CONNECTION" =>
    link = "fin" /\ inq = <<>>

\* readLine returns, whatever the server does.
ReadLineReturns == pc = "read" ~> pc # "read"
===============================================================================
