------------------------------ MODULE RemoteCall ------------------------------
(***************************************************************************)
(* The composition: a client that sends a command and reads a line, as     *)
(* client.cpp does, and the server that frames, parses, queues and answers *)
(* it, with the bytes in between.  A pass of update_rx is one step here    *)
(* (SocketTransport has its parts), so is a pass of processCommands        *)
(* (CommandProcessor), and so is readLine, by its promise in LineReader    *)
(* (ClientSocket keeps it).                                                *)
(*                                                                         *)
(* Bytes are numbers below 256.  The name of a method, with its length     *)
(* before it, and a double are one symbol each above that, a method its    *)
(* length modulo 256: a name has no byte that matters to the framing, and  *)
(* of the doubles those are taken that have none.                          *)
(***************************************************************************)
EXTENDS Integers, Sequences, SequencesExt

CONSTANTS
  QUIT, STATUS, START, QUERY, UNKNOWN, \* methods; START stands for "stop" too
  DOUBLE,                              \* an encoded double
  Scripts,                             \* sequences of commands, what the client sends
  Eols,                                \* what it sends behind each: nothing or '\n'
  BufferLength                         \* of the client's readLine

NL == 10
CR == 13
NUL == 0
Unset == -1
NONE == 0

Methods == {QUIT, STATUS, START, QUERY, UNKNOWN}

Command == [id : 0..(128 * 128 - 1), method : Methods]

ASSUME SymbolAssumption ==
  /\ Methods \subseteq Nat /\ DOUBLE \in Nat /\ DOUBLE \notin Methods
  /\ \A m \in Methods : m > 255 /\ m % 256 \notin {NL, CR, NUL}
  /\ DOUBLE > 255

ASSUME BufferAssumption == BufferLength \in Nat \ {0}

ASSUME ScriptAssumption == Scripts \subseteq Seq(Command) /\ Eols \subseteq {<<>>, <<NL>>}

Symbols == 0..255 \cup Methods \cup {DOUBLE}

VARIABLES
  cpc,          \* the client: "send" or "read"
  todo,         \* the commands it has yet to send
  eol,          \* what it sends behind a command
  upstream,     \* bytes on the way to the server
  m_CmdBuffer,
  m_CmdFIFO,
  m_response,
  m_exit_on_quit,
  server,       \* "serving", "stopped" by a quit, or "dead"
  stream,       \* the replies, on the way to the client
  line,         \* what its last readLine returned
  sent,         \* history: the commands the client has sent
  taken         \* history: the commands the server has put in its FIFO

clientVars == <<cpc, todo, eol, line>>
serverVars == <<m_CmdBuffer, m_CmdFIFO, m_response, m_exit_on_quit, server>>
vars == <<clientVars, serverVars, upstream, stream, sent, taken>>

Reader == INSTANCE LineReader WITH Bytes <- Symbols, LineEnds <- {NL, CR}

(***************************************************************************)
(* The messages of payload.proto as bytes.                                 *)
(***************************************************************************)
\* Mutant of Varint: seven bits are enough.
VarintOneByte(n) == <<n>>

Varint(n) == IF n < 128 THEN <<n>> ELSE <<128 + (n % 128), n \div 128>>

\* sendCommand: Command, serialised.
Encode(cmd) == <<8>> \o Varint(cmd.id) \o <<18, cmd.method>>

NoCommand == [id |-> Unset, method |-> NONE]

\* A field that comes again later keeps its later value.
WithId(later, v) == IF later.id = Unset THEN [later EXCEPT !.id = v] ELSE later
WithMethod(later, m) == IF later.method = NONE THEN [later EXCEPT !.method = m] ELSE later

\* ParseFromString. Its result is ignored: what was parsed before an error, or the
\* end of the bytes, remains. The name of a method is an error where a tag is due.
Parse(bytes) ==
  LET At(i) == IF i <= Len(bytes) THEN bytes[i] ELSE Unset
      from[i \in 1..(Len(bytes) + 1)] ==
        CASE At(i) = 8 /\ At(i + 1) \in 0..127 -> WithId(from[i + 2], At(i + 1))
          [] At(i) = 8 /\ At(i + 1) \in 128..255 /\ At(i + 2) \in 0..127 ->
               WithId(from[i + 3], At(i + 1) - 128 + 128 * At(i + 2))
          [] At(i) = 8 /\ At(i + 1) \in Methods -> WithId(NoCommand, At(i + 1) % 256)
          [] At(i) = 18 /\ At(i + 1) \in Methods -> WithMethod(from[i + 2], At(i + 1))
          [] OTHER -> NoCommand
  IN  from[1]

ParseAll(lines) == [k \in DOMAIN lines |-> Parse(lines[k])]

NoResponse == [id |-> Unset, success |-> Unset, status |-> Unset, contact_radius |-> FALSE]

\* A field of the result, if it is set.
Field(tag, v) == IF v = Unset THEN <<>> ELSE <<tag, v>>

\* The numbers of a query's reply: set_center_point does not lengthen its empty field.
Values(r) == IF r.contact_radius THEN <<25, DOUBLE>> ELSE <<>>

\* Response, serialised; without an id there is nothing to send.
Serialise(r) ==
  LET flags == Field(8, r.success) \o Field(16, r.status)
      size  == Len(flags) + (IF r.contact_radius THEN 9 ELSE 0)
  IN  IF r.id = Unset THEN <<>>
      ELSE <<8>> \o Varint(r.id) \o <<18, size>> \o flags \o Values(r)

(***************************************************************************)
(* The client.                                                             *)
(***************************************************************************)
Init ==
  /\ cpc = "send" /\ todo \in Scripts /\ eol \in Eols /\ line = Reader!NoLine
  /\ upstream = <<>> /\ stream = <<>>
  /\ m_CmdBuffer = <<>> /\ m_CmdFIFO = <<>> /\ m_response = NoResponse
  /\ server = "serving" /\ m_exit_on_quit \in BOOLEAN
  /\ sent = <<>> /\ taken = <<>>

SendCommand ==
  /\ cpc = "send" /\ todo # <<>>
  /\ upstream' = upstream \o Encode(Head(todo)) \o eol
  /\ sent' = Append(sent, Head(todo)) /\ todo' = Tail(todo)
  /\ cpc' = "read"
  /\ UNCHANGED <<eol, line, serverVars, stream, taken>>

\* readLineFromSocket; what it returns does not keep the query loop from going on.
ReadLineFromSocket ==
  /\ cpc = "read" /\ cpc' = "send"
  /\ Reader!ReadLine
  /\ UNCHANGED <<todo, eol, serverVars, upstream, sent, taken>>

(***************************************************************************)
(* The server.                                                             *)
(***************************************************************************)
\* What append makes of the bytes read: they end at the first NUL.
CString(bytes) ==
  LET i == SelectInSeq(bytes, LAMBDA b : b = NUL)
  IN  IF i = 0 THEN bytes ELSE SubSeq(bytes, 1, i - 1)

\* Mutant of Cut: one line of a pass is handled.
CutOne(buf) ==
  LET end == SelectInSeq(buf, LAMBDA b : b = NL)
  IN  IF end = 0 THEN [lines |-> <<>>, rest |-> buf]
      ELSE [lines |-> <<SubSeq(buf, 1, end - 1)>>, rest |-> SubSeq(buf, end + 1, Len(buf))]

\* Mutant of Cut: the line stays in the buffer.
CutKeeps(buf) == [CutOne(buf) EXCEPT !.rest = buf]

\* Mutant of Cut: what is behind the line is lost.
CutClears(buf) == [CutOne(buf) EXCEPT !.rest = <<>>]

\* The loop of update_rx: the lines that it cuts off its buffer, and what stays there.
Cut(buf) ==
  LET Ends(i) == {e \in i..Len(buf) : buf[e] = NL}
      from[i \in 1..(Len(buf) + 1)] ==
        IF Ends(i) = {} THEN [lines |-> <<>>, rest |-> SubSeq(buf, i, Len(buf))]
        ELSE LET end == Min(Ends(i))
             IN  [from[end + 1] EXCEPT !.lines = <<SubSeq(buf, i, end - 1)>> \o @]
  IN  from[1]

\* A pass of update_rx and its callbacks: every line is parsed and queued.
Receive ==
  /\ server = "serving"
  /\ \E k \in 1..Len(upstream) :
       \E cut \in {Cut(m_CmdBuffer \o CString(SubSeq(upstream, 1, k)))} :
         /\ upstream' = SubSeq(upstream, k + 1, Len(upstream))
         /\ m_CmdBuffer' = cut.rest
         /\ m_CmdFIFO' = m_CmdFIFO \o ParseAll(cut.lines)
         /\ taken' = taken \o ParseAll(cut.lines)
  /\ UNCHANGED <<clientVars, m_response, m_exit_on_quit, server, stream, sent>>

\* The reply: an id that was not parsed reads as 0, and a quit leaves everything.
Answer(r, cmd) ==
  LET id == IF cmd.id = Unset THEN 0 ELSE cmd.id
  IN  CASE cmd.method = QUIT   -> r
        [] cmd.method = STATUS -> [r EXCEPT !.id = id, !.status = 0]
        [] cmd.method = START  -> [r EXCEPT !.id = id, !.success = 0]
        [] cmd.method = QUERY  -> [r EXCEPT !.id = id, !.contact_radius = TRUE]
        [] OTHER               -> [r EXCEPT !.id = id, !.success = 1]

\* Mutant of Stops: every quit ends the service.
StopsAtQuit(cmd) == cmd.method = QUIT

\* A quit ends the service where the configuration says so.
Stops(cmd) == cmd.method = QUIT /\ m_exit_on_quit

ProcessCommands ==
  /\ server = "serving" /\ m_CmdFIFO # <<>>
  /\ m_response' = Answer(m_response, Head(m_CmdFIFO))
  /\ m_CmdFIFO' = Tail(m_CmdFIFO)
  /\ stream' = stream \o Serialise(m_response')
  /\ server' = IF Stops(Head(m_CmdFIFO)) THEN "stopped" ELSE "serving"
  /\ UNCHANGED <<clientVars, m_CmdBuffer, m_exit_on_quit, upstream, sent, taken>>

\* A query writes to an empty repeated field; a quit may leave the required id unset.
Fatal(cmd) == cmd.method = QUERY \/ (cmd.method = QUIT /\ m_response.id = Unset)

\* Both may end the process, and so does an empty FIFO, a null command.
ProcessDies ==
  /\ server = "serving" /\ server' = "dead"
  /\ m_CmdFIFO # <<>> => Fatal(Head(m_CmdFIFO))
  /\ UNCHANGED <<clientVars, m_CmdBuffer, m_CmdFIFO, m_response, m_exit_on_quit,
                  upstream, stream, sent, taken>>

Next == SendCommand \/ ReadLineFromSocket \/ Receive \/ ProcessCommands \/ ProcessDies

Spec == Init /\ [][Next]_vars

\* The threads of the server run, and the client's readLine returns.
FairSpec ==
  Spec /\ WF_vars(Receive) /\ WF_vars(ProcessCommands) /\ WF_vars(ReadLineFromSocket)

(***************************************************************************)
(* Properties.                                                             *)
(***************************************************************************)
Parsed == [id : 0..(128 * 128 - 1) \cup {Unset}, method : Methods \cup {NONE}]

Response ==
  [id : 0..(128 * 128 - 1) \cup {Unset}, success : {Unset, 0, 1}, status : {Unset, 0},
   contact_radius : BOOLEAN]

TypeOK ==
  /\ cpc \in {"send", "read"}
  /\ server \in {"serving", "stopped", "dead"} /\ m_exit_on_quit \in BOOLEAN
  /\ todo \in Seq(Command) /\ sent \in Seq(Command) /\ eol \in Eols
  /\ upstream \in Seq(Symbols) /\ m_CmdBuffer \in Seq(Symbols) /\ stream \in Seq(Symbols)
  /\ line \in [ok : BOOLEAN, text : Seq(Symbols)]
  /\ taken \in Seq(Parsed) /\ m_response \in Response
  /\ \E n \in 0..Len(taken) : m_CmdFIFO = SubSeq(taken, n + 1, Len(taken))

Has(cmd, b) == b \in ToSet(Varint(cmd.id))

\* What the line ends leave of a command: its id is lost when it has such a byte.
Pieces(cmd) ==
  IF Has(cmd, NL)
  THEN <<Parse(<<8>> \o SubSeq(Varint(cmd.id), 1, Len(Varint(cmd.id)) - 1)),
         [id |-> Unset, method |-> cmd.method]>>
  ELSE <<cmd>>

\* However TCP cuts the bytes, a client that ends its commands with '\n', and whose
\* ids have no zero byte, has all of them taken, in order and once; only those whose
\* id has the byte of a newline are damaged, and they damage no other command
\* (update_rx and recvCBRoutine, SocketTransport.cpp:341-359).
CommandsArrive ==
  eol = <<NL>> /\ (\A i \in DOMAIN sent : ~Has(sent[i], NUL)) =>
    LET due == FlattenSeq([i \in DOMAIN sent |-> Pieces(sent[i])])
    IN  /\ IsPrefix(taken, due)
        /\ server = "serving" /\ upstream = <<>> => taken = due

\* Whatever the ids, the line ends and the reads, the server never handles a method
\* twice or out of order (the scripts do not repeat one).
AtMostOnceInOrder ==
  LET done == {i \in DOMAIN taken : taken[i].method # NONE}
  IN  \E f \in [done -> DOMAIN sent] :
        /\ \A i, j \in done : i < j => f[i] < f[j]
        /\ \A i \in done : sent[f[i]].method = taken[i].method

\* The last command that was sent and has a reply of its own, if there is one, is the
\* one the reply now speaks of; a quit has none.
LastIsAnswered ==
  LET due == {i \in DOMAIN sent : sent[i].method # QUIT}
  IN  due = {} \/ m_response.id = sent[Max(due)].id

\* A client that ends its commands with '\n' has them all answered, the last one under
\* its id, however the bytes arrive: no command waits for ever in the bytes, the buffer
\* or the FIFO, one behind a quit that is not honoured neither.  The only excuses are a
\* quit that is (CommandProcessor.cpp:271), the death of the process, and an id with a
\* byte that does damage.
EveryCommandAnswered ==
  eol = <<NL>> /\ sent # <<>> ~>
    \/ server = "dead"
    \/ server = "stopped" /\ m_exit_on_quit /\ \E i \in DOMAIN sent : sent[i].method = QUIT
    \/ \E i \in DOMAIN sent : Has(sent[i], NL) \/ Has(sent[i], NUL)
    \/ upstream = <<>> /\ m_CmdBuffer = <<>> /\ m_CmdFIFO = <<>> /\ LastIsAnswered

\* Violated.  "now get the response" (client.cpp:117): a client that reads when the
\* reply to its command is there, and nothing else, gets this reply.
ResponseIsRead ==
  [][ReadLineFromSocket /\ stream # <<>> /\ stream = Serialise(m_response) =>
       line' = [ok |-> TRUE, text |-> stream]]_vars
===============================================================================
