---------------------------- MODULE SocketTransport ----------------------------
(***************************************************************************)
(* The server's side of the socket: SocketTransport, whose receive thread  *)
(* runs update_rx, and the LinuxSocket it shares with the main thread -    *)
(* main sends replies and, at shutdown, closes the sockets, without a      *)
(* lock.  A step is one access to the data the two threads share:          *)
(* m_ConnectionState, m_ClientSock, m_ServerSock, Done and the kernel's    *)
(* sockets.  Clients and the kernel are the environment.                   *)
(*                                                                         *)
(* A file descriptor is named after the connection it stands for: a client *)
(* connects once.                                                          *)
(***************************************************************************)
EXTENDS Integers, Sequences, FiniteSets

CONSTANTS
  Clients,     \* the clients that may connect
  INVALID,     \* INVALID_SOCKET
  Bytes,       \* the bytes clients write
  NL, NUL,     \* two of them: '\n' and '\0'
  Scripts,     \* what a client may write, sequences of Bytes
  BlockSize,   \* m_ReadBlockSize
  Port         \* m_Port

ASSUME SocketAssumption == INVALID \notin Clients

ASSUME BytesAssumption ==
  /\ {NL, NUL} \subseteq Bytes /\ NL # NUL
  /\ Scripts \subseteq Seq(Bytes)
  /\ BlockSize \in Nat /\ BlockSize > 1
  /\ Port \in Int

VARIABLES
  conn,               \* per client: "new", "up", "fin" (closed) or "rst" (aborted)
  todo,               \* per client: what it has yet to write
  inq,                \* per client: written and not received by the server
  backlog,            \* connections waiting for accept
  listening,          \* the listening socket's descriptor is open
  blocking,           \* it could not be made non-blocking
  fds,                \* the connections whose descriptor the server has open
  m_ConnectionState,
  m_ClientSock,
  m_ServerSock,       \* "listener" or INVALID
  m_CommStarted,
  rxDone,             \* m_ThreadHelper[RX].Done
  rx,                 \* where the receive thread is
  rxSock,             \* what accept returned to it
  m_ReadBuffer,
  m_CmdBuffer,
  cmdStrs,            \* the lines update_rx has cut off and not handed over
  main,               \* where the main thread is
  stopState,          \* StopComm's connectionState
  arrived,            \* history: the bytes recv returned
  received,           \* history: the bytes appended to m_CmdBuffer
  delivered,          \* history: the lines handed to the callback
  owner,              \* history: the client whose bytes completed each of them
  rxFrom,             \* history: the client received from last
  answered,           \* history: how many of them main has answered
  replies             \* history: [n, to] for each reply a client was sent

peerVars == <<conn, todo, inq, backlog>>
kernelVars == <<listening, blocking, fds>>
sockVars == <<m_ConnectionState, m_ClientSock, m_ServerSock>>
rxVars == <<rx, rxSock, m_ReadBuffer, m_CmdBuffer, cmdStrs>>
rxHist == <<arrived, received, delivered, owner, rxFrom>>
mainVars == <<main, stopState, m_CommStarted, rxDone, answered, replies>>
vars == <<peerVars, kernelVars, sockVars, rxVars, rxHist, mainVars>>

ConnStates == {"NO_CONNECTION", "SERVER_PORT_SETUP", "CONNECTED"}
RxStates == {"none", "test", "state", "listen", "accept", "blocked", "store",
             "connected", "recv", "reset", "append", "frame", "invoke", "ended"}
MainStates == {"init", "start", "idle", "send", "stop", "close", "closeclient", "forget",
               "closeserver", "forgetserver", "done", "join", "stopped",
               "exited", "dead"}

TypeOK ==
  /\ conn \in [Clients -> {"new", "up", "fin", "rst"}]
  /\ todo \in [Clients -> Seq(Bytes)] /\ inq \in [Clients -> Seq(Bytes)]
  /\ backlog \in Seq(Clients) /\ fds \subseteq Clients
  /\ listening \in BOOLEAN /\ blocking \in BOOLEAN /\ m_CommStarted \in BOOLEAN /\ rxDone \in BOOLEAN
  /\ m_ConnectionState \in ConnStates
  /\ m_ClientSock \in Clients \cup {INVALID} /\ rxSock \in Clients \cup {INVALID}
  /\ m_ServerSock \in {"listener", INVALID}
  /\ rx \in RxStates /\ main \in MainStates /\ stopState \in ConnStates
  /\ m_ReadBuffer \in [1..BlockSize -> Bytes]
  /\ m_CmdBuffer \in Seq(Bytes)
  /\ arrived \in Seq(Bytes) /\ received \in Seq(Bytes)
  /\ cmdStrs \in Seq(Seq(Bytes)) /\ delivered \in Seq(Seq(Bytes))
  /\ owner \in Seq(Clients) /\ rxFrom \in Clients \cup {INVALID}
  /\ answered \in Nat /\ replies \in Seq([n : Nat, to : Clients])

ZeroBuffer == [i \in 1..BlockSize |-> NUL]

Init ==
  /\ conn = [c \in Clients |-> "new"]
  /\ todo \in [Clients -> Scripts] /\ inq = [c \in Clients |-> <<>>]
  /\ backlog = <<>> /\ listening = FALSE /\ blocking = FALSE /\ fds = {}
  /\ m_ConnectionState = "NO_CONNECTION"
  /\ m_ClientSock = INVALID /\ m_ServerSock = INVALID
  /\ m_CommStarted = FALSE /\ rxDone = FALSE
  /\ rx = "none" /\ rxSock = INVALID
  /\ m_ReadBuffer = ZeroBuffer /\ m_CmdBuffer = <<>> /\ cmdStrs = <<>>
  /\ main = "init" /\ stopState = "NO_CONNECTION"
  /\ arrived = <<>> /\ received = <<>> /\ delivered = <<>> /\ owner = <<>> /\ rxFrom = INVALID
  /\ answered = 0 /\ replies = <<>>

Alive == main \notin {"dead", "exited"}

(***************************************************************************)
(* The clients.                                                            *)
(***************************************************************************)
\* While accept waits on it, the kernel keeps a socket whose descriptor is closed.
Connect(c) ==
  /\ listening \/ rx = "blocked"
  /\ conn[c] = "new"
  /\ conn' = [conn EXCEPT ![c] = "up"]
  /\ backlog' = Append(backlog, c)
  /\ UNCHANGED <<todo, inq, kernelVars, sockVars, rxVars, rxHist, mainVars>>

Write(c) ==
  /\ conn[c] = "up" /\ todo[c] # <<>>
  /\ inq' = [inq EXCEPT ![c] = Append(@, Head(todo[c]))]
  /\ todo' = [todo EXCEPT ![c] = Tail(@)]
  /\ UNCHANGED <<conn, backlog, kernelVars, sockVars, rxVars, rxHist, mainVars>>

\* The client closes: with a FIN after its data, or with a reset that discards
\* what has not been received.
Close(c) ==
  /\ conn[c] = "up"
  /\ \/ conn' = [conn EXCEPT ![c] = "fin"] /\ UNCHANGED inq
     \/ conn' = [conn EXCEPT ![c] = "rst"] /\ inq' = [inq EXCEPT ![c] = <<>>]
  /\ UNCHANGED <<todo, backlog, kernelVars, sockVars, rxVars, rxHist, mainVars>>

(***************************************************************************)
(* The receive thread: thread_func and update_rx.                          *)
(***************************************************************************)
RxGoto(from, to) == Alive /\ rx = from /\ rx' = to

\* while (!Done)
RxTest ==
  /\ IF rxDone THEN RxGoto("test", "ended") ELSE RxGoto("test", "state")
  /\ UNCHANGED <<peerVars, kernelVars, sockVars, rxSock, m_ReadBuffer, m_CmdBuffer,
                 cmdStrs, rxHist, mainVars>>

\* getConnectionState; the state is never NO_CONNECTION once the thread exists.
RxState ==
  /\ \/ m_ConnectionState = "SERVER_PORT_SETUP" /\ RxGoto("state", "listen")
     \/ m_ConnectionState = "CONNECTED" /\ RxGoto("state", "recv")
  /\ UNCHANGED <<peerVars, kernelVars, sockVars, rxSock, m_ReadBuffer, m_CmdBuffer,
                 cmdStrs, rxHist, mainVars>>

\* ListenForClient fails at once when the server socket has been given up.
RxListen ==
  /\ IF m_ServerSock # INVALID THEN RxGoto("listen", "accept")
                               ELSE RxGoto("listen", "test")
  /\ UNCHANGED <<peerVars, kernelVars, sockVars, rxSock, m_ReadBuffer, m_CmdBuffer,
                 cmdStrs, rxHist, mainVars>>

\* accept: a connection, or -1 when there is none (or the socket has been closed
\* meanwhile).
RxAccept ==
  /\ RxGoto("accept", "store")
  /\ listening /\ backlog = <<>> => ~blocking
  /\ IF listening /\ backlog # <<>>
     THEN /\ rxSock' = Head(backlog)
          /\ backlog' = Tail(backlog)
          /\ fds' = fds \cup {Head(backlog)}
     ELSE rxSock' = INVALID /\ UNCHANGED <<backlog, fds>>
  /\ UNCHANGED <<conn, todo, inq, listening, blocking, sockVars, m_ReadBuffer,
                 m_CmdBuffer, cmdStrs, rxHist, mainVars>>

\* On a blocking socket accept waits for a connection ...
RxBlock ==
  /\ RxGoto("accept", "blocked")
  /\ listening /\ backlog = <<>> /\ blocking
  /\ UNCHANGED <<peerVars, kernelVars, sockVars, rxSock, m_ReadBuffer, m_CmdBuffer,
                 cmdStrs, rxHist, mainVars>>

\* ... and a close by the other thread does not end the wait: it ends the socket,
\* and with it the other connections, when accept returns.
RxWake ==
  /\ RxGoto("blocked", "store")
  /\ backlog # <<>>
  /\ rxSock' = Head(backlog)
  /\ fds' = fds \cup {Head(backlog)}
  /\ backlog' = IF listening THEN Tail(backlog) ELSE <<>>
  /\ conn' = [c \in Clients |->
                IF ~listening /\ \E i \in 2..Len(backlog) : backlog[i] = c
                THEN "rst" ELSE conn[c]]
  /\ UNCHANGED <<todo, inq, listening, blocking, sockVars, m_ReadBuffer, m_CmdBuffer,
                 cmdStrs, rxHist, mainVars>>

\* Mutant of RxStore: the result of accept is not checked.
RxStoreUnchecked ==
  /\ RxGoto("store", "connected")
  /\ m_ClientSock' = rxSock
  /\ UNCHANGED <<peerVars, kernelVars, m_ConnectionState, m_ServerSock, rxSock,
                 m_ReadBuffer, m_CmdBuffer, cmdStrs, rxHist, mainVars>>

\* m_ClientSock = accept(...): -1 too is stored.
RxStore ==
  /\ IF rxSock # INVALID THEN RxGoto("store", "connected") ELSE RxGoto("store", "test")
  /\ m_ClientSock' = rxSock
  /\ UNCHANGED <<peerVars, kernelVars, m_ConnectionState, m_ServerSock, rxSock,
                 m_ReadBuffer, m_CmdBuffer, cmdStrs, rxHist, mainVars>>

\* Mutant of RxConnected: the wrong state.
RxConnectedListening ==
  /\ RxGoto("connected", "test")
  /\ m_ConnectionState' = "SERVER_LISTENING"
  /\ UNCHANGED <<peerVars, kernelVars, m_ClientSock, m_ServerSock, rxSock,
                 m_ReadBuffer, m_CmdBuffer, cmdStrs, rxHist, mainVars>>

RxConnected ==
  /\ RxGoto("connected", "test")
  /\ m_ConnectionState' = "CONNECTED"
  /\ UNCHANGED <<peerVars, kernelVars, m_ClientSock, m_ServerSock, rxSock,
                 m_ReadBuffer, m_CmdBuffer, cmdStrs, rxHist, mainVars>>

\* At most this many bytes are read at once: the last byte of the buffer stays 0.
ReadLimit == BlockSize - 1

\* readBlock reads data: recv writes the first k bytes of the buffer.
RxRecv ==
  /\ RxGoto("recv", "append")
  /\ m_ClientSock \in fds
  /\ \E k \in 1..Len(inq[m_ClientSock]) :
       /\ k <= ReadLimit
       /\ m_ReadBuffer' = [i \in 1..BlockSize |->
                             IF i <= k THEN inq[m_ClientSock][i] ELSE m_ReadBuffer[i]]
       /\ arrived' = arrived \o SubSeq(inq[m_ClientSock], 1, k)
       /\ inq' = [inq EXCEPT ![m_ClientSock] = SubSeq(@, k + 1, Len(@))]
  /\ rxFrom' = m_ClientSock
  /\ UNCHANGED <<conn, todo, backlog, kernelVars, sockVars, rxSock, m_CmdBuffer,
                 cmdStrs, received, delivered, owner, mainVars>>

\* Mutant of RxNothing: EAGAIN is taken for a disconnection.
RxNothingResets ==
  /\ RxGoto("recv", "reset")
  /\ m_ClientSock # INVALID =>
       /\ m_ClientSock \in fds
       /\ conn[m_ClientSock] = "up" /\ inq[m_ClientSock] = <<>>
  /\ UNCHANGED <<peerVars, kernelVars, sockVars, rxSock, m_ReadBuffer, m_CmdBuffer,
                 cmdStrs, rxHist, mainVars>>

\* readBlock finds nothing: no socket, or EAGAIN.
RxNothing ==
  /\ RxGoto("recv", "test")
  /\ m_ClientSock # INVALID =>
       /\ m_ClientSock \in fds
       /\ conn[m_ClientSock] = "up" /\ inq[m_ClientSock] = <<>>
  /\ UNCHANGED <<peerVars, kernelVars, sockVars, rxSock, m_ReadBuffer, m_CmdBuffer,
                 cmdStrs, rxHist, mainVars>>

\* readBlock fails: end of file, connection reset or a closed descriptor.
RxDisconnected ==
  /\ RxGoto("recv", "reset")
  /\ m_ClientSock # INVALID
  /\ m_ClientSock \in fds =>
       conn[m_ClientSock] \in {"fin", "rst"} /\ inq[m_ClientSock] = <<>>
  /\ UNCHANGED <<peerVars, kernelVars, sockVars, rxSock, m_ReadBuffer, m_CmdBuffer,
                 cmdStrs, rxHist, mainVars>>

\* Mutant of RxReset: the state is left as it is.
RxResetNothing ==
  /\ RxGoto("reset", "test")
  /\ UNCHANGED <<peerVars, kernelVars, sockVars, rxSock, m_ReadBuffer, m_CmdBuffer,
                 cmdStrs, rxHist, mainVars>>

\* ResetConnection in server mode: the descriptor is neither closed nor forgotten.
RxReset ==
  /\ RxGoto("reset", "test")
  /\ m_ConnectionState' = IF Port <= 0 THEN m_ConnectionState ELSE "SERVER_PORT_SETUP"
  /\ UNCHANGED <<peerVars, kernelVars, m_ClientSock, m_ServerSock, rxSock,
                 m_ReadBuffer, m_CmdBuffer, cmdStrs, rxHist, mainVars>>

\* The buffer as a C string.
FirstNul == CHOOSE i \in 1..BlockSize :
              m_ReadBuffer[i] = NUL /\ \A j \in 1..(i - 1) : m_ReadBuffer[j] # NUL
CString == [i \in 1..(FirstNul - 1) |-> m_ReadBuffer[i]]

\* Mutant of RxAppend: no memset.
RxAppendNoClear ==
  /\ RxGoto("append", "frame")
  /\ m_CmdBuffer' = m_CmdBuffer \o CString
  /\ received' = received \o CString
  /\ UNCHANGED <<peerVars, kernelVars, sockVars, rxSock, m_ReadBuffer, cmdStrs,
                 arrived, delivered, owner, rxFrom, mainVars>>

\* m_CmdBuffer.append(m_ReadBuffer), and the memset.
RxAppend ==
  /\ RxGoto("append", "frame")
  /\ m_CmdBuffer' = m_CmdBuffer \o CString
  /\ received' = received \o CString
  /\ m_ReadBuffer' = ZeroBuffer
  /\ UNCHANGED <<peerVars, kernelVars, sockVars, rxSock, cmdStrs, arrived, delivered,
                 owner, rxFrom, mainVars>>

HasLine == \E i \in 1..Len(m_CmdBuffer) : m_CmdBuffer[i] = NL
\* m_CmdBuffer.find('\n')
NewLine == CHOOSE i \in 1..Len(m_CmdBuffer) :
             m_CmdBuffer[i] = NL /\ \A j \in 1..(i - 1) : m_CmdBuffer[j] # NL

\* Mutant of RxFrame: the character after the newline is skipped too.
RxFrameSkips ==
  /\ IF HasLine
     THEN /\ RxGoto("frame", "frame")
          /\ cmdStrs' = Append(cmdStrs, SubSeq(m_CmdBuffer, 1, NewLine - 1))
          /\ m_CmdBuffer' = SubSeq(m_CmdBuffer, NewLine + 2, Len(m_CmdBuffer))
     ELSE RxGoto("frame", "invoke") /\ UNCHANGED <<cmdStrs, m_CmdBuffer>>
  /\ UNCHANGED <<peerVars, kernelVars, sockVars, rxSock, m_ReadBuffer, rxHist, mainVars>>

\* One turn of the loop that cuts off the lines.
RxFrame ==
  /\ IF HasLine
     THEN /\ RxGoto("frame", "frame")
          /\ cmdStrs' = Append(cmdStrs, SubSeq(m_CmdBuffer, 1, NewLine - 1))
          /\ m_CmdBuffer' = SubSeq(m_CmdBuffer, NewLine + 1, Len(m_CmdBuffer))
     ELSE RxGoto("frame", "invoke") /\ UNCHANGED <<cmdStrs, m_CmdBuffer>>
  /\ UNCHANGED <<peerVars, kernelVars, sockVars, rxSock, m_ReadBuffer, rxHist, mainVars>>

\* m_RecvCallbackPtr->Invoke for each line; then update_rx returns.
RxInvoke ==
  /\ IF cmdStrs # <<>>
     THEN /\ RxGoto("invoke", "invoke")
          /\ delivered' = Append(delivered, Head(cmdStrs))
          /\ owner' = Append(owner, rxFrom)
          /\ cmdStrs' = Tail(cmdStrs)
     ELSE RxGoto("invoke", "test") /\ UNCHANGED <<delivered, owner, cmdStrs>>
  /\ UNCHANGED <<peerVars, kernelVars, sockVars, rxSock, m_ReadBuffer, m_CmdBuffer,
                 arrived, received, rxFrom, mainVars>>

(***************************************************************************)
(* The main thread: init, StartComm, sendData, StopComm, the destructor.   *)
(***************************************************************************)
Goto(from, to) == main = from /\ main' = to

\* LinuxSocket::init in server mode; when a call fails main exits - except fcntl,
\* which leaves the socket blocking.
InitSocket ==
  /\ \/ /\ Goto("init", "start")
        /\ listening' = TRUE
        /\ blocking' \in BOOLEAN
        /\ m_ServerSock' = "listener"
        /\ m_ConnectionState' = "SERVER_PORT_SETUP"
     \/ /\ Goto("init", "exited")
        /\ UNCHANGED <<listening, blocking, m_ServerSock, m_ConnectionState>>
  /\ UNCHANGED <<peerVars, fds, m_ClientSock, rxVars, rxHist, stopState,
                 m_CommStarted, rxDone, answered, replies>>

\* StartComm; main goes on to Shutdown when the thread cannot be created.
StartComm ==
  /\ \/ Goto("start", "idle") /\ rx' = "test" /\ rxDone' = FALSE /\ m_CommStarted' = TRUE
     \/ Goto("start", "stop") /\ UNCHANGED <<rx, rxDone, m_CommStarted>>
  /\ UNCHANGED <<peerVars, kernelVars, sockVars, rxSock, m_ReadBuffer, m_CmdBuffer,
                 cmdStrs, rxHist, stopState, answered, replies>>

\* sendData with the reply to the next command: first the test of m_ClientSock ...
SendData ==
  /\ answered < Len(delivered)
  /\ answered' = answered + 1
  /\ IF m_ClientSock = INVALID THEN Goto("idle", "idle") ELSE Goto("idle", "send")
  /\ UNCHANGED <<peerVars, kernelVars, sockVars, rxVars, rxHist, stopState,
                 m_CommStarted, rxDone, replies>>

\* ... then send on whatever m_ClientSock is now. To a client that has closed it
\* may succeed, fail or raise SIGPIPE.
DoSend ==
  /\ \/ /\ Goto("send", "idle")
        /\ m_ClientSock \in fds
        /\ replies' = Append(replies, [n |-> answered, to |-> m_ClientSock])
     \/ Goto("send", "idle") /\ UNCHANGED replies
     \/ /\ Goto("send", "dead")
        /\ m_ClientSock \in fds /\ conn[m_ClientSock] \in {"fin", "rst"}
        /\ UNCHANGED replies
  /\ UNCHANGED <<peerVars, kernelVars, sockVars, rxVars, rxHist, stopState,
                 m_CommStarted, rxDone, answered>>

\* The server's main loop ends: Shutdown calls StopComm.
LeaveLoop ==
  /\ Goto("idle", "stop")
  /\ UNCHANGED <<peerVars, kernelVars, sockVars, rxVars, rxHist, stopState,
                 m_CommStarted, rxDone, answered, replies>>

\* Listening: close first, then join. Otherwise: join first, then close.
StopComm ==
  /\ stopState' = m_ConnectionState
  /\ \/ ~m_CommStarted /\ Goto("stop", "stopped")
     \/ /\ m_CommStarted /\ m_ConnectionState = "SERVER_PORT_SETUP"
        /\ Goto("stop", "close")
     \/ /\ m_CommStarted /\ m_ConnectionState # "SERVER_PORT_SETUP"
        /\ Goto("stop", "done")
  /\ UNCHANGED <<peerVars, kernelVars, sockVars, rxVars, rxHist,
                 m_CommStarted, rxDone, answered, replies>>

CloseFirst == stopState = "SERVER_PORT_SETUP"

\* CloseConnection: if there is a client socket ...
TestClient ==
  /\ IF m_ClientSock # INVALID THEN Goto("close", "closeclient")
                               ELSE Goto("close", "closeserver")
  /\ UNCHANGED <<peerVars, kernelVars, sockVars, rxVars, rxHist, stopState,
                 m_CommStarted, rxDone, answered, replies>>

\* ... close(m_ClientSock), whatever it is now ...
CloseClient ==
  /\ Goto("closeclient", "forget")
  /\ fds' = fds \ {m_ClientSock}
  /\ UNCHANGED <<peerVars, listening, blocking, sockVars, rxVars, rxHist, stopState,
                 m_CommStarted, rxDone, answered, replies>>

\* ... m_ClientSock = INVALID_SOCKET ...
ForgetClient ==
  /\ Goto("forget", "closeserver")
  /\ m_ClientSock' = INVALID
  /\ UNCHANGED <<peerVars, kernelVars, m_ConnectionState, m_ServerSock, rxVars,
                 rxHist, stopState, m_CommStarted, rxDone, answered, replies>>

\* ... close(m_ServerSock), which resets the connections in the backlog, unless the
\* receive thread is in accept ...
CloseServer ==
  /\ Goto("closeserver", "forgetserver")
  /\ listening' = FALSE
  /\ IF rx = "blocked" THEN UNCHANGED <<conn, backlog>>
     ELSE /\ conn' = [c \in Clients |-> IF \E i \in 1..Len(backlog) : backlog[i] = c
                                        THEN "rst" ELSE conn[c]]
          /\ backlog' = <<>>
  /\ UNCHANGED <<todo, inq, blocking, fds, sockVars, rxVars, rxHist, stopState,
                 m_CommStarted, rxDone, answered, replies>>

\* ... m_ServerSock = INVALID_SOCKET.
ForgetServer ==
  /\ IF CloseFirst THEN Goto("forgetserver", "done") ELSE Goto("forgetserver", "stopped")
  /\ m_ServerSock' = INVALID
  /\ m_CommStarted' = CloseFirst
  /\ UNCHANGED <<peerVars, kernelVars, m_ConnectionState, m_ClientSock, rxVars,
                 rxHist, stopState, rxDone, answered, replies>>

\* Mutant of SetDone: the flag is not set.
SetDoneNot ==
  /\ Goto("done", "join")
  /\ UNCHANGED <<peerVars, kernelVars, sockVars, rxVars, rxHist, stopState,
                 m_CommStarted, rxDone, answered, replies>>

SetDone ==
  /\ Goto("done", "join")
  /\ rxDone' = TRUE
  /\ UNCHANGED <<peerVars, kernelVars, sockVars, rxVars, rxHist, stopState,
                 m_CommStarted, answered, replies>>

\* Mutant of JoinRx: no join.
JoinRxAtOnce ==
  /\ IF CloseFirst THEN Goto("join", "stopped") ELSE Goto("join", "close")
  /\ m_CommStarted' = ~CloseFirst
  /\ UNCHANGED <<peerVars, kernelVars, sockVars, rxVars, rxHist, stopState,
                 rxDone, answered, replies>>

JoinRx ==
  /\ rx = "ended"
  /\ IF CloseFirst THEN Goto("join", "stopped") ELSE Goto("join", "close")
  /\ m_CommStarted' = ~CloseFirst
  /\ UNCHANGED <<peerVars, kernelVars, sockVars, rxVars, rxHist, stopState,
                 rxDone, answered, replies>>

\* ~LinuxSocket, when main returns.
Destroy ==
  /\ Goto("stopped", "exited")
  /\ fds' = fds \ {m_ClientSock} /\ m_ClientSock' = INVALID
  /\ listening' = (listening /\ m_ServerSock = INVALID) /\ m_ServerSock' = INVALID
  /\ UNCHANGED <<peerVars, blocking, m_ConnectionState, rxVars, rxHist, stopState,
                 m_CommStarted, rxDone, answered, replies>>

(***************************************************************************)
(* The specification.                                                      *)
(***************************************************************************)
RxStep ==
  \/ RxTest \/ RxState \/ RxListen \/ RxAccept \/ RxBlock \/ RxWake
  \/ RxStore \/ RxConnected
  \/ RxRecv \/ RxNothing \/ RxDisconnected \/ RxReset
  \/ RxAppend \/ RxFrame \/ RxInvoke

\* The steps of the call main is in.
CallStep ==
  \/ InitSocket \/ StartComm \/ DoSend \/ StopComm
  \/ TestClient \/ CloseClient \/ ForgetClient \/ CloseServer \/ ForgetServer
  \/ SetDone \/ JoinRx \/ Destroy

\* StopComm waits for a thread that waits for a connection.
Hung == main = "join" /\ rx = "blocked"

Next ==
  \/ \E c \in Clients : Connect(c) \/ Write(c) \/ Close(c)
  \/ RxStep
  \/ SendData \/ LeaveLoop \/ CallStep
  \/ (~Alive \/ Hung) /\ UNCHANGED vars

Spec == Init /\ [][Next]_vars

\* Both threads keep running; clients eventually close; main may go on for ever.
FairSpec ==
  /\ Spec
  /\ WF_vars(RxStep) /\ WF_vars(CallStep)
  /\ \A c \in Clients : WF_vars(Close(c))

(***************************************************************************)
(* Properties.                                                             *)
(***************************************************************************)
\* Where the k-th newline of what was received is; 0 for k = 0.
LineEnd(k) ==
  IF k = 0 THEN 0
  ELSE CHOOSE i \in 1..Len(received) :
         /\ received[i] = NL
         /\ Cardinality({j \in 1..i : received[j] = NL}) = k

\* However the stream is cut into reads, and over reconnections, the lines handed
\* to the callback (and those about to be) are the lines of the bytes received,
\* in order, and m_CmdBuffer is the rest (update_rx, lines 341-359).
LinesAreTheStream ==
  LET lines == delivered \o cmdStrs
  IN  /\ \A k \in 1..Len(lines) :
           lines[k] = SubSeq(received, LineEnd(k - 1) + 1, LineEnd(k) - 1)
      /\ m_CmdBuffer = SubSeq(received, LineEnd(Len(lines)) + 1, Len(received))
      /\ rx # "frame" => ~HasLine

\* As long as no client has sent a NUL, every byte recv returned is appended to
\* m_CmdBuffer, once, although the buffer is treated as a C string and recycled
\* (lines 307, 341-342).
NoByteLost ==
  (\A i \in 1..Len(arrived) : arrived[i] # NUL) =>
    arrived = received \o (IF rx = "append" THEN CString ELSE <<>>)

Serving == main \in {"idle", "send"}

\* While the server is up, the state CONNECTED means there is an open socket,
\* whatever the receive thread and the main thread are in the middle of.
ConnectedHasSocket ==
  m_ConnectionState = "CONNECTED" /\ Serving => m_ClientSock \in fds

\* While the server is up, a client that is still connected and was accepted is
\* the one the server talks to: only sockets of clients that have gone are
\* forgotten (and leaked) by ResetConnection.
NoLiveClientForgotten ==
  Serving => \A c \in fds :
    conn[c] = "up" => c = m_ClientSock \/ (rx = "store" /\ c = rxSock)

\* When StopComm has returned the receive thread has ended: no callback comes any
\* more and m_ClientSock is no longer written (lines 168-174).
StoppedIsJoined == main \in {"stopped", "exited"} => rx \in {"none", "ended"}

\* If StopComm found a client connected, it leaves neither the listener open nor a
\* connection to a client that is still there, although clients may come and go
\* until the receive thread has ended: it joins first, so that nothing is accepted
\* behind its back (lines 171-180).  The descriptors that stay open are those of
\* clients that had gone, which ResetConnection leaks.
StopConnectedCloses ==
  main = "stopped" /\ stopState = "CONNECTED" =>
    /\ m_ClientSock = INVALID /\ m_ServerSock = INVALID /\ ~listening
    /\ \A c \in fds : conn[c] # "up"

\* StopComm returns, wherever the receive thread is, unless it waits in accept on a
\* listener that could not be made non-blocking (LinuxSocket.cpp:81-86).
StopReturns == main = "stop" ~> main = "stopped" \/ rx = "blocked"

\* A client waiting for accept gets its turn while the server is up, if the
\* clients before it close in the end - with a positive port.
PendingIsAccepted ==
  \A c \in Clients :
    (\E i \in 1..Len(backlog) : backlog[i] = c) ~> (c \in fds \/ ~Serving)

\* "now get the response" (client.cpp:117): the reply to a command goes to the
\* client that sent it.
ReplyToSender ==
  \A i \in 1..Len(replies) : replies[i].to = owner[replies[i].n]

\* "Socket closed successfully." (SocketTransport.cpp:166): after StopComm has
\* found the thread listening, no client socket is open.
StopListeningCloses ==
  main = "stopped" /\ stopState = "SERVER_PORT_SETUP" => m_ClientSock = INVALID
===============================================================================
