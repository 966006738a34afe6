------------------------- MODULE SocketTransportProofs -------------------------
(***************************************************************************)
(* Theorems about SocketTransport, for any clients, scripts, block size    *)
(* and port: its types, what the shared sockets and the connection state   *)
(* say of each other, what StopComm leaves, and that the lines handed to   *)
(* the callback are the lines of the bytes received.                       *)
(***************************************************************************)
EXTENDS SocketTransport, ListLemmas, FiniteSetTheorems

(***************************************************************************)
(* The inductive invariant.                                                *)
(***************************************************************************)
\* Which threads there are: the receive thread runs between StartComm and the
\* join, and the closing calls of a StopComm that joins first come after it.
ThreadInv ==
  /\ main \in {"init", "start"} => rx = "none"
  /\ main \in {"idle", "send"} => m_CommStarted
  /\ main \in {"stopped", "exited"} => rx \in {"none", "ended"}
  /\ main = "stop" /\ ~m_CommStarted => rx = "none"
  /\ main \in {"init", "start"} => ~m_CommStarted
  /\ main \in {"close", "closeclient", "forget", "closeserver", "forgetserver"} /\ ~CloseFirst
       => rx = "ended"
  /\ rx = "none" => m_ConnectionState # "CONNECTED"

\* What is closed when, in a StopComm that found a client connected.
StopInv ==
  /\ ~CloseFirst /\ main \in {"closeserver", "forgetserver"} => m_ClientSock = INVALID
  /\ ~CloseFirst /\ main = "forgetserver" => ~listening
  /\ main = "stopped" /\ stopState = "CONNECTED" =>
       m_ClientSock = INVALID /\ m_ServerSock = INVALID /\ ~listening

\* A descriptor, or a place in the backlog, belongs to a client that connected.
PeerInv ==
  /\ \A c \in fds : conn[c] # "new"
  /\ \A i \in 1..Len(backlog) : conn[backlog[i]] # "new"

\* Main has closed nothing: the server is up, or StopComm waits for the receive
\* thread before it closes.
Open == Serving \/ main = "stop" \/ (main \in {"done", "join"} /\ ~CloseFirst)

\* No descriptor of these is that of a client that is still there.
Gone(S) == \A c \in S : conn[c] # "up"

\* What m_ClientSock, accept's result and m_ConnectionState say of each other
\* while main has closed nothing, and what it closes when it joins first.
SocketInv ==
  /\ rx \in {"listen", "accept", "blocked", "store", "connected"} =>
       m_ConnectionState = "SERVER_PORT_SETUP"
  /\ main \in {"init", "start"} => m_ClientSock = INVALID /\ fds = {}
  /\ Open =>
       /\ m_ClientSock \in fds \cup {INVALID}
       /\ rx = "store" => rxSock \in fds \cup {INVALID}
       /\ rx = "connected" => m_ClientSock \in fds
       /\ rx = "reset" /\ m_ClientSock \in fds => conn[m_ClientSock] # "up"
       /\ m_ConnectionState = "SERVER_PORT_SETUP" /\ rx # "connected" /\ m_ClientSock \in fds
            => conn[m_ClientSock] # "up"
       /\ m_ConnectionState = "CONNECTED" => m_ClientSock \in fds
       /\ \A c \in fds : conn[c] = "up" => c = m_ClientSock \/ (rx = "store" /\ c = rxSock)
  /\ ~CloseFirst /\ main \in {"close", "closeclient"} => Gone(fds \ {m_ClientSock})
  /\ ~CloseFirst /\ main \in {"forget", "closeserver", "forgetserver"} => Gone(fds)
  /\ main = "stopped" /\ stopState = "CONNECTED" => Gone(fds)

\* m_ReadBuffer is a C string: its last byte is never written, and outside of
\* update_rx's first lines it is empty.
BufferInv ==
  /\ m_ReadBuffer[BlockSize] = NUL
  /\ rx # "append" => m_ReadBuffer = ZeroBuffer
  /\ rx \in {"append", "frame", "invoke"} => rxFrom \in Clients

\* i is the end of the k-th line of s; where that is (LineEnd, of any bytes).
Newlines(s, i) == {j \in 1..i : s[j] = NL}
EndsLine(s, k, i) == i \in 1..Len(s) /\ s[i] = NL /\ Cardinality(Newlines(s, i)) = k
EndOf(s, k) ==
  IF k = 0 THEN 0
  ELSE CHOOSE i \in 1..Len(s) : s[i] = NL /\ Cardinality(Newlines(s, i)) = k

\* Bytes s are cut in these lines, each of which has its newline in s, and a rest.
IsCut(s, lines, rest) ==
  /\ \A k \in 1..Len(lines) : EndsLine(s, k, EndOf(s, k))
  /\ \A k \in 1..Len(lines) : lines[k] = SubSeq(s, EndOf(s, k - 1) + 1, EndOf(s, k) - 1)
  /\ rest = SubSeq(s, EndOf(s, Len(lines)) + 1, Len(s))

\* What is received is cut in the lines handed over or about to be, and a rest in
\* which update_rx leaves no newline.
LinesInv ==
  /\ IsCut(received, delivered \o cmdStrs, m_CmdBuffer)
  /\ rx # "frame" => ~HasLine

IndInv ==
  /\ TypeOK /\ ThreadInv /\ StopInv /\ PeerInv /\ SocketInv /\ BufferInv /\ NoByteLost
  /\ LinesInv

(***************************************************************************)
(* Lemmas on the data.                                                     *)
(***************************************************************************)
\* m_ReadBuffer, whose last byte is 0, as a C string (update_rx, line 341).
LEMMA CStringIsCut ==
  ASSUME TypeOK, m_ReadBuffer[BlockSize] = NUL
  PROVE  /\ FirstNul \in 1..BlockSize
         /\ m_ReadBuffer[FirstNul] = NUL
         /\ \A j \in 1..(FirstNul - 1) : m_ReadBuffer[j] # NUL
         /\ CString \in Seq(Bytes)
         /\ Len(CString) = FirstNul - 1
<1>1. BlockSize \in Nat /\ \E i \in 1..BlockSize : m_ReadBuffer[i] = NUL
  <2>1. BlockSize \in Nat /\ BlockSize \in 1..BlockSize
    BY BytesAssumption
  <2> QED
    BY <2>1
<1>2. \E i \in 1..BlockSize : FirstAt(m_ReadBuffer, NUL, i)
  BY <1>1, FirstPlace
<1>3. /\ FirstNul \in 1..BlockSize
      /\ m_ReadBuffer[FirstNul] = NUL
      /\ \A j \in 1..(FirstNul - 1) : m_ReadBuffer[j] # NUL
  BY <1>2 DEF FirstNul, FirstAt
<1>4. FirstNul - 1 \in Nat /\ \A i \in 1..(FirstNul - 1) : m_ReadBuffer[i] \in Bytes
  BY <1>1, <1>3 DEF TypeOK
<1>5. CString \in [1..(FirstNul - 1) -> Bytes]
  BY <1>4 DEF CString
<1> QED
  BY <1>3, <1>4, <1>5, LenProperties, SeqDef

\* The first newline of m_CmdBuffer (update_rx, line 345).
LEMMA NewLineIsFirst ==
  ASSUME TypeOK, HasLine
  PROVE  /\ NewLine \in 1..Len(m_CmdBuffer)
         /\ m_CmdBuffer[NewLine] = NL
         /\ \A j \in 1..(NewLine - 1) : m_CmdBuffer[j] # NL
<1>1. Len(m_CmdBuffer) \in Nat
  BY DEF TypeOK
<1>2. \E i \in 1..Len(m_CmdBuffer) : FirstAt(m_CmdBuffer, NL, i)
  BY <1>1, FirstPlace DEF HasLine
<1> QED
  BY <1>2 DEF NewLine, FirstAt

(***************************************************************************)
(* Which steps change what.                                                *)
(***************************************************************************)
peerSteps == \E c \in Clients : Connect(c) \/ Write(c) \/ Close(c)
streamVars == <<m_ReadBuffer, m_CmdBuffer, cmdStrs, arrived, received, delivered, owner>>
descriptorVars == <<fds, m_ClientSock, rxSock, rxFrom>>
replyVars == <<answered, replies>>

\* Of the receive thread's steps, these alone change the bytes and lines, these
\* the descriptors and these what the clients see; none changes what is main's.
LEMMA RxFrameCondition ==
  ASSUME RxStep
  PROVE  /\ RxRecv \/ RxAppend \/ RxFrame \/ RxInvoke \/ UNCHANGED streamVars
         /\ RxAccept \/ RxWake \/ RxStore \/ RxRecv \/ UNCHANGED descriptorVars
         /\ RxAccept \/ RxWake \/ RxRecv \/ UNCHANGED peerVars
         /\ UNCHANGED <<replyVars, main, stopState, m_CommStarted, rxDone, listening,
                        blocking, m_ServerSock>>
<1> USE DEF peerVars, kernelVars, sockVars, rxVars, rxHist, mainVars, streamVars,
            descriptorVars, replyVars
<1>1. CASE RxTest \/ RxState \/ RxListen
  BY <1>1 DEF RxTest, RxState, RxListen
<1>6. CASE RxBlock \/ RxWake
  BY <1>6 DEF RxBlock, RxWake
<1>2. CASE RxAccept \/ RxStore \/ RxConnected
  BY <1>2 DEF RxAccept, RxStore, RxConnected
<1>3. CASE RxRecv
  BY <1>3 DEF RxRecv
<1>4. CASE RxNothing \/ RxDisconnected \/ RxReset
  BY <1>4 DEF RxNothing, RxDisconnected, RxReset
<1>5. CASE RxAppend \/ RxFrame \/ RxInvoke
  BY <1>5 DEF RxAppend, RxFrame, RxInvoke
<1> QED
  BY <1>1, <1>2, <1>3, <1>4, <1>5, <1>6 DEF RxStep

\* The main thread's steps leave the bytes and lines alone, and these alone change
\* the rest.
LEMMA MainFrameCondition ==
  ASSUME SendData \/ LeaveLoop \/ CallStep
  PROVE  /\ UNCHANGED <<streamVars, rxSock, rxFrom>>
         /\ CloseClient \/ ForgetClient \/ Destroy \/ UNCHANGED descriptorVars
         /\ CloseServer \/ UNCHANGED peerVars
         /\ SendData \/ DoSend \/ UNCHANGED replyVars
         /\ StartComm \/ UNCHANGED rx
<1> USE DEF peerVars, kernelVars, sockVars, rxVars, rxHist, streamVars,
            descriptorVars, replyVars
<1>1. CASE InitSocket \/ StartComm \/ SendData \/ LeaveLoop \/ StopComm
  BY <1>1 DEF InitSocket, StartComm, SendData, LeaveLoop, StopComm
<1>2. CASE DoSend \/ TestClient \/ CloseClient \/ ForgetClient
  BY <1>2 DEF DoSend, TestClient, CloseClient, ForgetClient
<1>3. CASE CloseServer \/ ForgetServer \/ SetDone \/ JoinRx \/ Destroy
  BY <1>3 DEF CloseServer, ForgetServer, SetDone, JoinRx, Destroy
<1> QED
  BY <1>1, <1>2, <1>3 DEF CallStep

\* The clients change what is between them and the server, and nothing else.
LEMMA PeerFrameCondition ==
  ASSUME peerSteps
  PROVE  UNCHANGED <<kernelVars, sockVars, rxVars, rxHist, mainVars, streamVars,
                     descriptorVars, replyVars>>
BY DEF peerSteps, Connect, Write, Close, kernelVars, sockVars, rxVars, rxHist, mainVars,
       streamVars, descriptorVars, replyVars

\* Every step is one of a client, of one of the threads, or none.
LEMMA Steps ==
  ASSUME [Next]_vars
  PROVE  peerSteps \/ RxStep \/ (SendData \/ LeaveLoop \/ CallStep) \/ UNCHANGED vars
BY DEF Next, peerSteps

(***************************************************************************)
(* Types: one group of variables at a time.                                *)
(***************************************************************************)
ControlTypes ==
  /\ listening \in BOOLEAN /\ blocking \in BOOLEAN /\ m_CommStarted \in BOOLEAN
  /\ rxDone \in BOOLEAN /\ m_ConnectionState \in ConnStates /\ m_ServerSock \in {"listener", INVALID}
  /\ rx \in RxStates /\ main \in MainStates /\ stopState \in ConnStates
PeerTypes ==
  /\ conn \in [Clients -> {"new", "up", "fin", "rst"}]
  /\ todo \in [Clients -> Seq(Bytes)] /\ inq \in [Clients -> Seq(Bytes)]
  /\ backlog \in Seq(Clients)
DescriptorTypes ==
  /\ fds \subseteq Clients /\ m_ClientSock \in Clients \cup {INVALID}
  /\ rxSock \in Clients \cup {INVALID} /\ rxFrom \in Clients \cup {INVALID}
StreamTypes ==
  /\ m_ReadBuffer \in [1..BlockSize -> Bytes] /\ m_CmdBuffer \in Seq(Bytes)
  /\ arrived \in Seq(Bytes) /\ received \in Seq(Bytes)
  /\ cmdStrs \in Seq(Seq(Bytes)) /\ delivered \in Seq(Seq(Bytes)) /\ owner \in Seq(Clients)
ReplyTypes == answered \in Nat /\ replies \in Seq([n : Nat, to : Clients])

\* The groups are TypeOK, in this state and in the next.
LEMMA TypeGroups ==
  /\ TypeOK <=> ControlTypes /\ PeerTypes /\ DescriptorTypes /\ StreamTypes /\ ReplyTypes
  /\ TypeOK' <=> ControlTypes' /\ PeerTypes' /\ DescriptorTypes' /\ StreamTypes' /\ ReplyTypes'
BY DEF TypeOK, ControlTypes, PeerTypes, DescriptorTypes, StreamTypes, ReplyTypes

\* The initial state has the types.
LEMMA InitTypes ==
  ASSUME Init
  PROVE  TypeOK
<1>1. ControlTypes
  BY DEF Init, ControlTypes, ConnStates, RxStates, MainStates
<1>2. PeerTypes
  <2>1. todo \in [Clients -> Seq(Bytes)]
    BY BytesAssumption DEF Init
  <2> QED
    BY <2>1, EmptySeq DEF Init, PeerTypes
<1>3. DescriptorTypes
  BY DEF Init, DescriptorTypes
<1>4. StreamTypes
  <2>1. ZeroBuffer \in [1..BlockSize -> Bytes]
    BY BytesAssumption DEF ZeroBuffer
  <2> QED
    BY <2>1, EmptySeq DEF Init, StreamTypes
<1>5. ReplyTypes
  BY EmptySeq DEF Init, ReplyTypes
<1> QED
  BY <1>1, <1>2, <1>3, <1>4, <1>5, TypeGroups

\* Every step keeps the types of the flags, states and places in the code.
LEMMA ControlStep ==
  ASSUME ControlTypes, [Next]_vars
  PROVE  ControlTypes'
<1> USE DEF ControlTypes, ConnStates, RxStates, MainStates
<1>1. CASE peerSteps
  BY <1>1, PeerFrameCondition DEF kernelVars, sockVars, rxVars, mainVars
<1>2. CASE RxStep
  <2>1. rx' \in RxStates
    BY <1>2 DEF RxStep, RxTest, RxState, RxListen, RxAccept, RxBlock, RxWake, RxStore,
                RxConnected, RxRecv, RxNothing, RxDisconnected, RxReset, RxAppend, RxFrame,
                RxInvoke, RxGoto
  <2>2. m_ConnectionState' \in ConnStates
    BY <1>2 DEF RxStep, RxTest, RxState, RxListen, RxAccept, RxBlock, RxWake, RxStore,
                RxConnected, RxRecv, RxNothing, RxDisconnected, RxReset, RxAppend, RxFrame,
                RxInvoke, sockVars
  <2> QED
    BY <1>2, <2>1, <2>2, RxFrameCondition
<1>3. CASE SendData \/ LeaveLoop \/ CallStep
  <2> USE DEF Goto, kernelVars, sockVars, rxVars
  <2>1. CASE InitSocket \/ StartComm \/ SendData \/ LeaveLoop
    BY <2>1 DEF InitSocket, StartComm, SendData, LeaveLoop
  <2>2. CASE DoSend \/ StopComm \/ TestClient \/ CloseClient
    BY <2>2 DEF DoSend, StopComm, TestClient, CloseClient
  <2>3. CASE ForgetClient \/ CloseServer \/ ForgetServer
    BY <2>3 DEF ForgetClient, CloseServer, ForgetServer, CloseFirst
  <2>4. CASE SetDone \/ JoinRx \/ Destroy
    BY <2>4 DEF SetDone, JoinRx, Destroy, CloseFirst
  <2> QED
    BY <1>3, <2>1, <2>2, <2>3, <2>4 DEF CallStep
<1>4. CASE UNCHANGED vars
  BY <1>4 DEF vars, kernelVars, sockVars, rxVars, mainVars
<1> QED
  BY <1>1, <1>2, <1>3, <1>4, Steps

\* Every step keeps the types of the connections, the clients' bytes and the
\* backlog.
LEMMA PeerStep ==
  ASSUME TypeOK, [Next]_vars
  PROVE  PeerTypes'
<1>0. PeerTypes /\ DescriptorTypes
  BY TypeGroups
<1> USE DEF PeerTypes
<1>1. ASSUME NEW c \in Clients, Connect(c)
      PROVE  PeerTypes'
  BY <1>0, <1>1, AppendProperties DEF Connect
<1>2. ASSUME NEW c \in Clients, Write(c)
      PROVE  PeerTypes'
  <2>1. todo[c] \in Seq(Bytes) /\ todo[c] # <<>> /\ inq[c] \in Seq(Bytes)
    BY <1>0, <1>2 DEF Write
  <2>2. Head(todo[c]) \in Bytes /\ Tail(todo[c]) \in Seq(Bytes)
    BY <2>1, HeadTailProperties
  <2>3. Append(inq[c], Head(todo[c])) \in Seq(Bytes)
    BY <2>1, <2>2, AppendProperties
  <2>4. todo' \in [Clients -> Seq(Bytes)] /\ inq' \in [Clients -> Seq(Bytes)]
    BY <1>0, <1>2, <2>2, <2>3 DEF Write
  <2> QED
    BY <1>0, <1>2, <2>4 DEF Write
<1>3. ASSUME NEW c \in Clients, Close(c)
      PROVE  PeerTypes'
  <2>1. conn' \in [Clients -> {"new", "up", "fin", "rst"}]
    BY <1>0, <1>3 DEF Close
  <2>2. inq' \in [Clients -> Seq(Bytes)]
    BY <1>0, <1>3, EmptySeq, ZenonT(60) DEF Close
  <2> QED
    BY <1>0, <1>3, <2>1, <2>2 DEF Close
<1>4. CASE RxAccept
  <2>1. backlog # <<>> => Tail(backlog) \in Seq(Clients)
    BY <1>0, HeadTailProperties
  <2> QED
    BY <1>0, <1>4, <2>1 DEF RxAccept
<1>8. CASE RxWake
  <2>1. backlog' \in Seq(Clients)
    BY <1>0, <1>8, HeadTailProperties, EmptySeq DEF RxWake
  <2>2. conn' \in [Clients -> {"new", "up", "fin", "rst"}]
    BY <1>0, <1>8 DEF RxWake
  <2> QED
    BY <1>0, <1>8, <2>1, <2>2 DEF RxWake
<1>5. CASE RxRecv
  <2> DEFINE q == inq[m_ClientSock]
  <2>1. PICK k \in 1..Len(q) : inq' = [inq EXCEPT ![m_ClientSock] = SubSeq(q, k + 1, Len(q))]
    BY <1>5 DEF RxRecv
  <2>2. m_ClientSock \in Clients /\ q \in Seq(Bytes) /\ Len(q) \in Nat
    BY <1>0, <1>5 DEF RxRecv, DescriptorTypes
  <2>3. SubSeq(q, k + 1, Len(q)) \in Seq(Bytes)
    <3> HIDE DEF q
    <3>1. \A i \in (k + 1)..Len(q) : q[i] \in Bytes
      BY <2>2, ElementOfSeq
    <3> QED
      BY <2>2, <3>1, SubSeqProperties
  <2> QED
    BY <1>0, <1>5, <2>1, <2>2, <2>3 DEF RxRecv
<1>6. CASE CloseServer
  <2>1. conn' \in [Clients -> {"new", "up", "fin", "rst"}]
    BY <1>0, <1>6 DEF CloseServer
  <2> QED
    BY <1>0, <1>6, <2>1, EmptySeq DEF CloseServer
<1>7. CASE UNCHANGED peerVars
  BY <1>0, <1>7 DEF peerVars
<1> QED
  BY <1>1, <1>2, <1>3, <1>4, <1>5, <1>6, <1>7, <1>8, Steps, RxFrameCondition, MainFrameCondition
     DEF peerSteps, vars

\* Every step keeps the types of the descriptors.
LEMMA DescriptorStep ==
  ASSUME TypeOK, [Next]_vars
  PROVE  DescriptorTypes'
<1>0. PeerTypes /\ DescriptorTypes
  BY TypeGroups
<1> USE DEF DescriptorTypes
<1>1. CASE RxAccept
  <2>1. backlog # <<>> => Head(backlog) \in Clients
    BY <1>0, HeadTailProperties DEF PeerTypes
  <2> QED
    BY <1>0, <1>1, <2>1 DEF RxAccept, sockVars, rxHist
<1>5. CASE RxWake
  <2>1. Head(backlog) \in Clients
    BY <1>0, <1>5, HeadTailProperties DEF PeerTypes, RxWake
  <2> QED
    BY <1>0, <1>5, <2>1 DEF RxWake, sockVars, rxHist
<1>2. CASE RxStore \/ RxRecv
  BY <1>0, <1>2 DEF RxStore, RxRecv, kernelVars, sockVars, rxHist
<1>3. CASE CloseClient \/ ForgetClient \/ Destroy
  BY <1>0, <1>3 DEF CloseClient, ForgetClient, Destroy, kernelVars, sockVars, rxVars, rxHist
<1>4. CASE UNCHANGED descriptorVars
  BY <1>0, <1>4 DEF descriptorVars
<1> QED
  BY <1>1, <1>2, <1>3, <1>4, <1>5, Steps, PeerFrameCondition, RxFrameCondition,
     MainFrameCondition DEF vars, kernelVars, sockVars, rxVars, rxHist, descriptorVars

\* Every step keeps the types of the bytes and lines received.
LEMMA StreamStep ==
  ASSUME TypeOK, BufferInv, [Next]_vars
  PROVE  StreamTypes'
<1>0. PeerTypes /\ DescriptorTypes /\ StreamTypes
  BY TypeGroups
<1> USE DEF StreamTypes
<1>1. CASE RxRecv
  <2> DEFINE q == inq[m_ClientSock]
  <2>1. PICK k \in 1..Len(q) :
          /\ m_ReadBuffer' = [i \in 1..BlockSize |-> IF i <= k THEN q[i] ELSE m_ReadBuffer[i]]
          /\ arrived' = arrived \o SubSeq(q, 1, k)
    BY <1>1 DEF RxRecv
  <2>2. m_ClientSock \in Clients /\ q \in Seq(Bytes) /\ Len(q) \in Nat
    BY <1>0, <1>1 DEF RxRecv, PeerTypes, DescriptorTypes
  <2> HIDE DEF q
  <2>3. \A i \in 1..Len(q) : q[i] \in Bytes
    BY <2>2, ElementOfSeq
  <2>4. SubSeq(q, 1, k) \in Seq(Bytes)
    BY <2>2, <2>3, SubSeqProperties
  <2>5. m_ReadBuffer' \in [1..BlockSize -> Bytes]
    BY <1>0, <2>1, <2>2, <2>3, BytesAssumption
  <2>6. arrived' \in Seq(Bytes)
    BY <1>0, <2>1, <2>4, ConcatProperties
  <2> QED
    BY <1>0, <1>1, <2>5, <2>6 DEF RxRecv
<1>2. CASE RxAppend
  <2>1. CString \in Seq(Bytes)
    BY CStringIsCut DEF BufferInv
  <2>2. m_CmdBuffer' \in Seq(Bytes) /\ received' \in Seq(Bytes)
    BY <1>0, <1>2, <2>1, ConcatProperties DEF RxAppend
  <2>3. m_ReadBuffer' \in [1..BlockSize -> Bytes]
    BY <1>2, BytesAssumption DEF RxAppend, ZeroBuffer
  <2> QED
    BY <1>0, <1>2, <2>2, <2>3 DEF RxAppend
<1>3. CASE RxFrame /\ HasLine
  <2>1. NewLine \in 1..Len(m_CmdBuffer) /\ Len(m_CmdBuffer) \in Nat
    BY <1>0, <1>3, NewLineIsFirst
  <2>2. \A i \in 1..Len(m_CmdBuffer) : m_CmdBuffer[i] \in Bytes
    BY <1>0, ElementOfSeq
  <2>3. /\ SubSeq(m_CmdBuffer, 1, NewLine - 1) \in Seq(Bytes)
        /\ SubSeq(m_CmdBuffer, NewLine + 1, Len(m_CmdBuffer)) \in Seq(Bytes)
    BY <1>0, <2>1, <2>2, SubSeqProperties
  <2>4. Append(cmdStrs, SubSeq(m_CmdBuffer, 1, NewLine - 1)) \in Seq(Seq(Bytes))
    BY <1>0, <2>3, AppendProperties
  <2> QED
    BY <1>0, <1>3, <2>3, <2>4 DEF RxFrame, rxHist
<1>4. CASE RxFrame /\ ~HasLine
  BY <1>0, <1>4 DEF RxFrame, rxHist
<1>5. CASE RxInvoke /\ cmdStrs # <<>>
  <2>1. Head(cmdStrs) \in Seq(Bytes) /\ Tail(cmdStrs) \in Seq(Seq(Bytes))
    BY <1>0, <1>5, HeadTailProperties
  <2>2. rxFrom \in Clients
    BY <1>5 DEF RxInvoke, RxGoto, BufferInv
  <2>3. Append(delivered, Head(cmdStrs)) \in Seq(Seq(Bytes))
    BY <1>0, <2>1, AppendProperties
  <2>4. Append(owner, rxFrom) \in Seq(Clients)
    BY <1>0, <2>2, AppendProperties
  <2> QED
    BY <1>0, <1>5, <2>1, <2>3, <2>4 DEF RxInvoke
<1>6. CASE RxInvoke /\ cmdStrs = <<>>
  BY <1>0, <1>6 DEF RxInvoke
<1>7. CASE UNCHANGED streamVars
  BY <1>0, <1>7 DEF streamVars
<1> QED
  BY <1>1, <1>2, <1>3, <1>4, <1>5, <1>6, <1>7, Steps, PeerFrameCondition, RxFrameCondition,
     MainFrameCondition DEF vars, rxVars, rxHist, streamVars

\* Every step keeps the types of the replies.
LEMMA ReplyStep ==
  ASSUME TypeOK, [Next]_vars
  PROVE  ReplyTypes'
<1>0. DescriptorTypes /\ ReplyTypes
  BY TypeGroups
<1>1. CASE SendData
  BY <1>0, <1>1 DEF ReplyTypes, SendData
<1>2. CASE DoSend
  <2> DEFINE r == [n |-> answered, to |-> m_ClientSock]
             R == [n : Nat, to : Clients]
  <2>1. m_ClientSock \in fds => r \in R
    BY <1>0 DEF ReplyTypes, DescriptorTypes
  <2>2. replies \in Seq(R) /\ answered \in Nat
    BY <1>0 DEF ReplyTypes
  <2>3. replies' = replies \/ (replies' = Append(replies, r) /\ m_ClientSock \in fds)
    BY <1>2 DEF DoSend
  <2>4. replies' \in Seq(R)
    <3> HIDE DEF r, R
    <3> QED
      BY <2>1, <2>2, <2>3, AppendProperties
  <2> QED
    BY <1>2, <2>2, <2>4 DEF ReplyTypes, DoSend
<1>3. CASE UNCHANGED replyVars
  BY <1>0, <1>3 DEF ReplyTypes, replyVars
<1> QED
  BY <1>1, <1>2, <1>3, Steps, PeerFrameCondition, RxFrameCondition, MainFrameCondition
     DEF vars, mainVars, replyVars

\* Every step keeps the types.
LEMMA TypeStep ==
  ASSUME TypeOK, BufferInv, [Next]_vars
  PROVE  TypeOK'
<1>1. ControlTypes'
  BY ControlStep, TypeGroups
<1> QED
  BY <1>1, PeerStep, DescriptorStep, StreamStep, ReplyStep, TypeGroups

(***************************************************************************)
(* The threads, and what StopComm closes.                                  *)
(***************************************************************************)
\* The receive thread takes a step only while it runs, and the process is alive.
LEMMA RxRuns ==
  ASSUME RxStep
  PROVE  Alive /\ rx \notin {"none", "ended"} /\ rx' # "none"
BY DEF RxStep, RxTest, RxState, RxListen, RxAccept, RxBlock, RxWake, RxStore, RxConnected,
       RxRecv, RxNothing, RxDisconnected, RxReset, RxAppend, RxFrame, RxInvoke, RxGoto

\* Every step keeps ThreadInv.
LEMMA ThreadStep ==
  ASSUME TypeOK, ThreadInv, [Next]_vars
  PROVE  ThreadInv'
<1> USE DEF ThreadInv, CloseFirst
<1>1. CASE peerSteps
  BY <1>1, PeerFrameCondition DEF kernelVars, sockVars, rxVars, mainVars
<1>2. CASE RxStep
  BY <1>2, RxRuns, RxFrameCondition
<1>3. CASE SendData \/ LeaveLoop \/ CallStep
  <2> USE DEF Goto, kernelVars, sockVars, rxVars
  <2>1. CASE InitSocket \/ StartComm \/ SendData \/ LeaveLoop
    BY <2>1 DEF InitSocket, StartComm, SendData, LeaveLoop
  <2>2. CASE DoSend \/ StopComm
    BY <2>2 DEF DoSend, StopComm
  <2>3. CASE TestClient \/ CloseClient \/ ForgetClient \/ CloseServer
    BY <2>3 DEF TestClient, CloseClient, ForgetClient, CloseServer
  <2>4. CASE ForgetServer \/ SetDone
    BY <2>4 DEF ForgetServer, SetDone
  <2>5. CASE JoinRx \/ Destroy
    BY <2>5 DEF JoinRx, Destroy
  <2> QED
    BY <1>3, <2>1, <2>2, <2>3, <2>4, <2>5 DEF CallStep
<1>4. CASE UNCHANGED vars
  BY <1>4 DEF vars, kernelVars, sockVars, rxVars, mainVars
<1> QED
  BY <1>1, <1>2, <1>3, <1>4, Steps

\* Every step keeps StopInv: the receive thread, which alone opens sockets, has
\* ended when a StopComm that found a client begins to close.
LEMMA StopStep ==
  ASSUME TypeOK, ThreadInv, StopInv, [Next]_vars
  PROVE  StopInv'
<1> USE DEF StopInv, CloseFirst
<1>1. CASE peerSteps
  BY <1>1, PeerFrameCondition DEF kernelVars, sockVars, rxVars, mainVars
<1>2. CASE RxStep
  BY <1>2, RxRuns, RxFrameCondition DEF ThreadInv, CloseFirst
<1>3. CASE SendData \/ LeaveLoop \/ CallStep
  <2> USE DEF Goto, kernelVars, sockVars, rxVars
  <2>1. CASE InitSocket \/ StartComm \/ SendData \/ LeaveLoop
    BY <2>1 DEF InitSocket, StartComm, SendData, LeaveLoop
  <2>2. CASE DoSend \/ StopComm
    BY <2>2 DEF DoSend, StopComm, ThreadInv
  <2>3. CASE TestClient \/ CloseClient \/ ForgetClient \/ CloseServer
    BY <2>3 DEF TestClient, CloseClient, ForgetClient, CloseServer
  <2>4. CASE ForgetServer \/ SetDone
    BY <2>4 DEF ForgetServer, SetDone
  <2>5. CASE JoinRx \/ Destroy
    BY <2>5 DEF JoinRx, Destroy
  <2> QED
    BY <1>3, <2>1, <2>2, <2>3, <2>4, <2>5 DEF CallStep
<1>4. CASE UNCHANGED vars
  BY <1>4 DEF vars, kernelVars, sockVars, rxVars, mainVars
<1> QED
  BY <1>1, <1>2, <1>3, <1>4, Steps

(***************************************************************************)
(* The sockets.                                                            *)
(***************************************************************************)
\* Every step keeps PeerInv.
LEMMA PeerInvStep ==
  ASSUME TypeOK, PeerInv, [Next]_vars
  PROVE  PeerInv'
<1>0. PeerTypes /\ DescriptorTypes
  BY TypeGroups
<1> USE DEF PeerInv, PeerTypes, DescriptorTypes
<1>1. ASSUME NEW c \in Clients, Connect(c)
      PROVE  PeerInv'
  <2>1. \A d \in Clients : conn[d] # "new" => conn'[d] # "new"
    BY <1>0, <1>1 DEF Connect
  <2>2. conn'[c] # "new"
    BY <1>0, <1>1 DEF Connect
  <2>3. \A i \in 1..Len(backlog') :
          backlog'[i] = c \/ (i \in 1..Len(backlog) /\ backlog'[i] = backlog[i])
    <3>1. backlog' = Append(backlog, c) /\ backlog \in Seq(Clients) /\ Len(backlog) \in Nat
      BY <1>0, <1>1 DEF Connect
    <3>2. /\ Len(backlog') = Len(backlog) + 1
          /\ \A i \in 1..Len(backlog) : backlog'[i] = backlog[i]
          /\ backlog'[Len(backlog) + 1] = c
      BY <3>1, AppendProperties
    <3> QED
      BY <3>1, <3>2
  <2>4. \A i \in 1..Len(backlog) : backlog[i] \in Clients
    BY <1>0, ElementOfSeq
  <2> QED
    BY <1>0, <1>1, <2>1, <2>2, <2>3, <2>4 DEF Connect, kernelVars
<1>2. ASSUME NEW c \in Clients, Write(c) \/ Close(c)
      PROVE  PeerInv'
  <2>1. \A d \in Clients : conn[d] # "new" => conn'[d] # "new"
    BY <1>0, <1>2 DEF Write, Close
  <2>2. \A i \in 1..Len(backlog) : backlog[i] \in Clients
    BY <1>0, ElementOfSeq
  <2> QED
    BY <1>0, <1>2, <2>1, <2>2 DEF Write, Close, kernelVars
<1>3. CASE RxAccept
  <2>1. CASE listening /\ backlog # <<>>
    <3>1. Len(backlog) \in Nat /\ Len(backlog) > 0 /\ Head(backlog) = backlog[1]
      BY <1>0, <2>1
    <3>2. /\ Len(Tail(backlog)) = Len(backlog) - 1
          /\ \A i \in 1..(Len(backlog) - 1) : Tail(backlog)[i] = backlog[i + 1]
      BY <1>0, <2>1, HeadTailProperties
    <3>3. \A i \in 1..(Len(backlog) - 1) : i + 1 \in 1..Len(backlog)
      BY <3>1
    <3>4. conn[Head(backlog)] # "new"
      BY <3>1
    <3>5. backlog' = Tail(backlog) /\ fds' = fds \cup {Head(backlog)} /\ conn' = conn
      BY <1>3, <2>1 DEF RxAccept
    <3> QED
      BY <3>2, <3>3, <3>4, <3>5
  <2>2. CASE ~(listening /\ backlog # <<>>)
    BY <1>3, <2>2 DEF RxAccept
  <2> QED
    BY <2>1, <2>2
<1>8. CASE RxWake
  <2>1. Len(backlog) \in Nat /\ Len(backlog) > 0 /\ Head(backlog) = backlog[1]
    BY <1>0, <1>8 DEF RxWake
  <2>2. \A d \in Clients : conn[d] # "new" => conn'[d] # "new"
    BY <1>0, <1>8 DEF RxWake
  <2>3. Head(backlog) \in Clients /\ conn[Head(backlog)] # "new"
    BY <1>0, <2>1, ElementOfSeq
  <2>4. \A c \in fds' : conn'[c] # "new"
    BY <1>0, <1>8, <2>2, <2>3 DEF RxWake
  <2>5. \A i \in 1..Len(backlog') :
          i + 1 \in 1..Len(backlog) /\ backlog'[i] = backlog[i + 1]
    <3>1. backlog' = Tail(backlog) \/ backlog' = <<>>
      BY <1>8 DEF RxWake
    <3>2. /\ Len(Tail(backlog)) = Len(backlog) - 1
          /\ \A i \in 1..(Len(backlog) - 1) : Tail(backlog)[i] = backlog[i + 1]
      BY <1>0, <1>8, HeadTailProperties DEF RxWake
    <3> QED
      BY <2>1, <3>1, <3>2
  <2>6. \A i \in 1..Len(backlog) : backlog[i] \in Clients
    BY <1>0, ElementOfSeq
  <2> QED
    BY <2>2, <2>4, <2>5, <2>6
<1>4. CASE RxStore \/ RxRecv
  BY <1>4 DEF RxStore, RxRecv, peerVars, kernelVars
<1>5. CASE CloseServer
  <2>1. \A d \in Clients : conn[d] # "new" => conn'[d] # "new"
    BY <1>0, <1>5 DEF CloseServer
  <2>2. (backlog' = <<>> \/ backlog' = backlog) /\ fds' = fds
    BY <1>5 DEF CloseServer
  <2>3. \A i \in 1..Len(backlog) : backlog[i] \in Clients
    BY <1>0, ElementOfSeq
  <2> QED
    BY <1>0, <2>1, <2>2, <2>3
<1>6. CASE (CloseClient \/ ForgetClient \/ Destroy) /\ UNCHANGED peerVars
  BY <1>6 DEF CloseClient, ForgetClient, Destroy, peerVars, kernelVars
<1>7. CASE UNCHANGED peerVars /\ UNCHANGED fds
  BY <1>7 DEF peerVars
<1> QED
  BY <1>1, <1>2, <1>3, <1>4, <1>5, <1>6, <1>7, <1>8, Steps, PeerFrameCondition,
     RxFrameCondition, MainFrameCondition DEF peerSteps, vars, kernelVars, descriptorVars, CloseServer

\* Every step keeps SocketInv.
LEMMA SocketStep ==
  ASSUME TypeOK, ThreadInv, PeerInv, SocketInv, [Next]_vars
  PROVE  SocketInv'
<1>0. PeerTypes /\ DescriptorTypes /\ INVALID \notin Clients
  BY TypeGroups, SocketAssumption
<1> USE DEF SocketInv, Open, Gone, Serving, CloseFirst
<1>1. CASE peerSteps
  <2>1. \A d \in fds : conn'[d] = "up" => conn[d] = "up"
    BY <1>0, <1>1 DEF peerSteps, Connect, Write, Close, PeerInv, PeerTypes, DescriptorTypes
  <2> QED
    BY <1>1, <2>1, PeerFrameCondition DEF kernelVars, sockVars, rxVars, mainVars
<1>2. CASE RxStep
  <2>1. /\ main' = main /\ stopState' = stopState /\ main \notin {"init", "start", "stopped"}
        /\ ~CloseFirst =>
             main \notin {"close", "closeclient", "forget", "closeserver", "forgetserver"}
    BY <1>2, RxRuns, RxFrameCondition DEF ThreadInv
  <2> USE DEF RxGoto, peerVars, kernelVars, sockVars
  <2>2. CASE RxTest \/ RxState \/ RxListen
    BY <2>1, <2>2 DEF RxTest, RxState, RxListen
  <2>3. CASE RxAccept
    <3>1. backlog # <<>> => Head(backlog) \in Clients
      BY <1>0, HeadTailProperties DEF PeerTypes
    <3>2. CASE listening /\ backlog # <<>>
      <4>1. /\ fds' = fds \cup {Head(backlog)} /\ rxSock' = Head(backlog) /\ rx' = "store"
            /\ UNCHANGED <<conn, sockVars, m_ClientSock, m_ConnectionState>>
            /\ m_ConnectionState = "SERVER_PORT_SETUP" /\ rx = "accept"
        BY <2>3, <3>2 DEF RxAccept
      <4>2. Open => m_ClientSock # Head(backlog) \/ m_ClientSock \in fds
        BY <1>0, <3>1, <3>2
      <4>3. Open => \A c \in fds' : conn'[c] = "up" => c = m_ClientSock' \/ c = rxSock'
        BY <2>1, <4>1, <2>3 DEF RxAccept
      <4>4. Open =>
              /\ m_ClientSock \in fds' \cup {INVALID}
              /\ m_ClientSock \in fds' => conn[m_ClientSock] # "up"
        BY <4>1, <4>2
      <4>5. /\ m_ClientSock' = m_ClientSock /\ m_ConnectionState' = "SERVER_PORT_SETUP"
            /\ rx' = "store" /\ conn' = conn /\ rxSock' \in fds'
        BY <4>1
      <4> QED
        BY <2>1, <4>3, <4>4, <4>5
    <3>3. CASE ~(listening /\ backlog # <<>>)
      BY <2>1, <2>3, <3>3 DEF RxAccept
    <3> QED
      BY <3>2, <3>3
  <2>10. CASE RxBlock
    BY <2>1, <2>10 DEF RxBlock
  <2>11. CASE RxWake
    <3>1. Head(backlog) \in Clients
      BY <1>0, <2>11, HeadTailProperties DEF PeerTypes, RxWake
    <3>2. /\ fds' = fds \cup {Head(backlog)} /\ rxSock' = Head(backlog) /\ rx' = "store"
          /\ m_ClientSock' = m_ClientSock /\ m_ConnectionState' = "SERVER_PORT_SETUP"
          /\ m_ConnectionState = "SERVER_PORT_SETUP" /\ rx = "blocked"
      BY <2>11 DEF RxWake
    <3>3. \A c \in Clients : conn'[c] = "up" => conn[c] = "up"
      BY <1>0, <2>11 DEF RxWake
    <3>4. Open => m_ClientSock # Head(backlog) \/ m_ClientSock \in fds
      BY <1>0, <3>1
    <3>5. Open =>
            /\ m_ClientSock \in fds' \cup {INVALID}
            /\ m_ClientSock \in fds' => conn'[m_ClientSock] # "up"
            /\ \A c \in fds' : conn'[c] = "up" => c = m_ClientSock' \/ c = rxSock'
      BY <1>0, <3>1, <3>2, <3>3, <3>4 DEF DescriptorTypes
    <3> QED
      BY <2>1, <3>2, <3>5
  <2>4. CASE RxStore
    BY <1>0, <2>1, <2>4 DEF RxStore, DescriptorTypes
  <2>5. CASE RxConnected
    BY <2>1, <2>5 DEF RxConnected
  <2>6. CASE RxRecv \/ RxNothing
    BY <2>1, <2>6 DEF RxRecv, RxNothing
  <2>7. CASE RxDisconnected
    BY <2>1, <2>7 DEF RxDisconnected
  <2>8. CASE RxReset
    BY <2>1, <2>8 DEF RxReset
  <2>9. CASE RxAppend \/ RxFrame \/ RxInvoke
    BY <2>1, <2>9 DEF RxAppend, RxFrame, RxInvoke
  <2> QED
    BY <1>2, <2>2, <2>3, <2>4, <2>5, <2>6, <2>7, <2>8, <2>9, <2>10, <2>11 DEF RxStep
<1>3. CASE SendData \/ LeaveLoop \/ CallStep
  <2> USE DEF Goto, peerVars, kernelVars, sockVars, rxVars
  <2>1. CASE InitSocket
    BY <1>0, <2>1 DEF InitSocket, ThreadInv
  <2>2. CASE StartComm
    BY <1>0, <2>2 DEF StartComm, ThreadInv
  <2>3. CASE SendData \/ DoSend \/ LeaveLoop
    BY <2>3 DEF SendData, DoSend, LeaveLoop
  <2>4. CASE StopComm
    BY <2>4 DEF StopComm, ThreadInv
  <2>9. CASE TestClient
    <3>1. m_ClientSock = INVALID => fds \ {m_ClientSock} = fds
      BY <1>0 DEF DescriptorTypes
    <3> QED
      BY <2>9, <3>1 DEF TestClient
  <2>5. CASE CloseClient \/ ForgetClient
    BY <2>5 DEF CloseClient, ForgetClient
  <2>6. CASE CloseServer
    <3>1. \A c \in fds : conn'[c] = "up" => conn[c] = "up"
      BY <1>0, <2>6 DEF CloseServer, PeerTypes, DescriptorTypes
    <3> QED
      BY <2>6, <3>1 DEF CloseServer
  <2>7. CASE ForgetServer \/ SetDone
    BY <2>7 DEF ForgetServer, SetDone
  <2>8. CASE JoinRx \/ Destroy
    BY <2>8 DEF JoinRx, Destroy
  <2> QED
    BY <1>3, <2>1, <2>2, <2>3, <2>4, <2>5, <2>6, <2>7, <2>8, <2>9 DEF CallStep
<1>4. CASE UNCHANGED vars
  BY <1>4 DEF vars, peerVars, kernelVars, sockVars, rxVars, mainVars
<1> QED
  BY <1>1, <1>2, <1>3, <1>4, Steps

(***************************************************************************)
(* The bytes.                                                              *)
(***************************************************************************)
\* Every step keeps BufferInv: a read leaves the buffer's last byte alone.
LEMMA BufferStep ==
  ASSUME TypeOK, ThreadInv, BufferInv, [Next]_vars
  PROVE  BufferInv'
<1>0. DescriptorTypes /\ BlockSize \in Nat /\ BlockSize \in 1..BlockSize
  BY TypeGroups, BytesAssumption
<1> USE DEF BufferInv
<1>1. CASE RxRecv
  <2>1. PICK k \in 1..Len(inq[m_ClientSock]) :
          /\ k <= ReadLimit
          /\ m_ReadBuffer' = [i \in 1..BlockSize |->
                                IF i <= k THEN inq[m_ClientSock][i] ELSE m_ReadBuffer[i]]
    BY <1>1 DEF RxRecv
  <2>2. k < BlockSize
    BY <1>0, <2>1 DEF ReadLimit
  <2>3. m_ReadBuffer'[BlockSize] = NUL
    BY <1>0, <2>1, <2>2
  <2> QED
    BY <1>0, <1>1, <2>3 DEF RxRecv, RxGoto, DescriptorTypes
<1>2. CASE RxAppend
  BY <1>0, <1>2 DEF RxAppend, RxGoto, ZeroBuffer
<1>3. CASE RxFrame \/ RxInvoke
  BY <1>3 DEF RxFrame, RxInvoke, RxGoto, rxHist
<1>4. CASE RxTest \/ RxState \/ RxListen \/ RxAccept \/ RxBlock \/ RxWake \/ RxStore
           \/ RxConnected
  BY <1>4 DEF RxTest, RxState, RxListen, RxAccept, RxBlock, RxWake, RxStore, RxConnected,
              RxGoto, rxHist
<1>5. CASE RxNothing \/ RxDisconnected \/ RxReset
  BY <1>5 DEF RxNothing, RxDisconnected, RxReset, RxGoto, rxHist
<1>6. CASE peerSteps \/ UNCHANGED vars
  BY <1>6, PeerFrameCondition DEF vars, rxVars, rxHist
<1>7. CASE SendData \/ LeaveLoop \/ CallStep
  <2>1. UNCHANGED <<m_ReadBuffer, rxFrom>> /\ (rx' = rx \/ (rx = "none" /\ rx' = "test"))
    BY <1>7, MainFrameCondition DEF streamVars, StartComm, ThreadInv, Goto
  <2> QED
    BY <2>1 DEF ZeroBuffer
<1> QED
  BY <1>1, <1>2, <1>3, <1>4, <1>5, <1>6, <1>7, Steps DEF RxStep

\* CString of any buffer.
StringIn(b) ==
  [i \in 1..((CHOOSE i \in 1..BlockSize : FirstAt(b, NUL, i)) - 1) |-> b[i]]

\* A buffer that begins with k bytes, none of them 0, and then a 0, holds the
\* string of them.
LEMMA StringOfRead ==
  ASSUME NEW b, NEW q \in Seq(Bytes), NEW k \in 1..Len(q), k < BlockSize,
         \A i \in 1..k : b[i] = q[i] /\ q[i] # NUL,
         b[k + 1] = NUL
  PROVE  StringIn(b) = SubSeq(q, 1, k)
<1>1. k \in Nat /\ BlockSize \in Nat /\ k + 1 \in 1..BlockSize /\ Len(q) \in Nat
  BY BytesAssumption
<1> DEFINE p == CHOOSE i \in 1..BlockSize : FirstAt(b, NUL, i)
<1>2. FirstAt(b, NUL, k + 1)
  BY <1>1 DEF FirstAt
<1>3. \A i \in 1..BlockSize : FirstAt(b, NUL, i) => i = k + 1
  BY <1>1 DEF FirstAt
<1>4. p = k + 1
  BY <1>1, <1>2, <1>3
<1>5. StringIn(b) = [i \in 1..(p - 1) |-> b[i]]
  BY DEF StringIn
<1>6. SubSeq(q, 1, k) = [i \in 1..k |-> q[i]]
  BY <1>1, SubSeqProperties
<1> HIDE DEF p
<1>7. p - 1 = k
  BY <1>1, <1>4
<1> QED
  BY <1>5, <1>6, <1>7

\* Every step keeps NoByteLost: what recv wrote is the C string in the buffer.
LEMMA ByteStep ==
  ASSUME TypeOK, ThreadInv, BufferInv, NoByteLost, [Next]_vars
  PROVE  NoByteLost'
<1>0. PeerTypes /\ DescriptorTypes /\ StreamTypes /\ BlockSize \in Nat
  BY TypeGroups, BytesAssumption
<1> USE DEF NoByteLost
<1>1. CASE RxRecv
  <2> DEFINE q == inq[m_ClientSock]
  <2>1. PICK k \in 1..Len(q) :
          /\ k <= ReadLimit
          /\ m_ReadBuffer' = [i \in 1..BlockSize |-> IF i <= k THEN q[i] ELSE m_ReadBuffer[i]]
          /\ arrived' = arrived \o SubSeq(q, 1, k)
    BY <1>1 DEF RxRecv
  <2>2. m_ClientSock \in Clients /\ q \in Seq(Bytes) /\ Len(q) \in Nat
    BY <1>0, <1>1 DEF RxRecv, PeerTypes, DescriptorTypes
  <2> HIDE DEF q
  <2>3. k < BlockSize /\ k \in Nat /\ k + 1 \in 1..BlockSize /\ ~(k + 1 <= k)
    BY <1>0, <2>1, <2>2 DEF ReadLimit
  <2>4. m_ReadBuffer'[k + 1] = NUL
    <3>1. m_ReadBuffer[k + 1] = NUL
      BY <1>1, <2>3 DEF RxRecv, RxGoto, BufferInv, ZeroBuffer
    <3> QED
      BY <2>1, <2>3, <3>1
  <2>5. SubSeq(q, 1, k) \in Seq(Bytes) /\ Len(SubSeq(q, 1, k)) = k
        /\ \A i \in 1..k : SubSeq(q, 1, k)[i] = q[i]
    <3>1. \A i \in 1..k : q[i] \in Bytes
      BY <2>2, <2>3, ElementOfSeq
    <3> QED
      BY <2>2, <2>3, <3>1, SubSeqProperties
  <2>6. /\ Len(arrived') = Len(arrived) + k
        /\ \A i \in 1..Len(arrived) : arrived'[i] = arrived[i]
        /\ \A i \in 1..k : arrived'[Len(arrived) + i] = q[i]
    <3>1. arrived \in Seq(Bytes) /\ Len(arrived) \in Nat
      BY <1>0 DEF StreamTypes
    <3>2. /\ Len(arrived') = Len(arrived) + Len(SubSeq(q, 1, k))
          /\ \A i \in 1..Len(arrived) : arrived'[i] = arrived[i]
          /\ \A i \in 1..Len(SubSeq(q, 1, k)) :
               arrived'[Len(arrived) + i] = SubSeq(q, 1, k)[i]
      BY <2>1, <2>5, <3>1, ConcatProperties
    <3> QED
      BY <2>3, <2>5, <3>1, <3>2
  <2>7. ASSUME \A i \in 1..Len(arrived') : arrived'[i] # NUL
        PROVE  arrived' = received' \o CString'
    <3>1. Len(arrived) \in Nat
      BY <1>0 DEF StreamTypes
    <3>2. \A i \in 1..Len(arrived) : arrived[i] # NUL
      BY <2>3, <2>6, <2>7, <3>1
    <3>3. \A i \in 1..k : q[i] # NUL
      BY <2>3, <2>6, <2>7, <3>1
    <3>4. arrived = received
      BY <1>0, <1>1, <3>2, ConcatEmptySeq DEF RxRecv, RxGoto, StreamTypes
    <3>5. \A i \in 1..k : m_ReadBuffer'[i] = q[i] /\ q[i] # NUL
      BY <1>0, <2>1, <2>3, <3>3
    <3>6. CString' = SubSeq(q, 1, k)
      <4>1. StringIn(m_ReadBuffer') = SubSeq(q, 1, k)
        BY <2>2, <2>3, <2>4, <3>5, StringOfRead
      <4> QED
        BY <4>1 DEF StringIn, CString, FirstNul, FirstAt
    <3> QED
      BY <1>1, <2>1, <3>4, <3>6 DEF RxRecv
  <2> QED
    BY <1>1, <2>7 DEF RxRecv, RxGoto
<1>2. CASE RxAppend
  <2>1. received' \in Seq(Bytes)
    BY StreamStep DEF StreamTypes
  <2>2. received' = received \o CString /\ rx = "append" /\ rx' = "frame" /\ arrived' = arrived
    BY <1>2 DEF RxAppend, RxGoto
  <2> QED
    BY <2>1, <2>2, ConcatEmptySeq
<1>3. CASE UNCHANGED <<arrived, received, m_ReadBuffer>> /\ (rx = "append" <=> rx' = "append")
  BY <1>3 DEF CString, FirstNul
<1>4. CASE RxFrame \/ RxInvoke
  BY <1>3, <1>4 DEF RxFrame, RxInvoke, RxGoto, rxHist
<1>5. CASE RxTest \/ RxState \/ RxListen \/ RxAccept \/ RxBlock \/ RxWake \/ RxStore
           \/ RxConnected
  BY <1>3, <1>5 DEF RxTest, RxState, RxListen, RxAccept, RxBlock, RxWake, RxStore,
                    RxConnected, RxGoto, rxHist
<1>6. CASE RxNothing \/ RxDisconnected \/ RxReset
  BY <1>3, <1>6 DEF RxNothing, RxDisconnected, RxReset, RxGoto, rxHist
<1>7. CASE peerSteps \/ UNCHANGED vars
  BY <1>3, <1>7, PeerFrameCondition DEF vars, rxVars, rxHist
<1>8. CASE SendData \/ LeaveLoop \/ CallStep
  <2>1. UNCHANGED <<m_ReadBuffer, received, arrived>>
    BY <1>8, MainFrameCondition DEF streamVars
  <2>2. CASE rx' = rx
    BY <1>3, <2>1, <2>2
  <2>3. CASE StartComm
    BY <1>3, <2>1, <2>3 DEF StartComm, ThreadInv, Goto
  <2> QED
    BY <1>8, <2>2, <2>3, MainFrameCondition
<1> QED
  BY <1>1, <1>2, <1>4, <1>5, <1>6, <1>7, <1>8, Steps DEF RxStep

(***************************************************************************)
(* The lines.                                                              *)
(***************************************************************************)
\* The newlines among the first i bytes are so many.
LEMMA NewlinesFinite ==
  ASSUME NEW s, NEW i \in Nat
  PROVE  IsFiniteSet(Newlines(s, i)) /\ Cardinality(Newlines(s, i)) \in Nat
<1>1. IsFiniteSet(1..i)
  BY FS_Interval
<1>2. Newlines(s, i) \in SUBSET (1..i)
  BY DEF Newlines
<1>3. IsFiniteSet(Newlines(s, i))
  BY <1>1, <1>2, FS_Subset
<1> QED
  BY <1>3, FS_CardinalityType

\* They are more up to a later newline.
LEMMA NewlinesGrow ==
  ASSUME NEW s, NEW i \in Nat, NEW j \in Nat, i < j, s[j] = NL
  PROVE  Cardinality(Newlines(s, i)) < Cardinality(Newlines(s, j))
<1> DEFINE I == Newlines(s, i)
           J == Newlines(s, j)
<1>1. IsFiniteSet(J) /\ Cardinality(I) \in Nat /\ Cardinality(J) \in Nat
  BY NewlinesFinite
<1>2. I \in SUBSET J /\ j \in J /\ j \notin I
  BY DEF Newlines
<1> HIDE DEF I, J
<1>3. Cardinality(I) <= Cardinality(J) /\ (Cardinality(J) = Cardinality(I) => J = I)
  BY <1>1, <1>2, FS_Subset
<1>4. Cardinality(I) < Cardinality(J)
  BY <1>1, <1>2, <1>3
<1> QED
  BY <1>4 DEF I, J

\* The k-th line ends in one place: EndOf.
LEMMA EndIsUnique ==
  ASSUME NEW s, Len(s) \in Nat, NEW k \in Nat, k > 0, NEW i, EndsLine(s, k, i)
  PROVE  EndOf(s, k) = i
<1>1. ASSUME NEW j \in 1..Len(s), EndsLine(s, k, j)
      PROVE  j = i
  <2>1. /\ i \in Nat /\ j \in Nat /\ s[i] = NL /\ s[j] = NL
        /\ Cardinality(Newlines(s, i)) = k /\ Cardinality(Newlines(s, j)) = k
    BY <1>1 DEF EndsLine
  <2>2. ~(i < j) /\ ~(j < i)
    BY <2>1, NewlinesGrow
  <2> QED
    BY <2>1, <2>2
<1>2. i \in 1..Len(s)
  BY DEF EndsLine
<1> DEFINE P(j) == s[j] = NL /\ Cardinality(Newlines(s, j)) = k
<1>3. P(i) /\ \A j \in 1..Len(s) : P(j) => j = i
  BY <1>1 DEF EndsLine
<1>4. EndOf(s, k) = CHOOSE j \in 1..Len(s) : P(j)
  BY DEF EndOf
<1> HIDE DEF P
<1> QED
  BY <1>2, <1>3, <1>4

\* It stays there when bytes are appended.
LEMMA EndStays ==
  ASSUME NEW s \in Seq(Bytes), NEW t \in Seq(Bytes), NEW k, NEW i, EndsLine(s, k, i)
  PROVE  EndsLine(s \o t, k, i)
<1>1. /\ Len(s \o t) = Len(s) + Len(t)
      /\ \A j \in 1..(Len(s) + Len(t)) :
           (s \o t)[j] = IF j <= Len(s) THEN s[j] ELSE t[j - Len(s)]
  BY ConcatProperties
<1>2. Len(s) \in Nat /\ Len(t) \in Nat /\ i \in 1..Len(s)
  BY LenProperties DEF EndsLine
<1>3. \A j \in 1..i : j \in 1..(Len(s) + Len(t)) /\ j <= Len(s)
  BY <1>2
<1>4. \A j \in 1..i : (s \o t)[j] = s[j]
  BY <1>1, <1>3
<1>5. Newlines(s \o t, i) = Newlines(s, i)
  BY <1>4 DEF Newlines
<1>6. i \in 1..Len(s \o t) /\ (s \o t)[i] = s[i]
  BY <1>1, <1>2, <1>4
<1> QED
  BY <1>5, <1>6 DEF EndsLine

\* The first newline behind the end of the k-th line, or of nothing, ends the
\* next one.
LEMMA NextEnd ==
  ASSUME NEW s, Len(s) \in Nat, NEW k \in Nat, NEW e \in Nat,
         (k = 0 /\ e = 0) \/ EndsLine(s, k, e),
         NEW i \in (e + 1)..Len(s), s[i] = NL, \A j \in (e + 1)..(i - 1) : s[j] # NL
  PROVE  EndsLine(s, k + 1, i)
<1>1. i \in Nat /\ i \in 1..Len(s) /\ e < i
  OBVIOUS
<1>2. Newlines(s, i) = Newlines(s, e) \cup {i}
  <2>1. \A j \in 1..i : j \in 1..e \/ j \in (e + 1)..(i - 1) \/ j = i
    BY <1>1
  <2>2. \A j \in 1..e : j \in 1..i
    BY <1>1
  <2> QED
    BY <1>1, <2>1, <2>2 DEF Newlines
<1>3. i \notin Newlines(s, e)
  BY <1>1 DEF Newlines
<1>4. IsFiniteSet(Newlines(s, e))
  BY NewlinesFinite
<1>5. Cardinality(Newlines(s, e)) = k
  <2>1. CASE k = 0 /\ e = 0
    <3>1. Newlines(s, e) = {}
      BY <2>1 DEF Newlines
    <3> QED
      BY <2>1, <3>1, FS_EmptySet
  <2>2. CASE EndsLine(s, k, e)
    BY <2>2 DEF EndsLine
  <2> QED
    BY <2>1, <2>2
<1>6. Cardinality(Newlines(s, i)) = k + 1
  BY <1>2, <1>3, <1>4, <1>5, FS_AddElement
<1> QED
  BY <1>1, <1>6 DEF EndsLine

\* The end of the last line of a cut is in the bytes, or 0.
LEMMA LastEnd ==
  ASSUME NEW s, Len(s) \in Nat, NEW lines, Len(lines) \in Nat, NEW rest, IsCut(s, lines, rest),
         NEW k \in 0..Len(lines)
  PROVE  /\ EndOf(s, k) \in 0..Len(s)
         /\ (k = 0 /\ EndOf(s, k) = 0) \/ EndsLine(s, k, EndOf(s, k))
<1>1. CASE k = 0
  BY <1>1 DEF EndOf
<1>2. CASE k # 0
  <2>1. k \in 1..Len(lines)
    BY <1>2
  <2>2. EndsLine(s, k, EndOf(s, k))
    BY <2>1 DEF IsCut
  <2> QED
    BY <2>2 DEF EndsLine
<1> QED
  BY <1>1, <1>2

\* More bytes go to the rest (m_CmdBuffer.append, update_rx, line 341).
LEMMA CutAppend ==
  ASSUME NEW s \in Seq(Bytes), NEW t \in Seq(Bytes), NEW lines \in Seq(Seq(Bytes)), NEW rest,
         IsCut(s, lines, rest)
  PROVE  IsCut(s \o t, lines, rest \o t)
<1> DEFINE c == s \o t
           n == Len(lines)
<1>1. c \in Seq(Bytes) /\ Len(c) \in Nat /\ Len(s) \in Nat /\ n \in Nat
  BY ConcatProperties, LenProperties
<1>2. \A k \in 1..n : EndsLine(s, k, EndOf(s, k))
  BY DEF IsCut
<1>3. \A k \in 1..n : EndsLine(c, k, EndOf(s, k))
  BY <1>2, EndStays
<1> HIDE DEF c
<1>4. \A k \in 0..n : EndOf(c, k) = EndOf(s, k)
  <2> TAKE k \in 0..n
  <2>1. CASE k = 0
    BY <2>1 DEF EndOf
  <2>2. CASE k # 0
    <3>1. k \in 1..n /\ k \in Nat /\ k > 0
      BY <1>1, <2>2
    <3>2. EndsLine(c, k, EndOf(s, k))
      BY <1>3, <3>1
    <3> QED
      BY <1>1, <3>1, <3>2, EndIsUnique
  <2> QED
    BY <2>1, <2>2
<1>5. \A k \in 1..n : k \in 0..n /\ k - 1 \in 0..n
  BY <1>1
<1>6. \A k \in 1..n : EndsLine(c, k, EndOf(c, k))
  BY <1>3, <1>4, <1>5
<1>7. ASSUME NEW k \in 1..n
      PROVE  lines[k] = SubSeq(c, EndOf(c, k - 1) + 1, EndOf(c, k) - 1)
  <2>1. lines[k] = SubSeq(s, EndOf(s, k - 1) + 1, EndOf(s, k) - 1)
    BY DEF IsCut
  <2>2. EndOf(s, k - 1) \in 0..Len(s) /\ EndOf(s, k) \in 0..Len(s)
    BY <1>1, <1>5, LastEnd
  <2> DEFINE a == EndOf(s, k - 1) + 1
             b == EndOf(s, k) - 1
  <2>3. a \in Nat /\ a > 0 /\ b \in Int /\ b <= Len(s)
    BY <1>1, <2>2
  <2> HIDE DEF a, b
  <2>4. SubSeq(c, a, b) = SubSeq(s, a, b)
    BY <2>3, PartOfConcat DEF c
  <2> QED
    BY <1>4, <1>5, <2>1, <2>4 DEF a, b
<1>8. rest \o t = SubSeq(c, EndOf(c, n) + 1, Len(c))
  <2>1. n \in 0..n
    BY <1>1
  <2>2. rest = SubSeq(s, EndOf(s, n) + 1, Len(s))
    BY DEF IsCut
  <2>3. EndOf(s, n) \in 0..Len(s)
    BY <1>1, <2>1, LastEnd
  <2>4. EndOf(s, n) + 1 \in 1..(Len(s) + 1)
    BY <1>1, <2>3
  <2>5. SubSeq(c, EndOf(s, n) + 1, Len(c)) = rest \o t
    BY <2>2, <2>4, RestOfConcat DEF c
  <2> QED
    BY <1>4, <2>1, <2>5
<1> QED
  BY <1>6, <1>7, <1>8 DEF IsCut, c

\* The first newline of the rest cuts a line off it (update_rx, lines 345-351).
LEMMA CutLine ==
  ASSUME NEW s \in Seq(Bytes), NEW lines \in Seq(Seq(Bytes)), NEW rest \in Seq(Bytes),
         IsCut(s, lines, rest), NEW p \in 1..Len(rest), FirstAt(rest, NL, p)
  PROVE  IsCut(s, Append(lines, SubSeq(rest, 1, p - 1)), SubSeq(rest, p + 1, Len(rest)))
<1> DEFINE n == Len(lines)
           e == EndOf(s, n)
           line == SubSeq(rest, 1, p - 1)
           more == Append(lines, line)
<1>1. Len(s) \in Nat /\ n \in Nat /\ n \in 0..n /\ Len(rest) \in Nat /\ p \in Nat /\ p > 0
  BY LenProperties
<1>2. e \in 0..Len(s) /\ ((n = 0 /\ e = 0) \/ EndsLine(s, n, e))
  BY <1>1, LastEnd
<1>3. rest = SubSeq(s, e + 1, Len(s))
  BY DEF IsCut
<1>4. \A k \in 1..n : EndsLine(s, k, EndOf(s, k))
  BY DEF IsCut
<1>5. \A k \in 1..n : lines[k] = SubSeq(s, EndOf(s, k - 1) + 1, EndOf(s, k) - 1)
  BY DEF IsCut
<1> HIDE DEF n, e
<1>6. Len(rest) = Len(s) - e /\ \A j \in 1..Len(rest) : rest[j] = s[e + j]
  <2>1. \A j \in (e + 1)..Len(s) : s[j] \in Bytes
    <3> TAKE j \in (e + 1)..Len(s)
    <3>1. j \in 1..Len(s)
      BY <1>2
    <3> QED
      BY <3>1, ElementOfSeq
  <2>2. e + 1 \in Int /\ Len(s) \in Int
    BY <1>1, <1>2
  <2>3. /\ Len(rest) = IF e + 1 <= Len(s) THEN Len(s) - (e + 1) + 1 ELSE 0
        /\ \A j \in 1..(Len(s) - (e + 1) + 1) : rest[j] = s[(e + 1) + j - 1]
    BY <1>3, <2>1, <2>2, SubSeqProperties
  <2>4. Len(rest) = Len(s) - e
    BY <1>1, <1>2, <2>3
  <2>5. \A j \in 1..Len(rest) : j \in 1..(Len(s) - (e + 1) + 1) /\ (e + 1) + j - 1 = e + j
    BY <1>1, <1>2, <2>4
  <2> QED
    BY <2>3, <2>4, <2>5
<1>7. EndsLine(s, n + 1, e + p)
  <2>1. e + p \in (e + 1)..Len(s) /\ s[e + p] = NL /\ e \in Nat
    BY <1>1, <1>2, <1>6 DEF FirstAt
  <2>2. ASSUME NEW j \in (e + 1)..((e + p) - 1)
        PROVE  s[j] # NL
    <3>1. j - e \in 1..(p - 1) /\ j - e \in 1..Len(rest) /\ e + (j - e) = j
      BY <1>1, <1>2
    <3>2. rest[j - e] = s[e + (j - e)] /\ rest[j - e] # NL
      BY <1>6, <3>1 DEF FirstAt
    <3> QED
      BY <3>1, <3>2
  <2> QED
    BY <1>1, <1>2, <2>1, <2>2, NextEnd
<1>8. EndOf(s, n + 1) = e + p
  <2>1. n + 1 \in Nat /\ n + 1 > 0
    BY <1>1
  <2> QED
    BY <1>1, <1>7, <2>1, EndIsUnique
<1>9. e + 1 \in 1..(Len(s) + 1) /\ Len(rest) = Len(s) - (e + 1) + 1
  BY <1>1, <1>2, <1>6
<1>10. line = SubSeq(s, e + 1, (e + p) - 1)
  <2>1. p - 1 \in Int /\ p - 1 <= Len(s) - (e + 1) + 1 /\ 1 \in Nat /\ 1 > 0
    BY <1>1, <1>2, <1>6
  <2>2. SubSeq(rest, 1, p - 1) = SubSeq(s, ((e + 1) + 1) - 1, ((e + 1) + (p - 1)) - 1)
    BY <1>3, <1>9, <2>1, PartOfRest
  <2>3. ((e + 1) + 1) - 1 = e + 1 /\ ((e + 1) + (p - 1)) - 1 = (e + p) - 1
    BY <1>1, <1>2
  <2> QED
    BY <2>2, <2>3
<1>11. SubSeq(rest, p + 1, Len(rest)) = SubSeq(s, (e + p) + 1, Len(s))
  <2>1. p + 1 \in Nat /\ p + 1 > 0 /\ Len(rest) \in Int /\ Len(rest) <= Len(s) - (e + 1) + 1
    BY <1>1, <1>9
  <2>2. SubSeq(rest, p + 1, Len(rest))
          = SubSeq(s, ((e + 1) + (p + 1)) - 1, ((e + 1) + Len(rest)) - 1)
    BY <1>3, <1>9, <2>1, PartOfRest
  <2>3. ((e + 1) + (p + 1)) - 1 = (e + p) + 1 /\ ((e + 1) + Len(rest)) - 1 = Len(s)
    BY <1>1, <1>2, <1>6
  <2> QED
    BY <2>2, <2>3
<1>12. line \in Seq(Bytes)
  <2>1. \A j \in 1..(p - 1) : rest[j] \in Bytes
    <3> TAKE j \in 1..(p - 1)
    <3>1. j \in 1..Len(rest)
      BY <1>1
    <3> QED
      BY <3>1, ElementOfSeq
  <2> QED
    BY <1>1, <2>1, SubSeqProperties
<1> HIDE DEF line
<1>13. Len(more) = n + 1 /\ more[n + 1] = line /\ \A k \in 1..n : more[k] = lines[k]
  BY <1>12, AppendProperties DEF n
<1> HIDE DEF more
<1>14. \A k \in 1..Len(more) : k \in 1..n \/ k = n + 1
  BY <1>1, <1>13
<1>15. \A k \in 1..Len(more) : EndsLine(s, k, EndOf(s, k))
  BY <1>4, <1>7, <1>8, <1>14
<1>16. \A k \in 1..Len(more) : more[k] = SubSeq(s, EndOf(s, k - 1) + 1, EndOf(s, k) - 1)
  <2>1. (n + 1) - 1 = n
    BY <1>1
  <2>2. more[n + 1] = SubSeq(s, EndOf(s, (n + 1) - 1) + 1, EndOf(s, n + 1) - 1)
    BY <1>8, <1>10, <1>13, <2>1 DEF e
  <2> QED
    BY <1>5, <1>13, <1>14, <2>2
<1>17. SubSeq(rest, p + 1, Len(rest)) = SubSeq(s, EndOf(s, Len(more)) + 1, Len(s))
  BY <1>8, <1>11, <1>13
<1> QED
  BY <1>15, <1>16, <1>17 DEF IsCut, more, line

\* Every step keeps LinesInv.
LEMMA LineStep ==
  ASSUME TypeOK, ThreadInv, BufferInv, LinesInv, [Next]_vars
  PROVE  LinesInv'
<1>0. StreamTypes
  BY TypeGroups
<1> DEFINE lines == delivered \o cmdStrs
<1>1. lines \in Seq(Seq(Bytes)) /\ delivered \in Seq(Seq(Bytes)) /\ cmdStrs \in Seq(Seq(Bytes))
      /\ received \in Seq(Bytes) /\ m_CmdBuffer \in Seq(Bytes)
  BY <1>0, ConcatProperties DEF StreamTypes
<1>2. CASE RxAppend
  <2>1. CString \in Seq(Bytes)
    BY CStringIsCut DEF BufferInv
  <2>2. IsCut(received \o CString, lines, m_CmdBuffer \o CString)
    <3> HIDE DEF lines
    <3>1. IsCut(received, lines, m_CmdBuffer)
      BY DEF LinesInv, lines
    <3> QED
      BY <1>1, <2>1, <3>1, CutAppend
  <2>3. /\ received' = received \o CString /\ m_CmdBuffer' = m_CmdBuffer \o CString
        /\ delivered' = delivered /\ cmdStrs' = cmdStrs /\ rx' = "frame"
    BY <1>2 DEF RxAppend, RxGoto
  <2> QED
    BY <2>2, <2>3 DEF LinesInv
<1>3. CASE RxFrame /\ HasLine
  <2>1. NewLine \in 1..Len(m_CmdBuffer) /\ FirstAt(m_CmdBuffer, NL, NewLine)
    BY <1>3, NewLineIsFirst DEF FirstAt
  <2> DEFINE line == SubSeq(m_CmdBuffer, 1, NewLine - 1)
             rest == SubSeq(m_CmdBuffer, NewLine + 1, Len(m_CmdBuffer))
  <2>2. IsCut(received, Append(lines, line), rest)
    <3> HIDE DEF lines
    <3>1. IsCut(received, lines, m_CmdBuffer)
      BY DEF LinesInv, lines
    <3> QED
      BY <1>1, <2>1, <3>1, CutLine
  <2>3. line \in Seq(Bytes)
    <3>1. \A i \in 1..(NewLine - 1) : m_CmdBuffer[i] \in Bytes
      <4> TAKE i \in 1..(NewLine - 1)
      <4>1. Len(m_CmdBuffer) \in Nat
        BY <1>1, LenProperties
      <4>2. i \in 1..Len(m_CmdBuffer)
        BY <2>1, <4>1
      <4> QED
        BY <1>1, <4>2, ElementOfSeq
    <3> QED
      BY <2>1, <3>1, SubSeqProperties
  <2>4. /\ received' = received /\ m_CmdBuffer' = rest /\ delivered' = delivered
        /\ cmdStrs' = Append(cmdStrs, line) /\ rx' = "frame"
    BY <1>3 DEF RxFrame, RxGoto, rxHist
  <2>5. delivered \o Append(cmdStrs, line) = Append(lines, line)
    <3> HIDE DEF line
    <3>1. /\ Append(cmdStrs, line) = cmdStrs \o <<line>>
          /\ Append(lines, line) = lines \o <<line>>
      BY <1>1, <2>3, AppendIsConcat
    <3>2. <<line>> \in Seq(Seq(Bytes))
      BY <2>3
    <3>3. (delivered \o cmdStrs) \o <<line>> = delivered \o (cmdStrs \o <<line>>)
      BY <1>1, <3>2, ConcatAssociative, SMTT(60)
    <3> QED
      BY <3>1, <3>3
  <2> HIDE DEF line, rest
  <2> QED
    BY <2>2, <2>4, <2>5 DEF LinesInv
<1>4. CASE RxFrame /\ ~HasLine
  BY <1>4 DEF RxFrame, RxGoto, rxHist, LinesInv, HasLine
<1>5. CASE RxInvoke /\ cmdStrs # <<>>
  <2>1. delivered' = Append(delivered, Head(cmdStrs)) /\ cmdStrs' = Tail(cmdStrs)
        /\ received' = received /\ m_CmdBuffer' = m_CmdBuffer /\ rx = "invoke"
    BY <1>5 DEF RxInvoke, RxGoto
  <2> DEFINE h == Head(cmdStrs)
             t == Tail(cmdStrs)
  <2>2. h \in Seq(Bytes) /\ t \in Seq(Seq(Bytes)) /\ cmdStrs = <<h>> \o t
    BY <1>1, <1>5, HeadTailProperties, HeadThenTail
  <2> HIDE DEF h, t
  <2>3. <<h>> \in Seq(Seq(Bytes)) /\ Append(delivered, h) = delivered \o <<h>>
    BY <1>1, <2>2, AppendIsConcat
  <2>4. (delivered \o <<h>>) \o t = delivered \o (<<h>> \o t)
    BY <1>1, <2>2, <2>3, ConcatAssociative
  <2>5. delivered' \o cmdStrs' = lines
    BY <2>1, <2>2, <2>3, <2>4 DEF h, t
  <2> QED
    BY <1>5, <2>1, <2>5 DEF LinesInv, HasLine
<1>6. CASE RxInvoke /\ cmdStrs = <<>>
  BY <1>6 DEF RxInvoke, RxGoto, LinesInv, HasLine
<1>7. CASE /\ UNCHANGED <<received, m_CmdBuffer, delivered, cmdStrs>>
           /\ rx = "frame" => rx' = "frame"
  BY <1>7 DEF LinesInv, HasLine
<1>8. CASE RxTest \/ RxState \/ RxListen \/ RxAccept \/ RxBlock \/ RxWake \/ RxStore
           \/ RxConnected
  BY <1>7, <1>8 DEF RxTest, RxState, RxListen, RxAccept, RxBlock, RxWake, RxStore,
                    RxConnected, RxGoto, rxHist
<1>9. CASE RxRecv \/ RxNothing \/ RxDisconnected \/ RxReset
  BY <1>7, <1>9 DEF RxRecv, RxNothing, RxDisconnected, RxReset, RxGoto, rxHist
<1>10. CASE peerSteps \/ UNCHANGED vars
  BY <1>7, <1>10, PeerFrameCondition DEF vars, rxVars, rxHist
<1>11. CASE SendData \/ LeaveLoop \/ CallStep
  <2>1. UNCHANGED <<received, m_CmdBuffer, delivered, cmdStrs>>
    BY <1>11, MainFrameCondition DEF streamVars
  <2>2. rx' = rx \/ rx = "none"
    BY <1>11, MainFrameCondition DEF StartComm, ThreadInv, Goto
  <2> QED
    BY <1>7, <2>1, <2>2
<1> QED
  BY <1>2, <1>3, <1>4, <1>5, <1>6, <1>8, <1>9, <1>10, <1>11, Steps DEF RxStep

\* The initial state has the whole invariant.
LEMMA InitInv ==
  ASSUME Init
  PROVE  IndInv
<1>1. TypeOK
  BY InitTypes
<1>2. ThreadInv
  BY DEF Init, ThreadInv, CloseFirst
<1>3. StopInv
  BY DEF Init, StopInv, CloseFirst
<1>4. PeerInv
  BY DEF Init, PeerInv
<1>5. SocketInv
  BY DEF Init, SocketInv, Open, Gone, Serving
<1>6. BufferInv
  BY BytesAssumption DEF Init, BufferInv, ZeroBuffer
<1>7. NoByteLost
  BY EmptySeq, ConcatEmptySeq DEF Init, NoByteLost
<1>8. LinesInv
  <2>1. delivered \o cmdStrs = <<>> /\ Len(<<>>) = 0
    BY EmptySeq, ConcatEmptySeq DEF Init
  <2>2. SubSeq(<<>>, 1, 0) = <<>>
    BY SubSeqEmpty
  <2>3. EndOf(received, 0) + 1 = 1
    BY DEF EndOf
  <2> QED
    BY <2>1, <2>2, <2>3 DEF Init, LinesInv, IsCut, HasLine
<1> QED
  BY <1>1, <1>2, <1>3, <1>4, <1>5, <1>6, <1>7, <1>8 DEF IndInv

\* The invariant is one of the specification: what follows is read off it.
THEOREM Invariance == Spec => []IndInv
<1>1. Init => IndInv
  BY InitInv
<1>2. IndInv /\ [Next]_vars => IndInv'
  BY TypeStep, ThreadStep, StopStep, PeerInvStep, SocketStep, BufferStep, ByteStep, LineStep
     DEF IndInv
<1> QED
  BY <1>1, <1>2, PTL DEF Spec

\* Every variable has its type, whatever the threads and clients do.
THEOREM TypeCorrectness == Spec => []TypeOK
<1>1. IndInv => TypeOK
  BY DEF IndInv
<1> QED
  BY <1>1, Invariance, PTL

\* The lines handed to the callback, and those about to be, are the lines of the
\* bytes received, in order, and m_CmdBuffer is the rest (update_rx, lines
\* 341-359): for any bytes, cut into reads of any size below the buffer's.
THEOREM LinesOfTheStream == Spec => []LinesAreTheStream
<1>1. ASSUME IndInv
      PROVE  LinesAreTheStream
  <2>1. \A k : LineEnd(k) = EndOf(received, k)
    BY DEF LineEnd, EndOf, Newlines
  <2>2. LinesInv
    BY <1>1 DEF IndInv
  <2> QED
    BY <2>1, <2>2 DEF LinesInv, IsCut, LinesAreTheStream
<1> QED
  BY <1>1, Invariance, PTL

\* Without a NUL from a client, every byte recv returned is appended once to
\* m_CmdBuffer (lines 307, 341-342).
THEOREM BytesKept == Spec => []NoByteLost
<1>1. IndInv => NoByteLost
  BY DEF IndInv
<1> QED
  BY <1>1, Invariance, PTL

\* While the server is up, CONNECTED means that there is an open socket.
THEOREM ConnectedSocket == Spec => []ConnectedHasSocket
<1>1. IndInv => ConnectedHasSocket
  BY DEF IndInv, SocketInv, Open, ConnectedHasSocket
<1> QED
  BY <1>1, Invariance, PTL

\* Only sockets of clients that have gone are forgotten while the server is up.
THEOREM LiveClientKept == Spec => []NoLiveClientForgotten
<1>1. IndInv => NoLiveClientForgotten
  BY DEF IndInv, SocketInv, Open, NoLiveClientForgotten
<1> QED
  BY <1>1, Invariance, PTL

\* When StopComm has returned the receive thread has ended (lines 168-174).
THEOREM StopJoins == Spec => []StoppedIsJoined
<1>1. IndInv => StoppedIsJoined
  BY DEF IndInv, ThreadInv, StoppedIsJoined
<1> QED
  BY <1>1, Invariance, PTL

\* A StopComm that found a client connected leaves neither the listener open nor a
\* connection to a client that is still there (lines 171-180).
THEOREM StopCloses == Spec => []StopConnectedCloses
<1>1. IndInv => StopConnectedCloses
  BY DEF IndInv, StopInv, SocketInv, Gone, StopConnectedCloses
<1> QED
  BY <1>1, Invariance, PTL
===============================================================================
