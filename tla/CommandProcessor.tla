--------------------------- MODULE CommandProcessor ---------------------------
(***************************************************************************)
(* The server process: main (server.cpp), CommandProcessor and its worker  *)
(* thread, and the receive thread as far as CommandProcessor sees it - a   *)
(* thread that calls recvCBRoutine once for every line it has received.    *)
(*                                                                         *)
(* Three threads share the command FIFO (under m_Working_CommandFIFO), the *)
(* latest result (under m_Working_Results), the Done flags (no lock) and   *)
(* the fate of the process.  A step is one access to shared data; the two  *)
(* critical sections on m_Working_Results, which nothing can interrupt but *)
(* the end of the process, are one step each.                              *)
(***************************************************************************)
EXTENDS Integers, Sequences, FiniteSets

CONSTANTS
  Commands,     \* the commands clients may send
  MaxCommands,  \* bound: commands received in one run of the process
  NULL,         \* the null shared_ptr
  Unset,        \* a protobuf field that has not been set
  PastEnd,      \* what set_center_point does on the empty repeated field
  Uninit,       \* what SerializeToString does when the id is missing
  BadJoin       \* what pthread_join does on a handle that was never created

\* The first of the substrings "quit", "status", "start", "stop", "query" that
\* processCommands finds in the method; "other" when it finds none.
Methods == {"quit", "status", "start", "stop", "query", "other"}

ASSUME CommandsAssumption ==
  /\ Commands \subseteq [id : Int, method : Methods]
  /\ NULL \notin Commands

ASSUME UnsetAssumption ==
  Unset \notin Int \cup {"TRUE", "FALSE", "OK", "default", "random"}

ASSUME OutcomesAssumption ==
  /\ MaxCommands \in Nat
  /\ PastEnd \subseteq {"abort", "continue"} /\ PastEnd # {}
  /\ Uninit \subseteq {"abort", "continue"} /\ Uninit # {}
  /\ BadJoin \subseteq {"dies", "returns", "hangs"} /\ BadJoin # {}

VARIABLES
  process,              \* "running", "exited" (main returned) or "dead" (killed)
  main,                 \* where the main thread is
  CtrlC,                \* SIGINT has been handled
  m_Running,
  m_exit_on_quit,
  m_CommStarted,        \* the receive thread was created
  m_CmdFIFO,
  m_Working_CommandFIFO,\* the thread that holds the mutex, "free" when none
  newCmd,               \* the main thread's newCmd, NULL when there was none
  m_response,           \* the one Response object, never cleared
  m_latestResult,       \* its contact_radius: "default" or "random"
  worker,               \* where the worker thread is
  workerDone,           \* CommandProcessor::m_ThreadHelper.Done
  rx,                   \* where the receive thread is
  rxDone,               \* SocketTransport::m_ThreadHelper[RX].Done
  rxCmd,                \* the command recvCBRoutine is pushing
  rxTail,               \* the deque as push_back found it
  accepted,             \* history: the commands pushed
  taken,                \* history: the commands popped
  sent                  \* history: [cmd, reply] for each non-empty sendData

queueVars == <<m_CmdFIFO, m_Working_CommandFIFO, newCmd, accepted, taken>>
replyVars == <<m_response, sent>>
workerVars == <<worker, workerDone, m_latestResult>>
rxVars == <<rx, rxDone, rxCmd, rxTail>>
flagVars == <<CtrlC, m_Running, m_exit_on_quit, m_CommStarted>>
vars == <<process, main, queueVars, replyVars, workerVars, rxVars, flagVars>>

Response == [id : Int \cup {Unset}, success : {"TRUE", "FALSE", Unset},
             status : {"OK", Unset}, contact_radius : {"default", "random", Unset}]

NoResponse == [id |-> Unset, success |-> Unset, status |-> Unset,
               contact_radius |-> Unset]

\* main is inside processCommands with a command it has popped and not answered.
Answering == main \in {"dispatch", "send"} /\ newCmd # NULL

MainStates == {"init", "startcomm", "startworker", "loop", "lock", "front", "pop",
               "dispatch", "send", "shutdown", "stopcomm", "joinrx", "joinworker",
               "hung", "return"}

MainTypes ==
  process \in {"running", "exited", "dead"} /\ main \in MainStates
FlagTypes ==
  /\ CtrlC \in BOOLEAN /\ m_Running \in BOOLEAN
  /\ m_exit_on_quit \in BOOLEAN /\ m_CommStarted \in BOOLEAN
QueueTypes ==
  /\ m_CmdFIFO \in Seq(Commands)
  /\ m_Working_CommandFIFO \in {"free", "main", "rx"}
  /\ newCmd \in Commands \cup {NULL}
  /\ accepted \in Seq(Commands) /\ taken \in Seq(Commands)
ReplyTypes ==
  m_response \in Response /\ sent \in Seq([cmd : Commands, reply : Response])
WorkerTypes ==
  /\ worker \in {"none", "test", "work", "ended"} /\ workerDone \in BOOLEAN
  /\ m_latestResult \in {"default", "random"}
RxTypes ==
  /\ rx \in {"none", "test", "update", "lock", "push", "commit", "ended"}
  /\ rxDone \in BOOLEAN
  /\ rxCmd \in Commands \cup {NULL}
  /\ rxTail \in Seq(Commands)

TypeOK ==
  MainTypes /\ FlagTypes /\ QueueTypes /\ ReplyTypes /\ WorkerTypes /\ RxTypes

Init ==
  /\ process = "running" /\ main = "init"
  /\ CtrlC = FALSE /\ m_Running = FALSE /\ m_CommStarted = FALSE
  /\ m_exit_on_quit \in BOOLEAN
  /\ m_CmdFIFO = <<>> /\ m_Working_CommandFIFO = "free" /\ newCmd = NULL
  /\ m_response = NoResponse /\ m_latestResult = "default"
  /\ worker = "none" /\ workerDone = FALSE
  /\ rx = "none" /\ rxDone = FALSE /\ rxCmd = NULL /\ rxTail = <<>>
  /\ accepted = <<>> /\ taken = <<>> /\ sent = <<>>

\* A main thread step from one place to another.
Goto(from, to) == process = "running" /\ main = from /\ main' = to

(***************************************************************************)
(* Start-up: init, then Start.                                             *)
(***************************************************************************)
InitCommandProcessor ==
  \/ /\ Goto("init", "startcomm")
     /\ UNCHANGED <<process, queueVars, replyVars, workerVars, rxVars, flagVars>>
  \/ /\ Goto("init", "return") /\ process' = "exited"
     /\ UNCHANGED <<queueVars, replyVars, workerVars, rxVars, flagVars>>

\* m_Transport->StartComm(); main ignores a failure of Start.
StartComm ==
  /\ \/ /\ Goto("startcomm", "startworker")
        /\ rx' = "test" /\ rxDone' = FALSE /\ m_CommStarted' = TRUE
     \/ /\ Goto("startcomm", "loop")
        /\ UNCHANGED <<rx, rxDone, m_CommStarted>>
  /\ UNCHANGED <<process, queueVars, replyVars, workerVars, rxCmd, rxTail,
                 CtrlC, m_Running, m_exit_on_quit>>

StartWorker ==
  /\ Goto("startworker", "loop")
  /\ workerDone' = FALSE
  /\ \/ worker' = "test" /\ m_Running' = TRUE
     \/ UNCHANGED <<worker, m_Running>>
  /\ UNCHANGED <<process, queueVars, replyVars, m_latestResult, rxVars,
                 CtrlC, m_exit_on_quit, m_CommStarted>>

(***************************************************************************)
(* The main loop and processCommands.                                      *)
(***************************************************************************)
LoopTest ==
  /\ IF ~CtrlC /\ m_Running THEN Goto("loop", "lock") ELSE Goto("loop", "shutdown")
  /\ UNCHANGED <<process, queueVars, replyVars, workerVars, rxVars, flagVars>>

\* Mutant of FifoFree: the mutex is not taken.
FifoUnguarded == TRUE

FifoFree == m_Working_CommandFIFO = "free"

LockFIFO ==
  /\ Goto("lock", "front")
  /\ FifoFree
  /\ m_Working_CommandFIFO' = "main"
  /\ UNCHANGED <<process, m_CmdFIFO, newCmd, accepted, taken, replyVars,
                 workerVars, rxVars, flagVars>>

Front ==
  /\ m_CmdFIFO # <<>>
  /\ Goto("front", "pop")
  /\ newCmd' = Head(m_CmdFIFO)
  /\ UNCHANGED <<process, m_CmdFIFO, m_Working_CommandFIFO, accepted, taken,
                 replyVars, workerVars, rxVars, flagVars>>

PopFront ==
  /\ Goto("pop", "dispatch")
  /\ m_CmdFIFO' = Tail(m_CmdFIFO)
  /\ taken' = Append(taken, newCmd)
  /\ m_Working_CommandFIFO' = "free"
  /\ UNCHANGED <<process, newCmd, accepted, replyVars, workerVars, rxVars, flagVars>>

\* The FIFO is empty: newCmd keeps the null it was constructed with.
FindEmpty ==
  /\ m_CmdFIFO = <<>>
  /\ Goto("front", "dispatch")
  /\ newCmd' = NULL
  /\ m_Working_CommandFIFO' = "free"
  /\ UNCHANGED <<process, m_CmdFIFO, accepted, taken, replyVars, workerVars,
                 rxVars, flagVars>>

\* newCmd->ByteSize() on the null pointer.
NullDereference ==
  /\ process = "running" /\ main = "dispatch" /\ newCmd = NULL
  /\ process' = "dead"
  /\ UNCHANGED <<main, queueVars, replyVars, workerVars, rxVars, flagVars>>

\* The branch of processCommands that the method selects.
Dispatch(method) ==
  /\ Goto("dispatch", "send")
  /\ newCmd # NULL /\ newCmd.method = method

\* Mutants of AnswerQuit: it returns without a reply; m_Running stays set.
AnswerQuitNoReply ==
  /\ Goto("dispatch", "loop")
  /\ newCmd # NULL /\ newCmd.method = "quit"
  /\ m_Running' = (m_Running /\ ~m_exit_on_quit)
  /\ UNCHANGED <<process, queueVars, replyVars, workerVars, rxVars,
                 CtrlC, m_exit_on_quit, m_CommStarted>>

AnswerQuitGoOn ==
  /\ Dispatch("quit")
  /\ UNCHANGED <<process, queueVars, replyVars, workerVars, rxVars, flagVars>>

\* A quit changes nothing in m_response: its reply repeats the previous one.
AnswerQuit ==
  /\ Dispatch("quit")
  /\ m_Running' = (m_Running /\ ~m_exit_on_quit)
  /\ UNCHANGED <<process, queueVars, replyVars, workerVars, rxVars,
                 CtrlC, m_exit_on_quit, m_CommStarted>>

\* Mutant of AnswerStatus: the status goes to the wrong field.
AnswerStatusWrongField ==
  /\ Dispatch("status")
  /\ m_response' = [m_response EXCEPT !.id = newCmd.id, !.success = "OK"]
  /\ UNCHANGED <<process, queueVars, sent, workerVars, rxVars, flagVars>>

AnswerStatus ==
  /\ Dispatch("status")
  /\ m_response' = [m_response EXCEPT !.id = newCmd.id, !.status = "OK"]
  /\ UNCHANGED <<process, queueVars, sent, workerVars, rxVars, flagVars>>

\* Mutant of AnswerStartStop: a success flag that is there is left alone.
AnswerStartStopOnce ==
  /\ Dispatch("start") \/ Dispatch("stop")
  /\ m_response' = [m_response EXCEPT !.id = newCmd.id,
                      !.success = IF m_response.success = Unset THEN "TRUE" ELSE @]
  /\ UNCHANGED <<process, queueVars, sent, workerVars, rxVars, flagVars>>

AnswerStartStop ==
  /\ Dispatch("start") \/ Dispatch("stop")
  /\ m_response' = [m_response EXCEPT !.id = newCmd.id, !.success = "TRUE"]
  /\ UNCHANGED <<process, queueVars, sent, workerVars, rxVars, flagVars>>

\* Also the outcome of an empty command: the ByteSize() = 0 test sets the same
\* two fields and then falls through to this branch.
AnswerOther ==
  /\ Dispatch("other")
  /\ m_response' = [m_response EXCEPT !.id = newCmd.id, !.success = "FALSE"]
  /\ UNCHANGED <<process, queueVars, sent, workerVars, rxVars, flagVars>>

\* The radius is copied; the two set_center_point calls index an empty field.
AnswerQuery ==
  /\ Dispatch("query")
  /\ m_response' = [m_response EXCEPT !.id = newCmd.id,
                                      !.contact_radius = m_latestResult]
  /\ \/ "continue" \in PastEnd /\ UNCHANGED process
     \/ "abort" \in PastEnd /\ process' = "dead"
  /\ UNCHANGED <<queueVars, sent, workerVars, rxVars, flagVars>>

\* SerializeToString, then sendData: an empty buffer is not sent, and the socket
\* may be one whose peer is gone, where send raises SIGPIPE.
Send ==
  /\ process = "running" /\ main = "send"
  /\ \/ /\ m_response.id # Unset \/ "continue" \in Uninit
        /\ Goto("send", "loop")
        /\ sent' = IF m_response.id = Unset THEN sent
                   ELSE Append(sent, [cmd |-> newCmd, reply |-> m_response])
        /\ UNCHANGED process
     \/ /\ m_response.id # Unset \/ "abort" \in Uninit
        /\ process' = "dead"
        /\ UNCHANGED <<main, sent>>
  /\ UNCHANGED <<queueVars, m_response, workerVars, rxVars, flagVars>>

(***************************************************************************)
(* Shutdown: the two flags, StopComm (which joins the receive thread), and *)
(* the join of the worker thread.                                          *)
(***************************************************************************)
Shutdown ==
  /\ Goto("shutdown", "stopcomm")
  /\ m_Running' = FALSE /\ workerDone' = TRUE
  /\ UNCHANGED <<process, queueVars, replyVars, worker, m_latestResult, rxVars,
                 CtrlC, m_exit_on_quit, m_CommStarted>>

\* Mutant of StopComm: Done is not set before the join.
StopCommNotDone ==
  /\ IF m_CommStarted THEN Goto("stopcomm", "joinrx") ELSE Goto("stopcomm", "joinworker")
  /\ UNCHANGED <<process, queueVars, replyVars, workerVars, rxVars, flagVars>>

StopComm ==
  /\ IF m_CommStarted
     THEN Goto("stopcomm", "joinrx") /\ rxDone' = TRUE
     ELSE Goto("stopcomm", "joinworker") /\ UNCHANGED rxDone
  /\ UNCHANGED <<process, queueVars, replyVars, workerVars, rx, rxCmd, rxTail, flagVars>>

\* Mutant of JoinRx: no join.
JoinRxAtOnce ==
  /\ Goto("joinrx", "joinworker")
  /\ m_CommStarted' = FALSE
  /\ UNCHANGED <<process, queueVars, replyVars, workerVars, rxVars,
                 CtrlC, m_Running, m_exit_on_quit>>

JoinRx ==
  /\ Goto("joinrx", "joinworker")
  /\ rx = "ended"
  /\ m_CommStarted' = FALSE
  /\ UNCHANGED <<process, queueVars, replyVars, workerVars, rxVars,
                 CtrlC, m_Running, m_exit_on_quit>>

JoinWorker ==
  /\ Goto("joinworker", "return")
  /\ worker = "ended"
  /\ process' = "exited"
  /\ UNCHANGED <<queueVars, replyVars, workerVars, rxVars, flagVars>>

\* Start failed, and m_ThreadHelper.thread_handle was never written.
JoinUninitialised ==
  /\ process = "running" /\ main = "joinworker" /\ worker = "none"
  /\ \/ "returns" \in BadJoin /\ process' = "exited" /\ main' = "return"
     \/ "dies" \in BadJoin /\ process' = "dead" /\ UNCHANGED main
     \/ "hangs" \in BadJoin /\ main' = "hung" /\ UNCHANGED process
  /\ UNCHANGED <<queueVars, replyVars, workerVars, rxVars, flagVars>>

\* sigint_handler
SigInt ==
  /\ process = "running" /\ ~CtrlC
  /\ CtrlC' = TRUE
  /\ UNCHANGED <<process, main, queueVars, replyVars, workerVars, rxVars,
                 m_Running, m_exit_on_quit, m_CommStarted>>

(***************************************************************************)
(* The receive thread.                                                     *)
(***************************************************************************)
RxGoto(from, to) == process = "running" /\ rx = from /\ rx' = to

\* while (!Done)
RxTest ==
  /\ IF rxDone THEN RxGoto("test", "ended") ELSE RxGoto("test", "update")
  /\ UNCHANGED <<process, main, queueVars, replyVars, workerVars,
                 rxDone, rxCmd, rxTail, flagVars>>

\* update_rx has no (more) lines to hand over.
RxReturn ==
  /\ RxGoto("update", "test")
  /\ UNCHANGED <<process, main, queueVars, replyVars, workerVars,
                 rxDone, rxCmd, rxTail, flagVars>>

\* update_rx calls recvCBRoutine with a line; the parsed command is cmd.
RecvCBRoutine(cmd) ==
  /\ RxGoto("update", "lock")
  /\ Len(accepted) < MaxCommands
  /\ rxCmd' = cmd
  /\ UNCHANGED <<process, main, queueVars, replyVars, workerVars,
                 rxDone, rxTail, flagVars>>

RxLock ==
  /\ RxGoto("lock", "push")
  /\ FifoFree
  /\ m_Working_CommandFIFO' = "rx"
  /\ UNCHANGED <<process, main, m_CmdFIFO, newCmd, accepted, taken, replyVars,
                 workerVars, rxDone, rxCmd, rxTail, flagVars>>

\* push_back reads the deque ...
RxPush ==
  /\ RxGoto("push", "commit")
  /\ rxTail' = m_CmdFIFO
  /\ UNCHANGED <<process, main, queueVars, replyVars, workerVars,
                 rxDone, rxCmd, flagVars>>

\* Mutant of RxCommit: the mutex is not released.
RxCommitLocked ==
  /\ RxGoto("commit", "update")
  /\ m_CmdFIFO' = Append(rxTail, rxCmd)
  /\ accepted' = Append(accepted, rxCmd)
  /\ rxCmd' = NULL /\ rxTail' = <<>>
  /\ UNCHANGED <<process, main, m_Working_CommandFIFO, newCmd, taken, replyVars,
                 workerVars, rxDone, flagVars>>

\* ... and writes it; then the mutex is released.
RxCommit ==
  /\ RxGoto("commit", "update")
  /\ m_CmdFIFO' = Append(rxTail, rxCmd)
  /\ accepted' = Append(accepted, rxCmd)
  /\ m_Working_CommandFIFO' = "free"
  /\ rxCmd' = NULL /\ rxTail' = <<>>
  /\ UNCHANGED <<process, main, newCmd, taken, replyVars, workerVars,
                 rxDone, flagVars>>

(***************************************************************************)
(* The worker thread.                                                      *)
(***************************************************************************)
WorkerTest ==
  /\ process = "running" /\ worker = "test"
  /\ worker' = IF workerDone THEN "ended" ELSE "work"
  /\ UNCHANGED <<process, main, queueVars, replyVars, workerDone,
                 m_latestResult, rxVars, flagVars>>

\* programLoop: the radius is set, the two points index an empty field.
ProgramLoop ==
  /\ process = "running" /\ worker = "work"
  /\ m_latestResult' = "random"
  /\ \/ "continue" \in PastEnd /\ worker' = "test" /\ UNCHANGED process
     \/ "abort" \in PastEnd /\ process' = "dead" /\ UNCHANGED worker
  /\ UNCHANGED <<main, queueVars, replyVars, workerDone, rxVars, flagVars>>

(***************************************************************************)
(* The specification.                                                      *)
(***************************************************************************)
MainStep ==
  \/ InitCommandProcessor \/ StartComm \/ StartWorker
  \/ LoopTest \/ LockFIFO \/ Front \/ PopFront \/ FindEmpty \/ NullDereference
  \/ AnswerQuit \/ AnswerStatus \/ AnswerStartStop \/ AnswerOther \/ AnswerQuery
  \/ Send
  \/ Shutdown \/ StopComm \/ JoinRx \/ JoinWorker \/ JoinUninitialised

RxStep ==
  \/ RxTest \/ RxReturn \/ (\E cmd \in Commands : RecvCBRoutine(cmd))
  \/ RxLock \/ RxPush \/ RxCommit

WorkerStep == WorkerTest \/ ProgramLoop

\* The process is gone, or main is stuck in the join of a garbage handle.
Ended ==
  /\ process # "running" \/ main = "hung"
  /\ UNCHANGED vars

Next == MainStep \/ RxStep \/ WorkerStep \/ SigInt \/ Ended

Spec == Init /\ [][Next]_vars

\* Every thread that can take a step eventually takes one.
FairSpec == Spec /\ WF_vars(MainStep) /\ WF_vars(RxStep) /\ WF_vars(WorkerStep)

(***************************************************************************)
(* Properties.                                                             *)
(***************************************************************************)
\* Through the deque and its mutex the receive thread hands commands to the
\* main thread exactly once and in order, and the main thread finds the FIFO
\* empty only when it has taken everything (CommandProcessor.cpp:132-136 and
\* 252-260).
Queue == INSTANCE CommandQueue WITH Command <- Commands
QueueSpec == Queue!Spec

\* taken[i] produced no reply: nothing but quits had been handled, so m_response
\* had no id and nothing was serialised.
Silent(i) == \A j \in 1..i : taken[j].method = "quit"
Silents == Cardinality({i \in 1..Len(taken) : Silent(i)})

\* Every command taken is answered by exactly one sendData before the next one
\* is taken, in the order taken; only quits before the first other command get
\* no reply (processCommands, lines 262-345).
OneReplyPerCommand ==
  LET answered == IF Answering THEN Len(taken) - 1 ELSE Len(taken)
  IN  /\ Len(sent) = (IF answered > Silents THEN answered - Silents ELSE 0)
      /\ \A n \in 1..Len(sent) : sent[n].cmd = taken[Silents + n]

\* A reply to any command but a quit carries that command's id and the result it
\* asked for, whatever earlier commands have left in m_response: a start behind an
\* unknown command is a success, an unknown command behind a start is none (lines
\* 262-343).
ReplyCarriesResult ==
  \A n \in 1..Len(sent) :
    LET cmd == sent[n].cmd
        r == sent[n].reply
    IN  cmd.method # "quit" =>
          /\ r.id = cmd.id
          /\ cmd.method = "status" => r.status = "OK"
          /\ cmd.method \in {"start", "stop"} => r.success = "TRUE"
          /\ cmd.method = "other" => r.success = "FALSE"
          /\ cmd.method = "query" => r.contact_radius # Unset

\* What client.cpp:117 and 135 show of the replies to a status and to a start: the
\* result holds the field of the command it answers and no other.  m_response is
\* never cleared, so the code does otherwise.
ReplyIsOwn ==
  \A n \in 1..Len(sent) :
    LET r == sent[n].reply
    IN  /\ sent[n].cmd.method = "status" => r.success = Unset /\ r.contact_radius = Unset
        /\ sent[n].cmd.method = "start" => r.status = Unset /\ r.contact_radius = Unset

\* With exit_on_quit, a quit is the last command the server takes, whatever the
\* receive thread queues behind it (lines 269-276, server.cpp:87).
NothingAfterQuit ==
  m_exit_on_quit => \A i \in 1..(Len(taken) - 1) : taken[i].method # "quit"

\* main returns, and the objects the threads use are destroyed, only after both
\* threads have ended, unless they were never created; and never while one of
\* them holds the FIFO's mutex (Shutdown, lines 217-229).
JoinedBeforeExit ==
  process = "exited" =>
    /\ rx \in {"none", "ended"}
    /\ worker \in {"none", "ended"}
    /\ m_Working_CommandFIFO = "free"

\* A SIGINT, or a quit that is honoured, ends the process: Shutdown gets past
\* both joins whatever the two threads are doing.  Without a worker the join of
\* the uninitialised handle may hang, so nothing is claimed.
StopAsked ==
  CtrlC \/ (m_exit_on_quit /\ \E i \in 1..Len(taken) : taken[i].method = "quit")
StopRequestEndsProcess == (StopAsked /\ worker # "none") ~> process # "running"

\* A command the receive thread has queued is taken in its turn, unless the
\* server is told to stop or its process ends (or hangs in that join).
QueuedIsTaken ==
  \A i \in 1..MaxCommands :
    Len(accepted) >= i
      ~> (Len(taken) >= i \/ StopAsked \/ process # "running" \/ main = "hung")
===============================================================================
