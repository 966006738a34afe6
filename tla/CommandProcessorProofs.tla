------------------------ MODULE CommandProcessorProofs ------------------------
(***************************************************************************)
(* Theorems about CommandProcessor, for every set of commands, every bound *)
(* and every outcome of the undefined calls.                               *)
(***************************************************************************)
EXTENDS CommandProcessor, ListLemmas, FiniteSetTheorems

(***************************************************************************)
(* The inductive invariant.                                                *)
(***************************************************************************)
\* Which threads exist follows from where main is in Start and Shutdown.
ThreadInv ==
  /\ main \in {"init", "startcomm"} =>
       rx = "none" /\ worker = "none" /\ ~m_CommStarted /\ ~m_Running
  /\ ~m_CommStarted => rx \in {"none", "ended"}
  /\ main \in {"joinworker", "hung", "return"} => ~m_CommStarted
  /\ main \in {"startworker"} => worker = "none" /\ ~m_Running
  /\ main = "return" => worker \in {"none", "ended"}
  /\ process = "exited" => main = "return"

\* The mutex is held by the thread that is inside its critical section.
LockInv ==
  /\ m_Working_CommandFIFO = "main" <=> main \in {"front", "pop"}
  /\ m_Working_CommandFIFO = "rx" <=> rx \in {"push", "commit"}

\* Where a thread uses the command it holds, it does hold one, and what it read
\* inside its critical section is still so.
HoldsInv ==
  /\ main = "pop" => m_CmdFIFO # <<>> /\ newCmd = Head(m_CmdFIFO)
  /\ main = "send" => newCmd \in Commands
  /\ rx \in {"lock", "push", "commit"} => rxCmd \in Commands
  /\ rx = "commit" => rxTail = m_CmdFIFO

\* No command is lost or duplicated between the hand-over and the pop.
QueueInv == accepted = taken \o m_CmdFIFO

\* After an honoured quit main is on its way out.
QuitInv ==
  m_exit_on_quit =>
    \A i \in 1..Len(taken) :
      taken[i].method = "quit" =>
        /\ i = Len(taken)
        /\ \/ main = "dispatch" /\ newCmd = taken[i]
           \/ /\ ~m_Running
              /\ main \in {"send", "loop", "shutdown", "stopcomm", "joinrx",
                           "joinworker", "hung", "return"}

\* Everything above, which every step preserves.
IndInv == TypeOK /\ ThreadInv /\ LockInv /\ HoldsInv /\ QueueInv /\ QuitInv

(***************************************************************************)
(* The first state.                                                        *)
(***************************************************************************)
\* The first state satisfies the invariant.
LEMMA InvInit == Init => IndInv
<1> SUFFICES ASSUME Init PROVE IndInv
  OBVIOUS
<1>1. NoResponse \in Response
  BY DEF NoResponse, Response
<1>2. MainTypes /\ FlagTypes
  BY DEF Init, MainTypes, FlagTypes, MainStates
<1>3. QueueTypes /\ ReplyTypes
  BY <1>1 DEF Init, QueueTypes, ReplyTypes
<1>4. WorkerTypes
  BY DEF Init, WorkerTypes
<1>5. RxTypes
  <2>1. rxTail \in Seq(Commands)
    BY DEF Init
  <2> QED
    BY <2>1 DEF Init, RxTypes
<1>6. ThreadInv /\ LockInv
  BY DEF Init, ThreadInv, LockInv
<1>7. HoldsInv /\ QueueInv /\ QuitInv
  BY DEF Init, HoldsInv, QueueInv, QuitInv
<1> QED
  BY <1>2, <1>3, <1>4, <1>5, <1>6, <1>7 DEF IndInv, TypeOK

(***************************************************************************)
(* Every step keeps the types, one group of variables at a time.           *)
(***************************************************************************)
\* Setting fields of a Response gives a Response.
LEMMA ResponseUpdate ==
  ASSUME NEW r \in Response, NEW i \in Int
  PROVE  /\ [r EXCEPT !.id = i, !.status = "OK"] \in Response
         /\ [r EXCEPT !.id = i, !.success = "TRUE"] \in Response
         /\ [r EXCEPT !.id = i, !.success = "FALSE"] \in Response
         /\ \A q \in {"default", "random"} :
              [r EXCEPT !.id = i, !.contact_radius = q] \in Response
BY DEF Response

\* main stays at one of its places.
LEMMA MainTypesStep == MainTypes /\ [Next]_vars => MainTypes'
<1> SUFFICES ASSUME MainTypes, [Next]_vars
             PROVE  MainTypes'
  OBVIOUS
<1> USE DEF Goto, RxGoto, queueVars, replyVars, workerVars, rxVars, flagVars
<1> USE DEF MainTypes, MainStates
<1>1. CASE InitCommandProcessor \/ StartComm \/ StartWorker \/ LoopTest
  BY <1>1 DEF InitCommandProcessor, StartComm, StartWorker, LoopTest
<1>2. CASE LockFIFO \/ Front
  BY <1>2 DEF LockFIFO, FifoFree, Front
<1>3. CASE PopFront
  BY <1>3 DEF PopFront
<1>4. CASE FindEmpty \/ NullDereference
  BY <1>4 DEF FindEmpty, NullDereference
<1>5. CASE AnswerQuit
  BY <1>5 DEF AnswerQuit, Dispatch
<1>6. CASE AnswerStatus \/ AnswerStartStop \/ AnswerOther
  BY <1>6 DEF AnswerStatus, Dispatch, AnswerStartStop, AnswerOther
<1>7. CASE AnswerQuery
  BY <1>7 DEF AnswerQuery, Dispatch
<1>8. CASE Send
  BY <1>8 DEF Send
<1>9. CASE Shutdown \/ StopComm \/ JoinRx \/ JoinWorker \/ JoinUninitialised
  BY <1>9 DEF Shutdown, StopComm, JoinRx, JoinWorker, JoinUninitialised
<1>10. CASE SigInt \/ RxTest \/ RxReturn \/ RxLock \/ RxPush \/ WorkerTest \/
            ProgramLoop
  BY <1>10 DEF SigInt, RxTest, RxReturn, RxLock, FifoFree, RxPush, WorkerTest,
         ProgramLoop
<1>11. ASSUME NEW cmd \in Commands, RecvCBRoutine(cmd) PROVE MainTypes'
  BY <1>11 DEF RecvCBRoutine
<1>12. CASE RxCommit
  BY <1>12 DEF RxCommit
<1>13. CASE UNCHANGED vars
  BY <1>13 DEF vars
<1> QED
  BY <1>1, <1>2, <1>3, <1>4, <1>5, <1>6, <1>7, <1>8, <1>9, <1>10, <1>11, <1>12,
     <1>13 DEF Next, MainStep, RxStep, WorkerStep, Ended

\* The flags stay Boolean.
LEMMA FlagTypesStep == FlagTypes /\ [Next]_vars => FlagTypes'
<1> SUFFICES ASSUME FlagTypes, [Next]_vars
             PROVE  FlagTypes'
  OBVIOUS
<1> USE DEF Goto, RxGoto, queueVars, replyVars, workerVars, rxVars, flagVars
<1> USE DEF FlagTypes
<1>1. CASE InitCommandProcessor \/ StartComm \/ StartWorker \/ LoopTest
  BY <1>1 DEF InitCommandProcessor, StartComm, StartWorker, LoopTest
<1>2. CASE LockFIFO \/ Front
  BY <1>2 DEF LockFIFO, FifoFree, Front
<1>3. CASE PopFront
  BY <1>3 DEF PopFront
<1>4. CASE FindEmpty \/ NullDereference
  BY <1>4 DEF FindEmpty, NullDereference
<1>5. CASE AnswerQuit
  BY <1>5 DEF AnswerQuit, Dispatch
<1>6. CASE AnswerStatus \/ AnswerStartStop \/ AnswerOther
  BY <1>6 DEF AnswerStatus, Dispatch, AnswerStartStop, AnswerOther
<1>7. CASE AnswerQuery
  BY <1>7 DEF AnswerQuery, Dispatch
<1>8. CASE Send
  BY <1>8 DEF Send
<1>9. CASE Shutdown \/ StopComm \/ JoinRx \/ JoinWorker \/ JoinUninitialised
  BY <1>9 DEF Shutdown, StopComm, JoinRx, JoinWorker, JoinUninitialised
<1>10. CASE SigInt \/ RxTest \/ RxReturn \/ RxLock \/ RxPush \/ WorkerTest \/
            ProgramLoop
  BY <1>10 DEF SigInt, RxTest, RxReturn, RxLock, FifoFree, RxPush, WorkerTest,
         ProgramLoop
<1>11. ASSUME NEW cmd \in Commands, RecvCBRoutine(cmd) PROVE FlagTypes'
  BY <1>11 DEF RecvCBRoutine
<1>12. CASE RxCommit
  BY <1>12 DEF RxCommit
<1>13. CASE UNCHANGED vars
  BY <1>13 DEF vars
<1> QED
  BY <1>1, <1>2, <1>3, <1>4, <1>5, <1>6, <1>7, <1>8, <1>9, <1>10, <1>11, <1>12,
     <1>13 DEF Next, MainStep, RxStep, WorkerStep, Ended

\* The FIFO and what was handed over and taken stay sequences of commands.
LEMMA QueueTypesStep == QueueTypes /\ HoldsInv /\ RxTypes /\ [Next]_vars => QueueTypes'
<1> SUFFICES ASSUME QueueTypes, HoldsInv, RxTypes, [Next]_vars
             PROVE  QueueTypes'
  OBVIOUS
<1> USE DEF Goto, RxGoto, queueVars, replyVars, workerVars, rxVars, flagVars
<1> USE DEF QueueTypes, HoldsInv, RxTypes
<1>1. CASE InitCommandProcessor \/ StartComm \/ StartWorker \/ LoopTest
  BY <1>1 DEF InitCommandProcessor, StartComm, StartWorker, LoopTest
<1>2. CASE LockFIFO \/ Front
  BY <1>2 DEF LockFIFO, FifoFree, Front
<1>3. CASE PopFront
  BY <1>3 DEF PopFront
<1>4. CASE FindEmpty \/ NullDereference
  BY <1>4 DEF FindEmpty, NullDereference
<1>5. CASE AnswerQuit
  BY <1>5 DEF AnswerQuit, Dispatch
<1>6. CASE AnswerStatus \/ AnswerStartStop \/ AnswerOther
  BY <1>6 DEF AnswerStatus, Dispatch, AnswerStartStop, AnswerOther
<1>7. CASE AnswerQuery
  BY <1>7 DEF AnswerQuery, Dispatch
<1>8. CASE Send
  BY <1>8 DEF Send
<1>9. CASE Shutdown \/ StopComm \/ JoinRx \/ JoinWorker \/ JoinUninitialised
  BY <1>9 DEF Shutdown, StopComm, JoinRx, JoinWorker, JoinUninitialised
<1>10. CASE SigInt \/ RxTest \/ RxReturn \/ RxLock \/ RxPush \/ WorkerTest \/
            ProgramLoop
  BY <1>10 DEF SigInt, RxTest, RxReturn, RxLock, FifoFree, RxPush, WorkerTest,
         ProgramLoop
<1>11. ASSUME NEW cmd \in Commands, RecvCBRoutine(cmd) PROVE QueueTypes'
  BY <1>11 DEF RecvCBRoutine
<1>12. CASE RxCommit
  BY <1>12 DEF RxCommit
<1>13. CASE UNCHANGED vars
  BY <1>13 DEF vars
<1> QED
  BY <1>1, <1>2, <1>3, <1>4, <1>5, <1>6, <1>7, <1>8, <1>9, <1>10, <1>11, <1>12,
     <1>13 DEF Next, MainStep, RxStep, WorkerStep, Ended

\* The Response and the log of replies keep their shape.
LEMMA ReplyTypesStep == ReplyTypes /\ HoldsInv /\ QueueTypes /\ WorkerTypes /\ [Next]_vars => ReplyTypes'
<1> SUFFICES ASSUME ReplyTypes, HoldsInv, QueueTypes, WorkerTypes, [Next]_vars
             PROVE  ReplyTypes'
  OBVIOUS
<1> USE DEF Goto, RxGoto, queueVars, replyVars, workerVars, rxVars, flagVars
<1> USE DEF ReplyTypes, HoldsInv, QueueTypes, WorkerTypes
<1>1. CASE InitCommandProcessor \/ StartComm \/ StartWorker \/ LoopTest
  BY <1>1 DEF InitCommandProcessor, StartComm, StartWorker, LoopTest
<1>2. CASE LockFIFO \/ Front
  BY <1>2 DEF LockFIFO, FifoFree, Front
<1>3. CASE PopFront
  BY <1>3 DEF PopFront
<1>4. CASE FindEmpty \/ NullDereference
  BY <1>4 DEF FindEmpty, NullDereference
<1>5. CASE AnswerQuit
  BY <1>5 DEF AnswerQuit, Dispatch
<1>6. CASE AnswerStatus \/ AnswerStartStop \/ AnswerOther
  <2>1. newCmd.id \in Int
    BY <1>6, CommandsAssumption DEF AnswerStatus, AnswerStartStop, AnswerOther, Dispatch
  <2>2. sent' = sent
    BY <1>6 DEF AnswerStatus, AnswerStartStop, AnswerOther
  <2>3. m_response' \in Response
    <3>1. CASE AnswerStatus
      BY <3>1, <2>1, ResponseUpdate DEF AnswerStatus
    <3>2. CASE AnswerStartStop
      BY <3>2, <2>1, ResponseUpdate DEF AnswerStartStop
    <3>3. CASE AnswerOther
      BY <3>3, <2>1, ResponseUpdate DEF AnswerOther
    <3> QED
      BY <1>6, <3>1, <3>2, <3>3
  <2> QED
    BY <2>2, <2>3
<1>7. CASE AnswerQuery
  <2>1. newCmd.id \in Int
    BY <1>7, CommandsAssumption DEF AnswerQuery, Dispatch
  <2> QED
    BY <1>7, <2>1, ResponseUpdate DEF AnswerQuery
<1>8. CASE Send
  <2> DEFINE Log == [cmd : Commands, reply : Response]
  <2>1. [cmd |-> newCmd, reply |-> m_response] \in Log
    BY <1>8 DEF Send
  <2>2. Append(sent, [cmd |-> newCmd, reply |-> m_response]) \in Seq(Log)
    <3> HIDE DEF Log
    <3> QED
      BY <2>1 DEF Log
  <2>3. sent' \in {sent, Append(sent, [cmd |-> newCmd, reply |-> m_response])}
    BY <1>8 DEF Send
  <2>4. UNCHANGED m_response
    BY <1>8 DEF Send
  <2> QED
    BY <2>2, <2>3, <2>4
<1>9. CASE Shutdown \/ StopComm \/ JoinRx \/ JoinWorker \/ JoinUninitialised
  BY <1>9 DEF Shutdown, StopComm, JoinRx, JoinWorker, JoinUninitialised
<1>10. CASE SigInt \/ RxTest \/ RxReturn \/ RxLock \/ RxPush \/ WorkerTest \/
            ProgramLoop
  BY <1>10 DEF SigInt, RxTest, RxReturn, RxLock, FifoFree, RxPush, WorkerTest,
         ProgramLoop
<1>11. ASSUME NEW cmd \in Commands, RecvCBRoutine(cmd) PROVE ReplyTypes'
  BY <1>11 DEF RecvCBRoutine
<1>12. CASE RxCommit
  BY <1>12 DEF RxCommit
<1>13. CASE UNCHANGED vars
  BY <1>13 DEF vars
<1> QED
  BY <1>1, <1>2, <1>3, <1>4, <1>5, <1>6, <1>7, <1>8, <1>9, <1>10, <1>11, <1>12,
     <1>13 DEF Next, MainStep, RxStep, WorkerStep, Ended

\* The worker thread stays at one of its places.
LEMMA WorkerTypesStep == WorkerTypes /\ [Next]_vars => WorkerTypes'
<1> SUFFICES ASSUME WorkerTypes, [Next]_vars
             PROVE  WorkerTypes'
  OBVIOUS
<1> USE DEF Goto, RxGoto, queueVars, replyVars, workerVars, rxVars, flagVars
<1> USE DEF WorkerTypes
<1>1. CASE InitCommandProcessor \/ StartComm \/ StartWorker \/ LoopTest
  BY <1>1 DEF InitCommandProcessor, StartComm, StartWorker, LoopTest
<1>2. CASE LockFIFO \/ Front
  BY <1>2 DEF LockFIFO, FifoFree, Front
<1>3. CASE PopFront
  BY <1>3 DEF PopFront
<1>4. CASE FindEmpty \/ NullDereference
  BY <1>4 DEF FindEmpty, NullDereference
<1>5. CASE AnswerQuit
  BY <1>5 DEF AnswerQuit, Dispatch
<1>6. CASE AnswerStatus \/ AnswerStartStop \/ AnswerOther
  BY <1>6 DEF AnswerStatus, Dispatch, AnswerStartStop, AnswerOther
<1>7. CASE AnswerQuery
  BY <1>7 DEF AnswerQuery, Dispatch
<1>8. CASE Send
  BY <1>8 DEF Send
<1>9. CASE Shutdown \/ StopComm \/ JoinRx \/ JoinWorker \/ JoinUninitialised
  BY <1>9 DEF Shutdown, StopComm, JoinRx, JoinWorker, JoinUninitialised
<1>10. CASE SigInt \/ RxTest \/ RxReturn \/ RxLock \/ RxPush \/ WorkerTest \/
            ProgramLoop
  BY <1>10 DEF SigInt, RxTest, RxReturn, RxLock, FifoFree, RxPush, WorkerTest,
         ProgramLoop
<1>11. ASSUME NEW cmd \in Commands, RecvCBRoutine(cmd) PROVE WorkerTypes'
  BY <1>11 DEF RecvCBRoutine
<1>12. CASE RxCommit
  BY <1>12 DEF RxCommit
<1>13. CASE UNCHANGED vars
  BY <1>13 DEF vars
<1> QED
  BY <1>1, <1>2, <1>3, <1>4, <1>5, <1>6, <1>7, <1>8, <1>9, <1>10, <1>11, <1>12,
     <1>13 DEF Next, MainStep, RxStep, WorkerStep, Ended

\* The receive thread stays at one of its places, with a command or without.
LEMMA RxTypesStep == RxTypes /\ QueueTypes /\ [Next]_vars => RxTypes'
<1> SUFFICES ASSUME RxTypes, QueueTypes, [Next]_vars
             PROVE  RxTypes'
  OBVIOUS
<1> USE DEF Goto, RxGoto, queueVars, replyVars, workerVars, rxVars, flagVars
<1> USE DEF RxTypes, QueueTypes
<1>1. CASE InitCommandProcessor \/ StartComm \/ StartWorker \/ LoopTest
  BY <1>1 DEF InitCommandProcessor, StartComm, StartWorker, LoopTest
<1>2. CASE LockFIFO \/ Front
  BY <1>2 DEF LockFIFO, FifoFree, Front
<1>3. CASE PopFront
  BY <1>3 DEF PopFront
<1>4. CASE FindEmpty \/ NullDereference
  BY <1>4 DEF FindEmpty, NullDereference
<1>5. CASE AnswerQuit
  BY <1>5 DEF AnswerQuit, Dispatch
<1>6. CASE AnswerStatus \/ AnswerStartStop \/ AnswerOther
  BY <1>6 DEF AnswerStatus, Dispatch, AnswerStartStop, AnswerOther
<1>7. CASE AnswerQuery
  BY <1>7 DEF AnswerQuery, Dispatch
<1>8. CASE Send
  BY <1>8 DEF Send
<1>9. CASE Shutdown \/ StopComm \/ JoinRx \/ JoinWorker \/ JoinUninitialised
  BY <1>9 DEF Shutdown, StopComm, JoinRx, JoinWorker, JoinUninitialised
<1>10. CASE SigInt \/ RxTest \/ RxReturn \/ RxLock \/ RxPush \/ WorkerTest \/
            ProgramLoop
  BY <1>10 DEF SigInt, RxTest, RxReturn, RxLock, FifoFree, RxPush, WorkerTest,
         ProgramLoop
<1>11. ASSUME NEW cmd \in Commands, RecvCBRoutine(cmd) PROVE RxTypes'
  BY <1>11 DEF RecvCBRoutine
<1>12. CASE RxCommit
  BY <1>12 DEF RxCommit
<1>13. CASE UNCHANGED vars
  BY <1>13 DEF vars
<1> QED
  BY <1>1, <1>2, <1>3, <1>4, <1>5, <1>6, <1>7, <1>8, <1>9, <1>10, <1>11, <1>12,
     <1>13 DEF Next, MainStep, RxStep, WorkerStep, Ended

(***************************************************************************)
(* Every step keeps the rest of the invariant.                             *)
(***************************************************************************)
\* Threads are created and joined in one order only.
LEMMA ThreadStep == ThreadInv /\ MainTypes /\ [Next]_vars => ThreadInv'
<1> SUFFICES ASSUME ThreadInv, MainTypes, [Next]_vars
             PROVE  ThreadInv'
  OBVIOUS
<1> USE DEF Goto, RxGoto, queueVars, replyVars, workerVars, rxVars, flagVars
<1> USE DEF ThreadInv, MainTypes, MainStates
<1>1. CASE InitCommandProcessor \/ StartComm \/ StartWorker \/ LoopTest
  BY <1>1 DEF InitCommandProcessor, StartComm, StartWorker, LoopTest
<1>2. CASE LockFIFO \/ Front
  BY <1>2 DEF LockFIFO, FifoFree, Front
<1>3. CASE PopFront
  BY <1>3 DEF PopFront
<1>4. CASE FindEmpty \/ NullDereference
  BY <1>4 DEF FindEmpty, NullDereference
<1>5. CASE AnswerQuit
  BY <1>5 DEF AnswerQuit, Dispatch
<1>6. CASE AnswerStatus \/ AnswerStartStop \/ AnswerOther
  BY <1>6 DEF AnswerStatus, Dispatch, AnswerStartStop, AnswerOther
<1>7. CASE AnswerQuery
  BY <1>7 DEF AnswerQuery, Dispatch
<1>8. CASE Send
  BY <1>8 DEF Send
<1>9. CASE Shutdown \/ StopComm \/ JoinRx \/ JoinWorker \/ JoinUninitialised
  BY <1>9 DEF Shutdown, StopComm, JoinRx, JoinWorker, JoinUninitialised
<1>10. CASE SigInt \/ RxTest \/ RxReturn \/ RxLock \/ RxPush \/ WorkerTest \/
            ProgramLoop
  BY <1>10 DEF SigInt, RxTest, RxReturn, RxLock, FifoFree, RxPush, WorkerTest,
         ProgramLoop
<1>11. ASSUME NEW cmd \in Commands, RecvCBRoutine(cmd) PROVE ThreadInv'
  BY <1>11 DEF RecvCBRoutine
<1>12. CASE RxCommit
  BY <1>12 DEF RxCommit
<1>13. CASE UNCHANGED vars
  BY <1>13 DEF vars
<1> QED
  BY <1>1, <1>2, <1>3, <1>4, <1>5, <1>6, <1>7, <1>8, <1>9, <1>10, <1>11, <1>12,
     <1>13 DEF Next, MainStep, RxStep, WorkerStep, Ended

\* No step breaks mutual exclusion.
LEMMA LockStep == LockInv /\ ThreadInv /\ [Next]_vars => LockInv'
<1> SUFFICES ASSUME LockInv, ThreadInv, [Next]_vars
             PROVE  LockInv'
  OBVIOUS
<1> USE DEF Goto, RxGoto, queueVars, replyVars, workerVars, rxVars, flagVars
<1> USE DEF LockInv, ThreadInv
<1>1. CASE InitCommandProcessor \/ StartComm \/ StartWorker \/ LoopTest
  BY <1>1 DEF InitCommandProcessor, StartComm, StartWorker, LoopTest
<1>2. CASE LockFIFO \/ Front
  BY <1>2 DEF LockFIFO, FifoFree, Front
<1>3. CASE PopFront
  BY <1>3 DEF PopFront
<1>4. CASE FindEmpty \/ NullDereference
  BY <1>4 DEF FindEmpty, NullDereference
<1>5. CASE AnswerQuit
  BY <1>5 DEF AnswerQuit, Dispatch
<1>6. CASE AnswerStatus \/ AnswerStartStop \/ AnswerOther
  BY <1>6 DEF AnswerStatus, Dispatch, AnswerStartStop, AnswerOther
<1>7. CASE AnswerQuery
  BY <1>7 DEF AnswerQuery, Dispatch
<1>8. CASE Send
  BY <1>8 DEF Send
<1>9. CASE Shutdown \/ StopComm \/ JoinRx \/ JoinWorker \/ JoinUninitialised
  BY <1>9 DEF Shutdown, StopComm, JoinRx, JoinWorker, JoinUninitialised
<1>10. CASE SigInt \/ RxTest \/ RxReturn \/ RxLock \/ RxPush \/ WorkerTest \/
            ProgramLoop
  BY <1>10 DEF SigInt, RxTest, RxReturn, RxLock, FifoFree, RxPush, WorkerTest,
         ProgramLoop
<1>11. ASSUME NEW cmd \in Commands, RecvCBRoutine(cmd) PROVE LockInv'
  BY <1>11 DEF RecvCBRoutine
<1>12. CASE RxCommit
  BY <1>12 DEF RxCommit
<1>13. CASE UNCHANGED vars
  BY <1>13 DEF vars
<1> QED
  BY <1>1, <1>2, <1>3, <1>4, <1>5, <1>6, <1>7, <1>8, <1>9, <1>10, <1>11, <1>12,
     <1>13 DEF Next, MainStep, RxStep, WorkerStep, Ended

\* What a thread holds stays what it was, because of the mutex.
LEMMA HoldsStep == HoldsInv /\ LockInv /\ QueueTypes /\ [Next]_vars => HoldsInv'
<1> SUFFICES ASSUME HoldsInv, LockInv, QueueTypes, [Next]_vars
             PROVE  HoldsInv'
  OBVIOUS
<1> USE DEF Goto, RxGoto, queueVars, replyVars, workerVars, rxVars, flagVars
<1> USE DEF HoldsInv, LockInv, QueueTypes
<1>1. CASE InitCommandProcessor \/ StartComm \/ StartWorker \/ LoopTest
  BY <1>1 DEF InitCommandProcessor, StartComm, StartWorker, LoopTest
<1>2. CASE LockFIFO \/ Front
  BY <1>2 DEF LockFIFO, FifoFree, Front
<1>3. CASE PopFront
  BY <1>3 DEF PopFront
<1>4. CASE FindEmpty \/ NullDereference
  BY <1>4 DEF FindEmpty, NullDereference
<1>5. CASE AnswerQuit
  BY <1>5 DEF AnswerQuit, Dispatch
<1>6. CASE AnswerStatus \/ AnswerStartStop \/ AnswerOther
  BY <1>6 DEF AnswerStatus, Dispatch, AnswerStartStop, AnswerOther
<1>7. CASE AnswerQuery
  BY <1>7 DEF AnswerQuery, Dispatch
<1>8. CASE Send
  BY <1>8 DEF Send
<1>9. CASE Shutdown \/ StopComm \/ JoinRx \/ JoinWorker \/ JoinUninitialised
  BY <1>9 DEF Shutdown, StopComm, JoinRx, JoinWorker, JoinUninitialised
<1>10. CASE SigInt \/ RxTest \/ RxReturn \/ RxLock \/ RxPush \/ WorkerTest \/
            ProgramLoop
  BY <1>10 DEF SigInt, RxTest, RxReturn, RxLock, FifoFree, RxPush, WorkerTest,
         ProgramLoop
<1>11. ASSUME NEW cmd \in Commands, RecvCBRoutine(cmd) PROVE HoldsInv'
  BY <1>11 DEF RecvCBRoutine
<1>12. CASE RxCommit
  BY <1>12 DEF RxCommit
<1>13. CASE UNCHANGED vars
  BY <1>13 DEF vars
<1> QED
  BY <1>1, <1>2, <1>3, <1>4, <1>5, <1>6, <1>7, <1>8, <1>9, <1>10, <1>11, <1>12,
     <1>13 DEF Next, MainStep, RxStep, WorkerStep, Ended

\* What is queued is what was accepted and not yet taken.
LEMMA QueueStep == QueueInv /\ HoldsInv /\ QueueTypes /\ [Next]_vars => QueueInv'
<1> SUFFICES ASSUME QueueInv, HoldsInv, QueueTypes, [Next]_vars
             PROVE  QueueInv'
  OBVIOUS
<1> USE DEF Goto, RxGoto, queueVars, replyVars, workerVars, rxVars, flagVars
<1> USE DEF QueueInv, HoldsInv, QueueTypes
<1>1. CASE InitCommandProcessor \/ StartComm \/ StartWorker \/ LoopTest
  BY <1>1 DEF InitCommandProcessor, StartComm, StartWorker, LoopTest
<1>2. CASE LockFIFO \/ Front
  BY <1>2 DEF LockFIFO, FifoFree, Front
<1>3. CASE PopFront
  BY <1>3 DEF PopFront
<1>4. CASE FindEmpty \/ NullDereference
  BY <1>4 DEF FindEmpty, NullDereference
<1>5. CASE AnswerQuit
  BY <1>5 DEF AnswerQuit, Dispatch
<1>6. CASE AnswerStatus \/ AnswerStartStop \/ AnswerOther
  BY <1>6 DEF AnswerStatus, Dispatch, AnswerStartStop, AnswerOther
<1>7. CASE AnswerQuery
  BY <1>7 DEF AnswerQuery, Dispatch
<1>8. CASE Send
  BY <1>8 DEF Send
<1>9. CASE Shutdown \/ StopComm \/ JoinRx \/ JoinWorker \/ JoinUninitialised
  BY <1>9 DEF Shutdown, StopComm, JoinRx, JoinWorker, JoinUninitialised
<1>10. CASE SigInt \/ RxTest \/ RxReturn \/ RxLock \/ RxPush \/ WorkerTest \/
            ProgramLoop
  BY <1>10 DEF SigInt, RxTest, RxReturn, RxLock, FifoFree, RxPush, WorkerTest,
         ProgramLoop
<1>11. ASSUME NEW cmd \in Commands, RecvCBRoutine(cmd) PROVE QueueInv'
  BY <1>11 DEF RecvCBRoutine
<1>12. CASE RxCommit
  BY <1>12 DEF RxCommit
<1>13. CASE UNCHANGED vars
  BY <1>13 DEF vars
<1> QED
  BY <1>1, <1>2, <1>3, <1>4, <1>5, <1>6, <1>7, <1>8, <1>9, <1>10, <1>11, <1>12,
     <1>13 DEF Next, MainStep, RxStep, WorkerStep, Ended

\* After an honoured quit no further command is taken.
LEMMA QuitStep == QuitInv /\ HoldsInv /\ ThreadInv /\ QueueTypes /\ [Next]_vars => QuitInv'
<1> SUFFICES ASSUME QuitInv, HoldsInv, ThreadInv, QueueTypes, [Next]_vars
             PROVE  QuitInv'
  OBVIOUS
<1> USE DEF Goto, RxGoto, queueVars, replyVars, workerVars, rxVars, flagVars
<1> USE DEF QuitInv, HoldsInv, ThreadInv, QueueTypes
<1>1. CASE InitCommandProcessor \/ StartComm \/ StartWorker \/ LoopTest
  BY <1>1 DEF InitCommandProcessor, StartComm, StartWorker, LoopTest
<1>2. CASE LockFIFO \/ Front
  BY <1>2 DEF LockFIFO, FifoFree, Front
<1>3. CASE PopFront
  BY <1>3 DEF PopFront
<1>4. CASE FindEmpty \/ NullDereference
  BY <1>4 DEF FindEmpty, NullDereference
<1>5. CASE AnswerQuit
  BY <1>5 DEF AnswerQuit, Dispatch
<1>6. CASE AnswerStatus \/ AnswerStartStop \/ AnswerOther
  BY <1>6 DEF AnswerStatus, Dispatch, AnswerStartStop, AnswerOther
<1>7. CASE AnswerQuery
  BY <1>7 DEF AnswerQuery, Dispatch
<1>8. CASE Send
  BY <1>8 DEF Send
<1>9. CASE Shutdown \/ StopComm \/ JoinRx \/ JoinWorker \/ JoinUninitialised
  BY <1>9 DEF Shutdown, StopComm, JoinRx, JoinWorker, JoinUninitialised
<1>10. CASE SigInt \/ RxTest \/ RxReturn \/ RxLock \/ RxPush \/ WorkerTest \/
            ProgramLoop
  BY <1>10 DEF SigInt, RxTest, RxReturn, RxLock, FifoFree, RxPush, WorkerTest,
         ProgramLoop
<1>11. ASSUME NEW cmd \in Commands, RecvCBRoutine(cmd) PROVE QuitInv'
  BY <1>11 DEF RecvCBRoutine
<1>12. CASE RxCommit
  BY <1>12 DEF RxCommit
<1>13. CASE UNCHANGED vars
  BY <1>13 DEF vars
<1> QED
  BY <1>1, <1>2, <1>3, <1>4, <1>5, <1>6, <1>7, <1>8, <1>9, <1>10, <1>11, <1>12,
     <1>13 DEF Next, MainStep, RxStep, WorkerStep, Ended

\* The invariant is inductive, so it holds in every state.
THEOREM Invariance == Spec => []IndInv
<1>1. IndInv /\ [Next]_vars => IndInv'
  BY MainTypesStep, FlagTypesStep, QueueTypesStep, ReplyTypesStep, WorkerTypesStep,
     RxTypesStep, ThreadStep, LockStep, HoldsStep, QueueStep, QuitStep
     DEF IndInv, TypeOK
<1> QED
  BY <1>1, InvInit, PTL DEF Spec

(***************************************************************************)
(* The theorems.                                                           *)
(***************************************************************************)
\* Every variable keeps its type, whatever the interleaving.
THEOREM TypeCorrect == Spec => []TypeOK
BY Invariance, PTL DEF IndInv

\* No command is taken after a quit that is honoured.
THEOREM QuitIsLast == Spec => []NothingAfterQuit
<1>1. IndInv => NothingAfterQuit
  BY DEF IndInv, TypeOK, QueueTypes, QuitInv, NothingAfterQuit
<1> QED
  BY <1>1, Invariance, PTL

\* main returns only when both threads have ended and the mutex is free.
THEOREM ExitIsClean == Spec => []JoinedBeforeExit
<1>1. IndInv => JoinedBeforeExit
  BY DEF IndInv, TypeOK, QueueTypes, ThreadInv, LockInv, JoinedBeforeExit
<1> QED
  BY <1>1, Invariance, PTL

\* The element after a prefix is the head of the rest.
LEMMA NextOfConcat ==
  ASSUME NEW S, NEW t \in Seq(S), NEW f \in Seq(S), f # <<>>
  PROVE  /\ Len(t) < Len(t \o f)
         /\ (t \o f)[Len(t) + 1] = Head(f)
OBVIOUS

\* Every step of the three threads is a step of the abstract queue or leaves
\* the queue alone.
LEMMA QueueRefined == IndInv /\ [Next]_vars => [Queue!Next]_(Queue!vars)
<1> SUFFICES ASSUME IndInv, [Next]_vars
             PROVE  [Queue!Next]_(Queue!vars)
  OBVIOUS
<1> USE DEF Goto, RxGoto, queueVars, replyVars, workerVars, rxVars, flagVars
<1> USE DEF IndInv, TypeOK, HoldsInv, QueueInv, QueueTypes
<1>1. CASE Front
  <2>1. Queue!Peek
    BY <1>1, NextOfConcat DEF Front, Queue!Peek
  <2> QED
    BY <2>1 DEF Queue!Next
<1>2. CASE PopFront
  <2>1. Queue!Take
    BY <1>2, NextOfConcat DEF PopFront, Queue!Take
  <2> QED
    BY <2>1 DEF Queue!Next
<1>3. CASE FindEmpty
  <2>1. Queue!Miss
    BY <1>3 DEF FindEmpty, Queue!Miss
  <2> QED
    BY <2>1 DEF Queue!Next
<1>4. CASE RxCommit
  <2>1. Queue!Accept(rxCmd) /\ rxCmd \in Commands
    BY <1>4 DEF RxCommit, Queue!Accept
  <2> QED
    BY <2>1 DEF Queue!Next
<1>5. CASE InitCommandProcessor \/ StartComm \/ StartWorker \/ LoopTest
  BY <1>5 DEF InitCommandProcessor, StartComm, StartWorker, LoopTest, Queue!vars
<1>6. CASE LockFIFO \/ NullDereference \/ RxTest \/ RxReturn \/ RxLock \/ RxPush
  BY <1>6 DEF LockFIFO, NullDereference, RxTest, RxReturn, RxLock, RxPush,
         Queue!vars
<1>7. CASE AnswerQuit \/ AnswerStatus \/ AnswerStartStop \/ AnswerOther \/
            AnswerQuery
  BY <1>7 DEF AnswerQuit, AnswerStatus, AnswerStartStop, AnswerOther,
         AnswerQuery, Dispatch, Queue!vars
<1>8. CASE Send \/ Shutdown \/ StopComm \/ JoinRx \/ JoinWorker \/
            JoinUninitialised
  BY <1>8 DEF Send, Shutdown, StopComm, JoinRx, JoinWorker, JoinUninitialised,
         Queue!vars
<1>9. CASE \E cmd \in Commands : RecvCBRoutine(cmd)
  BY <1>9 DEF RecvCBRoutine, Queue!vars
<1>10. CASE SigInt \/ WorkerTest \/ ProgramLoop
  BY <1>10 DEF SigInt, WorkerTest, ProgramLoop, Queue!vars
<1>11. CASE UNCHANGED vars
  BY <1>11 DEF vars, Queue!vars
<1> QED
  BY <1>1, <1>2, <1>3, <1>4, <1>5, <1>6, <1>7, <1>8, <1>9, <1>10, <1>11
     DEF Next, MainStep, RxStep, WorkerStep, Ended

\* The deque and its mutex implement the abstract queue.
THEOREM QueueImplemented == Spec => QueueSpec
<1>1. Init => Queue!Init
  BY DEF Init, Queue!Init
<1> QED
  BY <1>1, QueueRefined, Invariance, PTL DEF Spec, QueueSpec, Queue!Spec

(***************************************************************************)
(* The replies: each command taken is answered once and in order, and what *)
(* the answer says depends on every command before it, because m_response  *)
(* is never cleared.  The inductive invariant, on top of IndInv.           *)
(***************************************************************************)
\* Silents of any commands; whether there is one of the first i whose method is in
\* M, and the last of them.
IsSilent(t, i) == \A j \in 1..i : t[j].method = "quit"
SilentsOf(t) == Cardinality({i \in 1..Len(t) : IsSilent(t, i)})
HadIn(t, i, M) == \E j \in 1..i : t[j].method \in M
LastPlace(t, i, M, j) ==
  /\ t[j].method \in M
  /\ \A k \in (j + 1)..i : t[k].method \notin M
LastIn(t, i, M) == t[CHOOSE j \in 1..i : LastPlace(t, i, M, j)]

Identified == Methods \ {"quit"}
Judged == {"start", "stop", "other"}

\* r is what the first i commands of t make of m_response.
Describes(r, t, i) ==
  /\ r.id = IF HadIn(t, i, Identified) THEN LastIn(t, i, Identified).id ELSE Unset
  /\ r.success = IF ~HadIn(t, i, Judged) THEN Unset
                 ELSE IF LastIn(t, i, Judged).method = "other" THEN "FALSE" ELSE "TRUE"
  /\ (r.status = "OK") <=> HadIn(t, i, {"status"})
  /\ (r.contact_radius # Unset) <=> HadIn(t, i, {"query"})

\* The number of commands that m_response has seen.
Handled == IF main = "dispatch" /\ newCmd # NULL THEN Len(taken) - 1 ELSE Len(taken)

\* The command being answered is the last one taken.
AnsweringInv == Answering => Len(taken) > 0 /\ newCmd = taken[Len(taken)]

\* m_response describes the commands it has seen.
ResponseInv == Describes(m_response, taken, Handled)

\* Each reply sent described the commands up to its own.
SentInv == \A n \in 1..Len(sent) : Describes(sent[n].reply, taken, SilentsOf(taken) + n)

ReplyInv == AnsweringInv /\ ResponseInv /\ OneReplyPerCommand /\ SentInv

(***************************************************************************)
(* Histories of commands.                                                  *)
(***************************************************************************)
\* What the properties count in taken is what the operator above does.
LEMMA SameOperators == Silents = SilentsOf(taken) /\ Silents' = SilentsOf(taken')
BY DEF Silents, Silent, SilentsOf, IsSilent

\* A command has an id and one of the methods.
LEMMA CommandFields ==
  ASSUME NEW t \in Seq(Commands), NEW i \in 1..Len(t)
  PROVE  t[i] \in Commands /\ t[i].id \in Int /\ t[i].method \in Methods
<1>1. t[i] \in Commands
  BY ElementOfSeq
<1> QED
  BY <1>1, CommandsAssumption

\* If there has been a command of the kind there is a last one ...
LEMMA LastExists ==
  ASSUME NEW t, NEW i \in Nat, NEW M, HadIn(t, i, M)
  PROVE  \E j \in 1..i : LastPlace(t, i, M, j)
<1> DEFINE S == {j \in 1..i : t[j].method \in M}
<1>1. S \subseteq 1..i /\ S # {}
  BY DEF HadIn
<1>2. PICK m \in S : \A j \in S : j <= m
  <2> HIDE DEF S
  <2> QED
    BY <1>1, Greatest
<1>3. \A k \in (m + 1)..i : k \in 1..i /\ ~(k <= m)
  OBVIOUS
<1> QED
  BY <1>2, <1>3 DEF LastPlace

\* ... and it is the one LastIn finds.
LEMMA LastInIs ==
  ASSUME NEW t, NEW i \in Nat, NEW M, NEW j \in 1..i, LastPlace(t, i, M, j)
  PROVE  LastIn(t, i, M) = t[j]
<1>1. ASSUME NEW k \in 1..i, LastPlace(t, i, M, k)
      PROVE  k = j
  <2>1. k < j => j \in (k + 1)..i
    OBVIOUS
  <2>2. j < k => k \in (j + 1)..i
    OBVIOUS
  <2> QED
    BY <1>1, <2>1, <2>2 DEF LastPlace
<1> DEFINE P(k) == LastPlace(t, i, M, k)
<1>2. P(j) /\ \A k \in 1..i : P(k) => k = j
  BY <1>1
<1>3. LastIn(t, i, M) = t[CHOOSE k \in 1..i : P(k)]
  BY DEF LastIn
<1> HIDE DEF P
<1> QED
  BY <1>2, <1>3

\* Both depend on the first i commands only.
LEMMA LastStays ==
  ASSUME NEW t, NEW u, NEW i \in Nat, NEW M, \A j \in 1..i : u[j] = t[j]
  PROVE  /\ HadIn(u, i, M) <=> HadIn(t, i, M)
         /\ HadIn(t, i, M) => LastIn(u, i, M) = LastIn(t, i, M)
<1>1. HadIn(u, i, M) <=> HadIn(t, i, M)
  BY DEF HadIn
<1>2. ASSUME HadIn(t, i, M)
      PROVE  LastIn(u, i, M) = LastIn(t, i, M)
  <2>1. PICK j \in 1..i : LastPlace(t, i, M, j)
    BY <1>2, LastExists
  <2>2. LastPlace(u, i, M, j)
    <3>1. \A k \in (j + 1)..i : k \in 1..i
      OBVIOUS
    <3> QED
      BY <2>1, <3>1 DEF LastPlace
  <2> QED
    BY <2>1, <2>2, LastInIs
<1> QED
  BY <1>1, <1>2

\* The next command is the last of its kinds; the others keep theirs.
LEMMA LastOfNext ==
  ASSUME NEW t, NEW i \in Nat, NEW M
  PROVE  /\ HadIn(t, i + 1, M) <=> HadIn(t, i, M) \/ t[i + 1].method \in M
         /\ t[i + 1].method \in M => LastIn(t, i + 1, M) = t[i + 1]
         /\ t[i + 1].method \notin M /\ HadIn(t, i, M) => LastIn(t, i + 1, M) = LastIn(t, i, M)
<1>1. \A j : j \in 1..(i + 1) <=> j \in 1..i \/ j = i + 1
  OBVIOUS
<1>2. HadIn(t, i + 1, M) <=> HadIn(t, i, M) \/ t[i + 1].method \in M
  BY <1>1 DEF HadIn
<1>3. ASSUME t[i + 1].method \in M
      PROVE  LastIn(t, i + 1, M) = t[i + 1]
  <2>1. LastPlace(t, i + 1, M, i + 1)
    BY <1>3 DEF LastPlace
  <2> QED
    BY <2>1, LastInIs
<1>4. ASSUME t[i + 1].method \notin M, HadIn(t, i, M)
      PROVE  LastIn(t, i + 1, M) = LastIn(t, i, M)
  <2>1. PICK j \in 1..i : LastPlace(t, i, M, j)
    BY <1>4, LastExists
  <2>2. LastPlace(t, i + 1, M, j)
    <3>1. \A k \in (j + 1)..(i + 1) : k \in (j + 1)..i \/ k = i + 1
      OBVIOUS
    <3> QED
      BY <1>4, <2>1, <3>1 DEF LastPlace
  <2>3. i + 1 \in Nat /\ j \in 1..(i + 1)
    OBVIOUS
  <2>4. LastIn(t, i, M) = t[j]
    BY <2>1, LastInIs
  <2>5. LastIn(t, i + 1, M) = t[j]
    BY <2>2, <2>3, LastInIs
  <2> QED
    BY <2>4, <2>5
<1> QED
  BY <1>2, <1>3, <1>4

\* So does what they make of m_response.
LEMMA DescribesStays ==
  ASSUME NEW r, NEW t, NEW u, NEW i \in Nat, \A j \in 1..i : u[j] = t[j], Describes(r, t, i)
  PROVE  Describes(r, u, i)
<1>1. \A M : /\ HadIn(u, i, M) <=> HadIn(t, i, M)
             /\ HadIn(t, i, M) => LastIn(u, i, M) = LastIn(t, i, M)
  BY LastStays
<1> QED
  BY <1>1 DEF Describes

\* The silent commands are the quits at the beginning.
LEMMA SilentsIs ==
  ASSUME NEW t, Len(t) \in Nat, NEW m \in 0..Len(t), \A j \in 1..m : t[j].method = "quit",
         m < Len(t) => t[m + 1].method # "quit"
  PROVE  SilentsOf(t) = m
<1> DEFINE S == {i \in 1..Len(t) : IsSilent(t, i)}
<1>1. \A i \in 1..m : i \in 1..Len(t) /\ IsSilent(t, i)
  <2> TAKE i \in 1..m
  <2>1. \A j \in 1..i : j \in 1..m
    OBVIOUS
  <2> QED
    BY <2>1 DEF IsSilent
<1>2. \A i \in 1..Len(t) : IsSilent(t, i) => i \in 1..m
  <2> TAKE i \in 1..Len(t)
  <2>1. ~(i \in 1..m) => m < Len(t) /\ m + 1 \in 1..i
    OBVIOUS
  <2> QED
    BY <2>1 DEF IsSilent
<1>3. S = 1..m
  BY <1>1, <1>2
<1>4. Cardinality(1..m) = m
  BY FS_Interval
<1> QED
  BY <1>3, <1>4 DEF SilentsOf

\* There are so many, and the command behind them is no quit.
LEMMA SilentsFacts ==
  ASSUME NEW t, Len(t) \in Nat
  PROVE  /\ SilentsOf(t) \in 0..Len(t)
         /\ \A j \in 1..SilentsOf(t) : t[j].method = "quit"
         /\ SilentsOf(t) < Len(t) => t[SilentsOf(t) + 1].method # "quit"
<1>1. \E m \in 0..Len(t) : /\ \A j \in 1..m : t[j].method = "quit"
                           /\ m < Len(t) => t[m + 1].method # "quit"
  <2> DEFINE S == {j \in 1..Len(t) : t[j].method # "quit"}
  <2>1. CASE S = {}
    <3>1. \A j \in 1..Len(t) : t[j].method = "quit"
      BY <2>1
    <3> QED
      BY <3>1
  <2>2. CASE S # {}
    <3>1. S \subseteq Nat
      OBVIOUS
    <3>2. PICK p \in S : \A j \in S : p <= j
      <4> HIDE DEF S
      <4> QED
        BY <2>2, <3>1, Least
    <3>3. p - 1 \in 0..Len(t) /\ (p - 1) + 1 = p
      OBVIOUS
    <3>4. \A j \in 1..(p - 1) : j \in 1..Len(t) /\ ~(p <= j)
      OBVIOUS
    <3>5. \A j \in 1..(p - 1) : t[j].method = "quit"
      BY <3>2, <3>4
    <3>6. t[(p - 1) + 1].method # "quit"
      BY <3>2, <3>3
    <3> QED
      BY <3>3, <3>5, <3>6
  <2> QED
    BY <2>1, <2>2
<1>2. PICK m \in 0..Len(t) : /\ \A j \in 1..m : t[j].method = "quit"
                             /\ m < Len(t) => t[m + 1].method # "quit"
  BY <1>1
<1>3. SilentsOf(t) = m
  BY <1>2, SilentsIs
<1> QED
  BY <1>2, <1>3

\* One more command is silent only if all before it were and it is a quit.
LEMMA SilentsAppend ==
  ASSUME NEW t \in Seq(Commands), NEW c \in Commands
  PROVE  SilentsOf(Append(t, c)) =
           IF SilentsOf(t) = Len(t) /\ c.method = "quit" THEN Len(t) + 1 ELSE SilentsOf(t)
<1> DEFINE u == Append(t, c)
           m == SilentsOf(t)
<1>1. /\ Len(t) \in Nat /\ Len(u) = Len(t) + 1 /\ u[Len(t) + 1] = c
      /\ \A j \in 1..Len(t) : u[j] = t[j]
  BY AppendProperties, LenProperties
<1>2. /\ m \in 0..Len(t) /\ \A j \in 1..m : t[j].method = "quit"
      /\ m < Len(t) => t[m + 1].method # "quit"
  BY <1>1, SilentsFacts
<1> HIDE DEF u, m
<1>3. Len(u) \in Nat
  BY <1>1
<1>4. CASE m = Len(t) /\ c.method = "quit"
  <2>1. \A j \in 1..(Len(t) + 1) : j \in 1..Len(t) \/ j = Len(t) + 1
    BY <1>1
  <2>2. \A j \in 1..(Len(t) + 1) : u[j].method = "quit"
    BY <1>1, <1>2, <1>4, <2>1
  <2>3. Len(t) + 1 \in 0..Len(u) /\ ~(Len(t) + 1 < Len(u))
    BY <1>1
  <2>4. SilentsOf(u) = Len(t) + 1
    BY <1>3, <2>2, <2>3, SilentsIs
  <2> QED
    BY <1>4, <2>4 DEF u, m
<1>5. CASE ~(m = Len(t) /\ c.method = "quit")
  <2>1. m \in 0..Len(u) /\ m + 1 \in 1..Len(u)
    BY <1>1, <1>2
  <2>2. \A j \in 1..m : u[j].method = "quit"
    <3>1. \A j \in 1..m : j \in 1..Len(t)
      BY <1>1, <1>2
    <3> QED
      BY <1>1, <1>2, <3>1
  <2>3. u[m + 1].method # "quit"
    <3>1. CASE m = Len(t)
      BY <1>1, <1>5, <3>1
    <3>2. CASE m # Len(t)
      <4>1. m < Len(t) /\ m + 1 \in 1..Len(t)
        BY <1>1, <1>2, <3>2
      <4> QED
        BY <1>1, <1>2, <4>1
    <3> QED
      BY <3>1, <3>2
  <2>4. SilentsOf(u) = m
    BY <1>3, <2>1, <2>2, <2>3, SilentsIs
  <2> QED
    BY <1>5, <2>4 DEF u, m
<1> QED
  BY <1>4, <1>5

\* A command with an id has come once there are more than the silent ones.
LEMMA IdentifiedBehindSilents ==
  ASSUME NEW t \in Seq(Commands), NEW i \in 0..Len(t)
  PROVE  HadIn(t, i, Identified) <=> i > SilentsOf(t)
<1> DEFINE m == SilentsOf(t)
<1>1. /\ Len(t) \in Nat /\ m \in 0..Len(t) /\ \A j \in 1..m : t[j].method = "quit"
      /\ m < Len(t) => t[m + 1].method # "quit"
  BY LenProperties, SilentsFacts
<1> HIDE DEF m
<1>2. ASSUME i > m
      PROVE  HadIn(t, i, Identified)
  <2>1. m < Len(t) /\ m + 1 \in 1..i /\ m + 1 \in 1..Len(t)
    BY <1>1, <1>2
  <2>2. t[m + 1].method \in Identified
    BY <1>1, <2>1, CommandFields DEF Identified
  <2> QED
    BY <2>1, <2>2 DEF HadIn
<1>3. ASSUME ~(i > m)
      PROVE  ~HadIn(t, i, Identified)
  <2>1. \A j \in 1..i : j \in 1..m
    BY <1>1, <1>3
  <2> QED
    BY <1>1, <2>1 DEF HadIn, Identified
<1> QED
  BY <1>2, <1>3 DEF m

\* What the branches of processCommands do to m_response describes the command
\* too (lines 262-343).
LEMMA NextDescribed ==
  ASSUME NEW t \in Seq(Commands), NEW i \in Nat, i + 1 \in 1..Len(t), NEW r \in Response,
         Describes(r, t, i), NEW c, c = t[i + 1]
  PROVE  /\ c.method = "quit" => Describes(r, t, i + 1)
         /\ c.method = "status" => Describes([r EXCEPT !.id = c.id, !.status = "OK"], t, i + 1)
         /\ c.method \in {"start", "stop"} =>
              Describes([r EXCEPT !.id = c.id, !.success = "TRUE"], t, i + 1)
         /\ c.method = "other" =>
              Describes([r EXCEPT !.id = c.id, !.success = "FALSE"], t, i + 1)
         /\ c.method = "query" =>
              \A q \in {"default", "random"} :
                Describes([r EXCEPT !.id = c.id, !.contact_radius = q], t, i + 1)
<1> DEFINE Kinds == {Identified, Judged, {"status"}, {"query"}}
<1>1. \A M \in Kinds :
        /\ HadIn(t, i + 1, M) <=> HadIn(t, i, M) \/ c.method \in M
        /\ c.method \in M => LastIn(t, i + 1, M) = c
        /\ c.method \notin M /\ HadIn(t, i, M) => LastIn(t, i + 1, M) = LastIn(t, i, M)
  <2> HIDE DEF Kinds
  <2> QED
    BY LastOfNext
<1>2. /\ HadIn(t, i + 1, Identified) <=> HadIn(t, i, Identified) \/ c.method \in Identified
      /\ c.method \in Identified => LastIn(t, i + 1, Identified) = c
      /\ c.method \notin Identified /\ HadIn(t, i, Identified)
           => LastIn(t, i + 1, Identified) = LastIn(t, i, Identified)
  BY <1>1
<1>3. /\ HadIn(t, i + 1, Judged) <=> HadIn(t, i, Judged) \/ c.method \in Judged
      /\ c.method \in Judged => LastIn(t, i + 1, Judged) = c
      /\ c.method \notin Judged /\ HadIn(t, i, Judged)
           => LastIn(t, i + 1, Judged) = LastIn(t, i, Judged)
  BY <1>1
<1>4. /\ HadIn(t, i + 1, {"status"}) <=> HadIn(t, i, {"status"}) \/ c.method = "status"
      /\ HadIn(t, i + 1, {"query"}) <=> HadIn(t, i, {"query"}) \/ c.method = "query"
  BY <1>1
<1> HIDE DEF Kinds
<1>5. /\ c.method \in Identified <=> c.method # "quit"
      /\ c.method \in Judged <=> c.method \in {"start", "stop", "other"}
  BY CommandFields DEF Identified, Judged
<1>6. Unset \notin {"OK", "default", "random"}
  BY UnsetAssumption
<1>7. /\ r.id = IF HadIn(t, i, Identified) THEN LastIn(t, i, Identified).id ELSE Unset
      /\ r.success = IF ~HadIn(t, i, Judged) THEN Unset
                     ELSE IF LastIn(t, i, Judged).method = "other" THEN "FALSE" ELSE "TRUE"
      /\ (r.status = "OK") <=> HadIn(t, i, {"status"})
      /\ (r.contact_radius # Unset) <=> HadIn(t, i, {"query"})
  BY DEF Describes
<1> USE DEF Response
<1>8. ASSUME c.method = "quit" PROVE Describes(r, t, i + 1)
  BY <1>2, <1>3, <1>4, <1>5, <1>7, <1>8 DEF Describes
<1>9. ASSUME c.method = "status"
      PROVE  Describes([r EXCEPT !.id = c.id, !.status = "OK"], t, i + 1)
  <2> DEFINE s == [r EXCEPT !.id = c.id, !.status = "OK"]
  <2>1. /\ s.id = c.id /\ s.success = r.success /\ s.status = "OK"
        /\ s.contact_radius = r.contact_radius
    OBVIOUS
  <2> HIDE DEF s
  <2>2. Describes(s, t, i + 1)
    BY <1>2, <1>3, <1>4, <1>5, <1>7, <1>9, <2>1 DEF Describes
  <2> QED
    BY <2>2 DEF s
<1>10. ASSUME c.method \in {"start", "stop"}
       PROVE  Describes([r EXCEPT !.id = c.id, !.success = "TRUE"], t, i + 1)
  <2> DEFINE s == [r EXCEPT !.id = c.id, !.success = "TRUE"]
  <2>1. /\ s.id = c.id /\ s.success = "TRUE" /\ s.status = r.status
        /\ s.contact_radius = r.contact_radius
    OBVIOUS
  <2> HIDE DEF s
  <2>2. Describes(s, t, i + 1)
    BY <1>2, <1>3, <1>4, <1>5, <1>7, <1>10, <2>1 DEF Describes
  <2> QED
    BY <2>2 DEF s
<1>11. ASSUME c.method = "other"
       PROVE  Describes([r EXCEPT !.id = c.id, !.success = "FALSE"], t, i + 1)
  <2> DEFINE s == [r EXCEPT !.id = c.id, !.success = "FALSE"]
  <2>1. /\ s.id = c.id /\ s.success = "FALSE" /\ s.status = r.status
        /\ s.contact_radius = r.contact_radius
    OBVIOUS
  <2> HIDE DEF s
  <2>2. Describes(s, t, i + 1)
    BY <1>2, <1>3, <1>4, <1>5, <1>7, <1>11, <2>1 DEF Describes
  <2> QED
    BY <2>2 DEF s
<1>12. ASSUME c.method = "query", NEW q \in {"default", "random"}
       PROVE  Describes([r EXCEPT !.id = c.id, !.contact_radius = q], t, i + 1)
  <2> DEFINE s == [r EXCEPT !.id = c.id, !.contact_radius = q]
  <2>1. /\ s.id = c.id /\ s.success = r.success /\ s.status = r.status
        /\ s.contact_radius # Unset
    BY <1>6
  <2> HIDE DEF s
  <2>2. Describes(s, t, i + 1)
    BY <1>2, <1>3, <1>4, <1>5, <1>7, <1>12, <2>1 DEF Describes
  <2> QED
    BY <2>2 DEF s
<1> QED
  BY <1>8, <1>9, <1>10, <1>11, <1>12

(***************************************************************************)
(* The steps.                                                              *)
(***************************************************************************)
Answer == AnswerQuit \/ AnswerStatus \/ AnswerStartStop \/ AnswerOther \/ AnswerQuery

\* A step that has nothing to do with an answer.
Elsewhere ==
  /\ UNCHANGED <<taken, sent, m_response, newCmd>>
  /\ main' = main \/ (main \notin {"dispatch", "send"} /\ main' \notin {"dispatch", "send"})

\* These are the steps that have.
LEMMA ReplyFrame ==
  ASSUME [Next]_vars
  PROVE  Front \/ PopFront \/ FindEmpty \/ Answer \/ Send \/ Elsewhere
<1> USE DEF Goto, RxGoto, queueVars, replyVars, workerVars, rxVars, flagVars, Elsewhere
<1>1. CASE InitCommandProcessor \/ StartComm \/ StartWorker \/ LoopTest
  BY <1>1 DEF InitCommandProcessor, StartComm, StartWorker, LoopTest
<1>2. CASE LockFIFO \/ NullDereference \/ SigInt
  BY <1>2 DEF LockFIFO, NullDereference, SigInt
<1>3. CASE Shutdown \/ StopComm \/ JoinRx \/ JoinWorker \/ JoinUninitialised
  BY <1>3 DEF Shutdown, StopComm, JoinRx, JoinWorker, JoinUninitialised
<1>4. CASE RxTest \/ RxReturn \/ RxLock \/ RxPush \/ RxCommit
  BY <1>4 DEF RxTest, RxReturn, RxLock, RxPush, RxCommit
<1>5. ASSUME NEW cmd \in Commands, RecvCBRoutine(cmd)
      PROVE  Elsewhere
  BY <1>5 DEF RecvCBRoutine
<1>6. CASE WorkerTest \/ ProgramLoop
  BY <1>6 DEF WorkerTest, ProgramLoop
<1>7. CASE UNCHANGED vars
  BY <1>7 DEF vars
<1> QED
  BY <1>1, <1>2, <1>3, <1>4, <1>5, <1>6, <1>7
     DEF Next, MainStep, RxStep, WorkerStep, Ended, Answer

\* What the answering steps do to the variables of the invariant.
LEMMA AnsweringSteps ==
  ASSUME IndInv
  PROVE  /\ Front \/ FindEmpty =>
              /\ UNCHANGED <<taken, sent, m_response>> /\ ~Answering /\ ~Answering'
              /\ main = "front" /\ (main' = "pop" \/ newCmd' = NULL)
         /\ PopFront =>
              /\ UNCHANGED <<newCmd, sent, m_response>> /\ ~Answering /\ Answering'
              /\ main = "pop" /\ main' = "dispatch" /\ newCmd \in Commands /\ newCmd # NULL
              /\ taken' = Append(taken, newCmd)
         /\ Answer =>
              /\ UNCHANGED <<newCmd, taken, sent>> /\ Answering /\ Answering'
              /\ main = "dispatch" /\ main' = "send" /\ newCmd # NULL
         /\ Send =>
              /\ UNCHANGED <<newCmd, taken, m_response>> /\ Answering /\ main = "send"
              /\ newCmd \in Commands
              /\ \/ main' = main /\ sent' = sent
                 \/ /\ main' = "loop"
                    /\ sent' = IF m_response.id = Unset THEN sent
                               ELSE Append(sent, [cmd |-> newCmd, reply |-> m_response])
<1> USE DEF Goto, queueVars, replyVars, Answering
<1>1. Front \/ FindEmpty =>
        /\ UNCHANGED <<taken, sent, m_response>> /\ ~Answering /\ ~Answering'
        /\ main = "front" /\ (main' = "pop" \/ newCmd' = NULL)
  BY DEF Front, FindEmpty
<1>2. ASSUME PopFront
      PROVE  /\ UNCHANGED <<newCmd, sent, m_response>> /\ ~Answering /\ Answering'
             /\ main = "pop" /\ main' = "dispatch" /\ newCmd \in Commands /\ newCmd # NULL
             /\ taken' = Append(taken, newCmd)
  <2>1. main = "pop" /\ m_CmdFIFO \in Seq(Commands)
    BY <1>2 DEF PopFront, IndInv, TypeOK, QueueTypes
  <2>2. m_CmdFIFO # <<>> /\ newCmd = Head(m_CmdFIFO)
    BY <2>1 DEF IndInv, HoldsInv
  <2>3. newCmd \in Commands
    BY <2>1, <2>2, HeadTailProperties
  <2> QED
    BY <1>2, <2>3, CommandsAssumption DEF PopFront
<1>3. Answer =>
        /\ UNCHANGED <<newCmd, taken, sent>> /\ Answering /\ Answering'
        /\ main = "dispatch" /\ main' = "send" /\ newCmd # NULL
  BY DEF Answer, AnswerQuit, AnswerStatus, AnswerStartStop, AnswerOther, AnswerQuery, Dispatch
<1>4. ASSUME Send
      PROVE  /\ UNCHANGED <<newCmd, taken, m_response>> /\ Answering /\ main = "send"
             /\ newCmd \in Commands
             /\ \/ main' = main /\ sent' = sent
                \/ /\ main' = "loop"
                   /\ sent' = IF m_response.id = Unset THEN sent
                              ELSE Append(sent, [cmd |-> newCmd, reply |-> m_response])
  <2>1. main = "send" /\ newCmd \in Commands
    BY <1>4 DEF Send, IndInv, HoldsInv
  <2> QED
    BY <1>4, <2>1, CommandsAssumption DEF Send
<1> QED
  BY <1>1, <1>2, <1>3, <1>4

\* The commands taken, and the one being answered, are commands; m_response is a
\* Response.
LEMMA Types ==
  ASSUME IndInv
  PROVE  /\ taken \in Seq(Commands) /\ Len(taken) \in Nat
         /\ m_response \in Response /\ m_latestResult \in {"default", "random"}
         /\ sent \in Seq([cmd : Commands, reply : Response]) /\ Len(sent) \in Nat
BY LenProperties DEF IndInv, TypeOK, QueueTypes, ReplyTypes, WorkerTypes

\* A command is added to those taken.
LEMMA TakenGrows ==
  ASSUME IndInv, PopFront
  PROVE  /\ newCmd \in Commands
         /\ Len(taken') = Len(taken) + 1 /\ taken'[Len(taken) + 1] = newCmd
         /\ \A j \in 1..Len(taken) : taken'[j] = taken[j]
         /\ Silents' = IF Silents = Len(taken) /\ newCmd.method = "quit" THEN Len(taken) + 1
                       ELSE Silents
         /\ Silents \in 0..Len(taken)
<1>1. taken' = Append(taken, newCmd) /\ newCmd \in Commands /\ taken \in Seq(Commands)
  BY AnsweringSteps, Types
<1>2. /\ Silents' = IF Silents = Len(taken) /\ newCmd.method = "quit" THEN Len(taken) + 1
                    ELSE Silents
  BY <1>1, SilentsAppend, SameOperators
<1>3. Silents \in 0..Len(taken)
  BY Types, SilentsFacts, SameOperators
<1> QED
  BY <1>1, <1>2, <1>3, AppendProperties

\* Every step keeps AnsweringInv.
LEMMA AnsweringStep ==
  ASSUME IndInv, AnsweringInv, [Next]_vars
  PROVE  AnsweringInv'
<1> USE DEF AnsweringInv
<1>1. CASE Front \/ FindEmpty
  BY <1>1, AnsweringSteps
<1>2. CASE PopFront
  <2>1. newCmd' = newCmd
    BY <1>2, AnsweringSteps
  <2>2. Len(taken') > 0 /\ newCmd = taken'[Len(taken')]
    BY <1>2, TakenGrows, Types
  <2> QED
    BY <2>1, <2>2
<1>3. CASE Answer
  BY <1>3, AnsweringSteps
<1>4. CASE Send
  BY <1>4, AnsweringSteps
<1>5. CASE Elsewhere
  BY <1>5 DEF Elsewhere, Answering
<1> QED
  BY <1>1, <1>2, <1>3, <1>4, <1>5, ReplyFrame

\* Every step keeps ResponseInv.
LEMMA ResponseStep ==
  ASSUME IndInv, AnsweringInv, ResponseInv, [Next]_vars
  PROVE  ResponseInv'
<1> USE DEF ResponseInv
<1>1. CASE Front \/ FindEmpty
  <2>1. Handled' = Handled
    BY <1>1, AnsweringSteps DEF Handled, Front, FindEmpty, Goto
  <2> QED
    BY <1>1, <2>1, AnsweringSteps DEF Describes, HadIn, LastIn, LastPlace
<1>2. CASE PopFront
  <2>1. Handled = Len(taken) /\ Handled' = Len(taken)
    BY <1>2, AnsweringSteps, TakenGrows, Types DEF Handled
  <2>2. Describes(m_response, taken', Len(taken))
    BY <1>2, <2>1, TakenGrows, Types, DescribesStays
  <2>3. m_response' = m_response
    BY <1>2, AnsweringSteps
  <2> QED
    BY <2>1, <2>2, <2>3
<1>3. CASE Answer
  <2> DEFINE i == Len(taken) - 1
  <2>1. /\ taken' = taken /\ newCmd' = newCmd /\ newCmd # NULL
        /\ main = "dispatch" /\ main' = "send" /\ Answering
    BY <1>3, AnsweringSteps
  <2>2. Handled = i /\ Handled' = Len(taken)
    BY <2>1 DEF Handled
  <2>3. newCmd = taken[i + 1] /\ i \in Nat /\ i + 1 \in 1..Len(taken) /\ i + 1 = Len(taken)
    BY <2>1, Types DEF AnsweringInv
  <2>4. Describes(m_response, taken, i)
    BY <2>2
  <2> HIDE DEF i
  <2>5. /\ newCmd.method = "quit" => Describes(m_response, taken, i + 1)
        /\ newCmd.method = "status" =>
             Describes([m_response EXCEPT !.id = newCmd.id, !.status = "OK"], taken, i + 1)
        /\ newCmd.method \in {"start", "stop"} =>
             Describes([m_response EXCEPT !.id = newCmd.id, !.success = "TRUE"], taken, i + 1)
        /\ newCmd.method = "other" =>
             Describes([m_response EXCEPT !.id = newCmd.id, !.success = "FALSE"], taken, i + 1)
        /\ newCmd.method = "query" =>
             \A q \in {"default", "random"} :
               Describes([m_response EXCEPT !.id = newCmd.id, !.contact_radius = q],
                         taken, i + 1)
    BY <2>3, <2>4, Types, NextDescribed
  <2>6. Describes(m_response', taken, i + 1)
    <3>1. CASE AnswerQuit
      BY <2>5, <3>1 DEF AnswerQuit, Dispatch, replyVars
    <3>2. CASE AnswerStatus
      BY <2>5, <3>2 DEF AnswerStatus, Dispatch
    <3>3. CASE AnswerStartStop
      BY <2>5, <3>3 DEF AnswerStartStop, Dispatch
    <3>4. CASE AnswerOther
      BY <2>5, <3>4 DEF AnswerOther, Dispatch
    <3>5. CASE AnswerQuery
      BY <2>5, <3>5, Types DEF AnswerQuery, Dispatch
    <3> QED
      BY <1>3, <3>1, <3>2, <3>3, <3>4, <3>5 DEF Answer
  <2> QED
    BY <2>1, <2>2, <2>3, <2>6
<1>4. CASE Send
  <2>1. Handled' = Handled
    BY <1>4, AnsweringSteps DEF Handled
  <2>2. taken' = taken /\ m_response' = m_response
    BY <1>4, AnsweringSteps
  <2> QED
    BY <2>1, <2>2
<1>5. CASE Elsewhere
  <2>1. Handled' = Handled
    BY <1>5 DEF Elsewhere, Handled
  <2>2. taken' = taken /\ m_response' = m_response
    BY <1>5 DEF Elsewhere
  <2> QED
    BY <2>1, <2>2
<1> QED
  BY <1>1, <1>2, <1>3, <1>4, <1>5, ReplyFrame

\* A reply can be made as soon as one of the commands taken was no quit.
LEMMA RepliesFromFirstId ==
  ASSUME IndInv, ResponseInv, main = "send"
  PROVE  m_response.id = Unset <=> Silents = Len(taken)
<1>1. Handled = Len(taken) /\ taken \in Seq(Commands) /\ Len(taken) \in Nat
  BY Types DEF Handled
<1>2. Silents = SilentsOf(taken) /\ Silents \in 0..Len(taken)
  BY <1>1, SilentsFacts, SameOperators
<1>3. HadIn(taken, Len(taken), Identified) <=> Len(taken) > SilentsOf(taken)
  BY <1>1, IdentifiedBehindSilents
<1>4. ASSUME HadIn(taken, Len(taken), Identified)
      PROVE  LastIn(taken, Len(taken), Identified).id # Unset
  <2>1. PICK j \in 1..Len(taken) : LastPlace(taken, Len(taken), Identified, j)
    BY <1>1, <1>4, LastExists
  <2>2. LastIn(taken, Len(taken), Identified) = taken[j]
    BY <1>1, <2>1, LastInIs
  <2>3. taken[j].id \in Int
    BY <1>1, CommandFields
  <2> QED
    BY <2>2, <2>3, UnsetAssumption
<1>5. m_response.id = IF HadIn(taken, Len(taken), Identified)
                      THEN LastIn(taken, Len(taken), Identified).id ELSE Unset
  BY <1>1 DEF ResponseInv, Describes
<1> QED
  BY <1>1, <1>2, <1>3, <1>4, <1>5

\* The reply main sends is the next one due, and describes its commands.
LEMMA ReplySent ==
  ASSUME IndInv, ReplyInv, Send, sent' # sent
  PROVE  /\ Len(sent') = Len(sent) + 1 /\ ~Answering' /\ taken' = taken
         /\ Len(taken) = Silents + (Len(sent) + 1)
         /\ \A n \in 1..Len(sent) : sent'[n] = sent[n]
         /\ sent'[Len(sent) + 1] = [cmd |-> newCmd, reply |-> m_response]
         /\ newCmd = taken[Len(taken)]
         /\ Describes(m_response, taken, Len(taken))
<1>1. /\ main = "send" /\ main' = "loop" /\ Answering /\ taken' = taken /\ newCmd \in Commands
      /\ m_response.id # Unset
      /\ sent' = Append(sent, [cmd |-> newCmd, reply |-> m_response])
  BY AnsweringSteps
<1>2. [cmd |-> newCmd, reply |-> m_response] \in [cmd : Commands, reply : Response]
  BY <1>1, Types
<1>3. /\ Len(sent') = Len(sent) + 1
      /\ \A n \in 1..Len(sent) : sent'[n] = sent[n]
      /\ sent'[Len(sent) + 1] = [cmd |-> newCmd, reply |-> m_response]
  <2> DEFINE r == [cmd |-> newCmd, reply |-> m_response]
             R == [cmd : Commands, reply : Response]
  <2>1. sent \in Seq(R) /\ r \in R /\ sent' = Append(sent, r)
    BY <1>1, <1>2, Types
  <2> HIDE DEF r, R
  <2>2. /\ Len(sent') = Len(sent) + 1 /\ sent'[Len(sent) + 1] = r
        /\ \A n \in 1..Len(sent) : sent'[n] = sent[n]
    BY <2>1, AppendProperties
  <2> QED
    BY <2>2 DEF r
<1>4. Silents \in 0..Len(taken) /\ Len(taken) \in Nat /\ Silents # Len(taken)
  BY <1>1, Types, SilentsFacts, SameOperators, RepliesFromFirstId DEF ReplyInv
<1>5. Len(sent) = IF Len(taken) - 1 > Silents THEN (Len(taken) - 1) - Silents ELSE 0
  BY <1>1 DEF ReplyInv, OneReplyPerCommand
<1>6. Len(taken) = Silents + (Len(sent) + 1)
  BY <1>4, <1>5
<1>7. newCmd = taken[Len(taken)] /\ Describes(m_response, taken, Len(taken))
  BY <1>1 DEF ReplyInv, AnsweringInv, ResponseInv, Handled
<1> QED
  BY <1>1, <1>3, <1>6, <1>7 DEF Answering

\* Every step keeps OneReplyPerCommand.
LEMMA OneReplyStep ==
  ASSUME IndInv, ReplyInv, [Next]_vars
  PROVE  OneReplyPerCommand'
<1> DEFINE a == IF Answering THEN Len(taken) - 1 ELSE Len(taken)
<1>1. /\ Len(sent) = IF a > Silents THEN a - Silents ELSE 0
      /\ \A n \in 1..Len(sent) : sent[n].cmd = taken[Silents + n]
  BY DEF ReplyInv, OneReplyPerCommand
<1>2. SUFFICES /\ Len(sent') = IF a' > Silents' THEN a' - Silents' ELSE 0
               /\ \A n \in 1..Len(sent') : sent'[n].cmd = taken'[Silents' + n]
  BY DEF OneReplyPerCommand
<1>3. Silents \in 0..Len(taken) /\ Len(taken) \in Nat /\ Len(sent) \in Nat
  BY Types, SilentsFacts, SameOperators
<1>4. CASE taken' = taken /\ sent' = sent /\ a' = a
  <2>1. Silents' = Silents
    BY <1>4, SameOperators
  <2> QED
    BY <1>1, <1>4, <2>1
<1>5. CASE Front \/ FindEmpty
  BY <1>4, <1>5, AnsweringSteps
<1>6. CASE PopFront
  <2>1. sent' = sent /\ ~Answering /\ Answering'
    BY <1>6, AnsweringSteps
  <2>2. a = Len(taken) /\ a' = Len(taken)
    BY <1>3, <1>6, <2>1, TakenGrows
  <2>3. Silents' = Silents \/ (Silents = Len(taken) /\ Silents' = Len(taken) + 1)
    BY <1>6, TakenGrows
  <2>4. \A n \in 1..Len(sent) : Silents' = Silents /\ Silents + n \in 1..Len(taken)
    BY <1>1, <1>3, <2>2, <2>3
  <2>5. \A n \in 1..Len(sent) : sent[n].cmd = taken'[Silents' + n]
    BY <1>1, <1>6, <2>4, TakenGrows
  <2> HIDE DEF a
  <2>6. Len(sent) = IF Len(taken) > Silents' THEN Len(taken) - Silents' ELSE 0
    BY <1>1, <1>3, <2>2, <2>3
  <2> QED
    BY <2>1, <2>2, <2>5, <2>6
<1>7. CASE Answer
  BY <1>4, <1>7, AnsweringSteps
<1>8. CASE Send /\ sent' = sent
  <2>1. Answering /\ taken' = taken /\ Silents' = Silents /\ main = "send" /\ newCmd' = newCmd
    BY <1>8, AnsweringSteps, SameOperators
  <2>2. CASE main' = main
    BY <1>4, <1>8, <2>1, <2>2 DEF Answering
  <2>3. CASE main' # main
    <3>1. /\ main' = "loop"
          /\ sent = IF m_response.id = Unset THEN sent
                    ELSE Append(sent, [cmd |-> newCmd, reply |-> m_response])
      BY <1>8, <2>3, AnsweringSteps
    <3>2. m_response.id = Unset
      <4> DEFINE r == [cmd |-> newCmd, reply |-> m_response]
      <4>1. r \in [cmd : Commands, reply : Response]
        BY <1>8, AnsweringSteps, Types
      <4>2. Append(sent, r) # sent
        <5> HIDE DEF r
        <5>1. Len(Append(sent, r)) = Len(sent) + 1
          BY <4>1, Types, AppendProperties
        <5> QED
          BY <1>3, <5>1
      <4> QED
        BY <3>1, <4>2
    <3>3. Silents = Len(taken)
      BY <2>1, <3>2, RepliesFromFirstId DEF ReplyInv
    <3>4. a = Len(taken) - 1 /\ a' = Len(taken)
      BY <2>1, <3>1 DEF Answering
    <3>5. Len(sent) = 0
      BY <1>1, <1>3, <3>3, <3>4
    <3> QED
      BY <1>3, <1>8, <2>1, <3>3, <3>4, <3>5
  <2> QED
    BY <2>2, <2>3
<1>9. CASE Send /\ sent' # sent
  <2>1. /\ Len(sent') = Len(sent) + 1 /\ ~Answering' /\ taken' = taken
        /\ Len(taken) = Silents + (Len(sent) + 1)
        /\ \A n \in 1..Len(sent) : sent'[n] = sent[n]
        /\ sent'[Len(sent) + 1].cmd = taken[Len(taken)]
    BY <1>9, ReplySent
  <2>2. a' = Len(taken) /\ Silents' = Silents
    BY <2>1, SameOperators
  <2>3. \A n \in 1..Len(sent') : n \in 1..Len(sent) \/ n = Len(sent) + 1
    BY <1>3, <2>1
  <2>4. \A n \in 1..Len(sent') : sent'[n].cmd = taken[Silents + n]
    BY <1>1, <2>1, <2>3
  <2> QED
    BY <1>3, <2>1, <2>2, <2>4
<1>10. CASE Elsewhere
  <2>1. a' = a
    BY <1>10 DEF Elsewhere, Answering
  <2> QED
    BY <1>4, <1>10, <2>1 DEF Elsewhere
<1> QED
  BY <1>5, <1>6, <1>7, <1>8, <1>9, <1>10, ReplyFrame

\* Every step keeps SentInv.
LEMMA SentStep ==
  ASSUME IndInv, ReplyInv, [Next]_vars
  PROVE  SentInv'
<1>1. \A n \in 1..Len(sent) : Describes(sent[n].reply, taken, Silents + n)
  BY SameOperators DEF ReplyInv, SentInv
<1>2. SUFFICES \A n \in 1..Len(sent') : Describes(sent'[n].reply, taken', Silents' + n)
  BY SameOperators DEF SentInv
<1>3. Silents \in 0..Len(taken) /\ Len(taken) \in Nat /\ Len(sent) \in Nat
  BY Types, SilentsFacts, SameOperators
<1>4. CASE taken' = taken /\ sent' = sent
  <2>1. Silents' = Silents
    BY <1>4, SameOperators
  <2> QED
    BY <1>1, <1>4, <2>1
<1>5. CASE PopFront
  <2>1. sent' = sent /\ ~Answering
    BY <1>5, AnsweringSteps
  <2>2. Len(sent) = IF Len(taken) > Silents THEN Len(taken) - Silents ELSE 0
    BY <2>1 DEF ReplyInv, OneReplyPerCommand
  <2>3. Silents' = Silents \/ Silents = Len(taken)
    BY <1>5, TakenGrows
  <2>4. ASSUME NEW n \in 1..Len(sent)
        PROVE  Describes(sent[n].reply, taken', Silents' + n)
    <3>1. Silents' = Silents /\ Silents + n \in 1..Len(taken) /\ Silents + n \in Nat
      BY <1>3, <2>2, <2>3
    <3>2. \A j \in 1..(Silents + n) : j \in 1..Len(taken)
      BY <1>3, <3>1
    <3>3. \A j \in 1..(Silents + n) : taken'[j] = taken[j]
      BY <1>5, <3>2, TakenGrows
    <3> QED
      BY <1>1, <3>1, <3>3, DescribesStays
  <2> QED
    BY <2>1, <2>4
<1>6. CASE Send /\ sent' # sent
  <2>1. /\ Len(sent') = Len(sent) + 1 /\ taken' = taken
        /\ Len(taken) = Silents + (Len(sent) + 1)
        /\ \A n \in 1..Len(sent) : sent'[n] = sent[n]
        /\ sent'[Len(sent) + 1].reply = m_response
        /\ Describes(m_response, taken, Len(taken))
    BY <1>6, ReplySent
  <2>2. Silents' = Silents
    BY <2>1, SameOperators
  <2>3. \A n \in 1..Len(sent') : n \in 1..Len(sent) \/ n = Len(sent) + 1
    BY <1>3, <2>1
  <2> QED
    BY <1>1, <2>1, <2>2, <2>3
<1>7. CASE Front \/ FindEmpty \/ Answer \/ (Send /\ sent' = sent)
  BY <1>4, <1>7, AnsweringSteps
<1>8. CASE Elsewhere
  BY <1>4, <1>8 DEF Elsewhere
<1> QED
  BY <1>5, <1>6, <1>7, <1>8, ReplyFrame

\* The initial state: nothing is taken and nothing is set.
LEMMA InitReply ==
  ASSUME Init
  PROVE  ReplyInv
<1>1. /\ taken = <<>> /\ sent = <<>> /\ Len(taken) = 0 /\ Len(sent) = 0
      /\ ~Answering /\ Handled = 0 /\ m_response = NoResponse
  BY DEF Init, Answering, Handled
<1>2. Silents = 0
  BY <1>1, SilentsFacts, SameOperators
<1>3. \A M : ~HadIn(taken, 0, M)
  BY DEF HadIn
<1>4. Describes(m_response, taken, Handled)
  <2>1. Unset # "OK"
    BY UnsetAssumption
  <2> QED
    BY <1>1, <1>3, <2>1 DEF Describes, NoResponse
<1> QED
  BY <1>1, <1>2, <1>4 DEF ReplyInv, AnsweringInv, ResponseInv, OneReplyPerCommand, SentInv

\* The invariant of the replies is one of the specification.
THEOREM ReplyInvariance == Spec => []ReplyInv
<1>1. Init => ReplyInv
  BY InitReply
<1>2. IndInv /\ ReplyInv /\ [Next]_vars => ReplyInv'
  <2> SUFFICES ASSUME IndInv, ReplyInv, [Next]_vars PROVE ReplyInv'
    OBVIOUS
  <2>1. AnsweringInv' /\ ResponseInv'
    BY AnsweringStep, ResponseStep DEF ReplyInv
  <2> QED
    BY <2>1, OneReplyStep, SentStep DEF ReplyInv
<1> QED
  BY <1>1, <1>2, Invariance, PTL DEF Spec

\* Every command taken is answered by exactly one sendData before the next one is
\* taken, in the order taken; only the quits before the first other command get
\* no reply (processCommands, lines 262-345).
THEOREM EveryCommandAnswered == Spec => []OneReplyPerCommand
<1>1. ReplyInv => OneReplyPerCommand
  BY DEF ReplyInv
<1> QED
  BY <1>1, ReplyInvariance, PTL

\* A reply to any command but a quit carries that command's id and its result: the
\* command is the last of every kind it belongs to when m_response is sent (lines
\* 262-343).
THEOREM RepliesCarryResults == Spec => []ReplyCarriesResult
<1>1. ASSUME IndInv, ReplyInv, NEW n \in 1..Len(sent), sent[n].cmd.method # "quit"
      PROVE  LET cmd == sent[n].cmd
                 r == sent[n].reply
             IN  /\ r.id = cmd.id
                 /\ cmd.method = "status" => r.status = "OK"
                 /\ cmd.method \in {"start", "stop"} => r.success = "TRUE"
                 /\ cmd.method = "other" => r.success = "FALSE"
                 /\ cmd.method = "query" => r.contact_radius # Unset
  <2>1. /\ Silents \in 0..Len(taken) /\ Len(taken) \in Nat /\ Len(sent) \in Nat
        /\ taken \in Seq(Commands)
    BY <1>1, Types, SilentsFacts, SameOperators
  <2>2. \/ Len(sent) = Len(taken) - Silents \/ Len(sent) = (Len(taken) - 1) - Silents
        \/ Len(sent) = 0
    BY <1>1 DEF ReplyInv, OneReplyPerCommand
  <2>3. PICK i : i = Silents + n /\ i \in 1..Len(taken) /\ i - 1 \in Nat /\ i = (i - 1) + 1
    BY <2>1, <2>2
  <2>4. sent[n].cmd = taken[i] /\ taken[i].method \in Identified
    <3>1. sent[n].cmd = taken[i]
      BY <1>1, <2>3 DEF ReplyInv, OneReplyPerCommand
    <3>2. taken[i].method \in Methods
      BY <2>1, <2>3, CommandFields
    <3> QED
      BY <1>1, <3>1, <3>2 DEF Identified
  <2>5. Describes(sent[n].reply, taken, i)
    BY <1>1, <2>3, SameOperators DEF ReplyInv, SentInv
  <2>6. \A M : taken[i].method \in M => HadIn(taken, i, M) /\ LastIn(taken, i, M) = taken[i]
    <3>1. PICK k \in Nat : i = k + 1
      BY <2>3
    <3>2. \A M : taken[k + 1].method \in M =>
            HadIn(taken, k + 1, M) /\ LastIn(taken, k + 1, M) = taken[k + 1]
      BY LastOfNext
    <3> QED
      BY <3>1, <3>2
  <2>7. sent[n].reply.id = taken[i].id
    BY <2>4, <2>5, <2>6 DEF Describes
  <2>8. taken[i].method \in Judged =>
          sent[n].reply.success = IF taken[i].method = "other" THEN "FALSE" ELSE "TRUE"
    BY <2>5, <2>6 DEF Describes
  <2>9. /\ taken[i].method = "status" => sent[n].reply.status = "OK"
        /\ taken[i].method = "query" => sent[n].reply.contact_radius # Unset
    BY <2>5, <2>6 DEF Describes
  <2> QED
    BY <2>4, <2>7, <2>8, <2>9 DEF Judged
<1>2. IndInv /\ ReplyInv => ReplyCarriesResult
  BY <1>1 DEF ReplyCarriesResult
<1> QED
  BY <1>2, Invariance, ReplyInvariance, PTL
===============================================================================
