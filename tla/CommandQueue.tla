----------------------------- MODULE CommandQueue -----------------------------
(***************************************************************************)
(* What the command FIFO promises to the two threads that share it: every  *)
(* command the receive thread hands over is taken by the main thread       *)
(* exactly once, in the order of the hand-over, and the main thread is     *)
(* told "nothing there" only when it has really taken everything.          *)
(* CommandProcessor implements this with a deque and a mutex.              *)
(***************************************************************************)
EXTENDS Naturals, Sequences

CONSTANTS
  Command,    \* the commands that may be handed over
  NULL        \* what the main thread holds when it holds no command

VARIABLES
  accepted,   \* every command handed over so far, oldest first
  taken,      \* every command taken so far, oldest first
  newCmd      \* the outcome of the main thread's last attempt to take one

vars == <<accepted, taken, newCmd>>

TypeOK ==
  /\ accepted \in Seq(Command)
  /\ taken \in Seq(Command)
  /\ newCmd \in Command \cup {NULL}

Init ==
  /\ accepted = <<>>
  /\ taken = <<>>
  /\ newCmd = NULL

\* The receive thread hands over c.
Accept(c) ==
  /\ accepted' = Append(accepted, c)
  /\ UNCHANGED <<taken, newCmd>>

\* The main thread looks at the oldest command that has not been taken...
Peek ==
  /\ Len(taken) < Len(accepted)
  /\ newCmd' = accepted[Len(taken) + 1]
  /\ UNCHANGED <<accepted, taken>>

\* ... and takes it.
Take ==
  /\ Len(taken) < Len(accepted)
  /\ newCmd = accepted[Len(taken) + 1]
  /\ taken' = Append(taken, newCmd)
  /\ UNCHANGED <<accepted, newCmd>>

\* The main thread finds nothing, which is true.
Miss ==
  /\ taken = accepted
  /\ newCmd' = NULL
  /\ UNCHANGED <<accepted, taken>>

Next ==
  \/ \E c \in Command : Accept(c)
  \/ Peek
  \/ Take
  \/ Miss

Spec == Init /\ [][Next]_vars
===============================================================================
