-------------------------- MODULE MCCommandProcessor --------------------------
(***************************************************************************)
(* A small instance of CommandProcessor for TLC.                           *)
(***************************************************************************)
EXTENDS CommandProcessor

Cmd(i, m) == [id |-> i, method |-> m]

\* One command of each kind; a stop is answered as a start is.
OneOfEach == {Cmd(0, "quit"), Cmd(1, "status"), Cmd(2, "start"),
              Cmd(3, "query"), Cmd(4, "other")}

BothOutcomes == {"abort", "continue"}
AllJoins == {"dies", "returns", "hangs"}
===============================================================================
