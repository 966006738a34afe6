---------------------------- MODULE MCClientSocket ----------------------------
(***************************************************************************)
(* A small instance of ClientSocket for TLC.                               *)
(***************************************************************************)
EXTENDS ClientSocket

CONSTANTS x, y, LF, CR

\* Two bytes of a line and the two line ends.
SomeBytes == {x, y, LF, CR}
===============================================================================
