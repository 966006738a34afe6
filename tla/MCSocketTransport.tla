--------------------------- MODULE MCSocketTransport ---------------------------
(***************************************************************************)
(* Small instances of SocketTransport for TLC.                             *)
(***************************************************************************)
EXTENDS SocketTransport

CONSTANTS c1, c2, x

SomeBytes == {x, NL, NUL}

\* A line and the beginning of another; a line that begins with a NUL.
SomeScripts == {<<x, NL, x>>, <<NUL, NL>>}

\* The shortest script with a line.
LineScripts == {<<NL>>, <<x>>}
===============================================================================
