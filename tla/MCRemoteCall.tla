----------------------------- MODULE MCRemoteCall -----------------------------
(***************************************************************************)
(* A small instance of RemoteCall for TLC.                                 *)
(***************************************************************************)
EXTENDS RemoteCall

\* An ordinary id; ids of one and two bytes with that of a newline; one that is a
\* zero byte.
Ids == {1, 10, 1290, 0}

\* Three commands, with the last of each kind or a quit in the middle; and a quit first.
SomeScripts ==
  { << [id |-> i, method |-> STATUS], [id |-> j, method |-> m[1]],
       [id |-> k, method |-> m[2]] >> :
    i \in Ids, j \in Ids, k \in {2, 10},
    m \in {<<START, QUIT>>, <<START, QUERY>>, <<START, UNKNOWN>>, <<QUIT, START>>} }
  \cup
  { << [id |-> i, method |-> QUIT], [id |-> 2, method |-> STATUS] >> : i \in Ids }

BothEols == {<<>>, <<NL>>}
===============================================================================
