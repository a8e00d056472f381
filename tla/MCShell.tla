------------------------------ MODULE MCShell -------------------------------
(* Shell with a command that prints lines and fails, and one that succeeds *)
(* but does not finish its last line.                                      *)
EXTENDS Shell

MCOut  == [x \in Command |-> IF x = "diff" THEN <<"p", NL, "q", NL>> ELSE <<"p", NL, "q">>]
MCCode == [x \in Command |-> IF x = "diff" THEN "1" ELSE "0"]

\* A worker with a connection of its own, and one that shares its connection
\* with a nested worker.
MCConnOf == [u \in User |-> IF u = "w1" THEN "c1" ELSE "c2"]
=============================================================================
