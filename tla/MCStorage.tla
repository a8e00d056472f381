------------------------------ MODULE MCStorage ------------------------------
(* A client and its file system nodes: the search of a node, the calls of   *)
(* procedures on it, the commands that it runs and the files it opens, each *)
(* by itself: unit says which of them moves.                                *)
EXTENDS SearchIdle, Xdr, RemoteCommand, NodeCall

(***************************************************************************)
(* SearchIdle: searches of nodes to read from or to write to, among five  *)
(* hosts of three networks: one of the local network and two each of the   *)
(* others, one with two processors, two that are too far.  Two requests    *)
(* may be on their way at once, and a third after a failed connection has  *)
(* been counted twice.                                                     *)
(***************************************************************************)
MCOrder == <<"l1", "a1", "a2", "b1", "b2">>
MCNetOf == [h \in Range(MCOrder) |-> CASE h = "l1" -> "l" [] h \in {"b1", "b2"} -> "b" [] OTHER -> "a"]
MCNcpu  == [h \in Range(MCOrder) |-> IF h = "a1" THEN 2 ELSE 1]
MCNets  == <<"a", "b", "l">>
MCRttOf == [h \in Range(MCOrder) |-> IF h \in {"b1", "b2"} THEN 4 ELSE 1]

\* The second ones are always busy.
MCLoads == [h \in Range(MCOrder) |-> IF h \in {"a2", "b2"} THEN {2} ELSE {0, 2}]

\* Two searches, the local host down during the first and up during the second,
\* and one among four others.
MCPlans == {<<{"a1", "b1"}, {"l1", "a1"}>>, <<{"a1", "a2", "b1", "b2"}>>}

\* Between the searches the cache stays or expires as a whole.
MCOlds == {{}, Range(MCOrder)}

\* The metadata server knows nothing of the hosts, or that one is busy and has space.
MCInfos == {[h \in Range(MCOrder) |-> <<>>],
            [h \in Range(MCOrder) |-> IF h = "a1" THEN <<2, 1>> ELSE <<>>]}

(***************************************************************************)
(* Xdr: a call whose answer is followed by a descriptor, one that reads    *)
(* into a buffer that may be too small, and one that sends a string.       *)
(***************************************************************************)
Format(f) == [f |-> f, sz |-> IF f = "b" THEN 1 ELSE 0]

MCProcedures ==
  <<[ins |-> <<Format("i")>>, outs |-> <<>>,            just |-> TRUE,  fd |-> TRUE],
    [ins |-> <<Format("c")>>, outs |-> <<Format("b")>>, just |-> FALSE, fd |-> FALSE],
    [ins |-> <<Format("s")>>, outs |-> <<Format("c")>>, just |-> FALSE, fd |-> FALSE]>>

MCItemValue == [f \in {"c", "i", "s", "b"} |->
                  CASE f = "c" -> {1} [] f = "i" -> {2}
                    [] f = "s" -> {<<>>, <<1, 0, 1>>} [] f = "b" -> {<<0>>, <<1, 0>>}]

MCScripts == {<< <<1>>, <<3>> >>, << <<3, 2>>, <<1>> >>, << <<2>>, <<2>> >>}

(***************************************************************************)
(* RemoteCommand: a command that reads its input to the end, and one that  *)
(* writes more than fits into a buffer, to both outputs, and closes one.   *)
(***************************************************************************)
Piece(fd, bytes) == [fd |-> fd, bytes |-> bytes]

MCCommands ==
  {[input |-> <<1, 2, 3>>, output |-> <<Piece(1, <<1>>)>>, awaits |-> TRUE],
   [input |-> <<>>, awaits |-> FALSE,
    output |-> <<Piece(1, <<1, 2>>), Piece(2, <<3>>), Piece(1, <<4>>), Piece(1, <<>>)>>]}

(***************************************************************************)
(* One of them                                                             *)
(***************************************************************************)
VARIABLE unit

allvars == <<unit, searchvars, xdrvars, cmdvars, ncvars>>

\* The others are in one of their initial states.
Init ==
  /\ unit \in {"search", "call", "command", "node"}
  /\ SearchInit /\ (unit # "search" => si.mode = "auth" /\ Len(plan) = 1)
  /\ XdrInit /\ (unit # "call" => cl.script = << <<2>>, <<2>> >>)
  /\ CommandInit /\ (unit # "command" => desc.input = <<>>)
  /\ NodeCallInit

Alone(u, A, others) == unit = u /\ A /\ UNCHANGED <<unit, others>>

Next == \/ Alone("search",  SearchNext,  <<xdrvars, cmdvars, ncvars>>)
        \/ Alone("call",    XdrNext,     <<searchvars, cmdvars, ncvars>>)
        \/ Alone("command", CommandNext, <<searchvars, xdrvars, ncvars>>)
        \/ Alone("node",    NodeCallNext, <<searchvars, xdrvars, cmdvars>>)

\* The fairness of each: of the client, and of the server that answers it.
ClientStep == \/ Alone("search",  SearchStep,    <<xdrvars, cmdvars, ncvars>>)
              \/ Alone("call",    XdrClient,     <<searchvars, cmdvars, ncvars>>)
              \/ Alone("command", CommandClient, <<searchvars, xdrvars, ncvars>>)
              \/ Alone("node",    CallStep,      <<searchvars, xdrvars, cmdvars>>)

ServerStep == \/ Alone("search",  SearchEvent, <<xdrvars, cmdvars, ncvars>>)
              \/ Alone("call",    XdrServer,   <<searchvars, cmdvars, ncvars>>)
              \/ Alone("command", GfsdServes,  <<searchvars, xdrvars, ncvars>>)

CommandStep == Alone("command", GfsdCommand, <<searchvars, xdrvars, ncvars>>)

Spec == /\ Init /\ [][Next]_allvars
        /\ WF_allvars(ClientStep) /\ WF_allvars(ServerStep) /\ WF_allvars(CommandStep)

Waiting == \/ si.pc # "idle"
           \/ unit = "call" /\ ~RpcEnded
           \/ unit = "command" /\ ~CommandEnded
           \/ nc.pc \notin {"idle", "opened"}

\* Whatever the client waits for comes, or fails: a search that began, every call
\* of a script (also one that reads the socket past the buffer: "we have to set
\* `just' flag here"), a call of a file with all its retries, and a command: neither
\* full buffers, a slow reader, a lost gfsd nor the end of the input leave the two
\* sides waiting for each other, and no node is tried for ever.  It says nothing of
\* two commands that CommandEnded excepts: one that waits for input while a signal
\* is pending, and one that exited while a piece of its input was announced.
EveryWaitEnds == Waiting ~> ~Waiting
=============================================================================
