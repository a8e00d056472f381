-------------------------------- MODULE Shell --------------------------------
(***************************************************************************)
(* Shell (shell.rb) and sh (system.rb): the connections of the workers.  A *)
(* connection is a shell process that is sent commands on a pipe.  After   *)
(* each command the shell is told to print the terminator and the status   *)
(* of the command, and output is read up to the line that starts with it.  *)
(* A connection is closed when its worker ends (Operator#initialize) and   *)
(* by the END block when the process exits, while workers may still run.   *)
(*                                                                         *)
(* at[v] is where thread v is:                                             *)
(*   "idle"      a user between commands; it holds no lock                 *)
(*   "echo"      the command is written, the echo is not                   *)
(*   "read"      reading what the shell prints                             *)
(*   "answered"  the terminator was read     "eof"    gets returned nil    *)
(*   "result"    the lock is released, @status is still to be read; or     *)
(*   "stale"     the same after "eof"                                      *)
(*   "failed"    an exception; a user goes on to the ensure that closes    *)
(*   "enter"     main, in the END block, about to close the connection     *)
(*   "close"     in @io.close, waiting for the process to end              *)
(*   "gone"      a user whose thread is over                               *)
(*   "run" "end" "done"  main, before, in and after the END block          *)
(***************************************************************************)
EXTENDS Naturals, Sequences, SequencesExt

CONSTANTS Conn, User, Main, NoThread,
          ConnOf,     \* the connection of each user
          Command,
          Word,       \* what is printed is made of
          Out, Code,  \* what a command prints and its status
          Mortal,     \* the connections that may be lost
          MaxCalls    \* how many commands a user runs

Thread == User \cup {Main}
NL     == "newline"
Term   == "terminator"

ASSUME ShellAssumption ==
  /\ Main \notin User /\ NoThread \notin Thread
  /\ ConnOf \in [User -> Conn]
  /\ Mortal \subseteq Conn
  /\ Command # {} /\ {"echo", "exit"} \cap Command = {}
  /\ {Term, NL, "0", "nil"} \subseteq Word
  /\ Out \in [Command -> Seq(Word \ {Term})]
  /\ Code \in [Command -> Word \ {NL}]

VARIABLES io,        \* @io: "new", "open" or "closed"
          status,    \* @status
          lock,      \* @lock
          openList,  \* OPEN_LIST
          process,   \* the shell: is it "up" or "down"?
          input,     \* written to the shell and not yet read by it
          output,    \* printed by the shell and not yet read
          last,      \* $? in the shell
          at, cmd, calls,
          text,      \* the local a of _get_output
          target     \* the connection the END block is at, and those it
                     \* has been at

cvars == <<io, status, lock, openList>>
pvars == <<process, input, output, last>>
uvars == <<at, cmd, calls, text, target>>
svars == <<cvars, pvars, uvars>>

ShellInit ==
  /\ io = [c \in Conn |-> "new"]
  /\ status = [c \in Conn |-> "nil"]
  /\ lock = [c \in Conn |-> NoThread]
  /\ openList = {}
  /\ process = [c \in Conn |-> "down"]
  /\ input = [c \in Conn |-> <<>>]
  /\ output = [c \in Conn |-> <<>>]
  /\ last = [c \in Conn |-> "0"]
  /\ at = [v \in Thread |-> IF v = Main THEN "run" ELSE "idle"]
  /\ cmd = [u \in User |-> CHOOSE x \in Command : TRUE]
  /\ calls = [u \in User |-> 0]
  /\ text = [u \in User |-> <<>>]
  /\ target = <<>>

Goto(v, p) == at' = [at EXCEPT ![v] = p]

-----------------------------------------------------------------------------
(* The process of a connection: sh, on this host or behind ssh.             *)

Emit(c, s) == output' = [output EXCEPT ![c] = @ \o s]

Run(c) ==
  /\ process[c] = "up"
  /\ input[c] # <<>>
  /\ input' = [input EXCEPT ![c] = Tail(@)]
  /\ CASE Head(input[c]) = "echo" ->
            Emit(c, <<Term, last[c], NL>>) /\ UNCHANGED <<last, process>>
       [] Head(input[c]) = "exit" ->
            process' = [process EXCEPT ![c] = "down"] /\ UNCHANGED <<output, last>>
       [] OTHER ->
            /\ Emit(c, Out[Head(input[c])])
            /\ last' = [last EXCEPT ![c] = Code[Head(input[c])]]
            /\ UNCHANGED process
  /\ UNCHANGED <<cvars, uvars>>

\* The connection is lost, or a command ends the shell.
Lose(c) ==
  /\ c \in Mortal
  /\ process[c] = "up"
  /\ process' = [process EXCEPT ![c] = "down"]
  /\ UNCHANGED <<input, output, last, cvars, uvars>>

\* What gets waits for: a line, or the end of the file.
Lines(c) == {i \in 1..Len(output[c]) : output[c][i] = NL}
Readable(c) == Lines(c) # {} \/ process[c] = "down"

EndOfLine(c) ==
  IF Lines(c) = {} THEN Len(output[c])
  ELSE CHOOSE i \in Lines(c) : \A j \in Lines(c) : i <= j

\* The next line.  Its newline, which chomp! drops from what _get_output
\* returns, is kept here.
Line(c) == SubSeq(output[c], 1, EndOfLine(c))

-----------------------------------------------------------------------------
(* initialize and open, as one step: nobody else has the connection yet.    *)
(* The cd that connect_list runs next is a call like those below.           *)

Open(c) ==
  /\ io[c] = "new"
  /\ io' = [io EXCEPT ![c] = "open"]
  /\ openList' = openList \cup {c}
  /\ \/ /\ process' = [process EXCEPT ![c] = "up"]
        /\ status' = [status EXCEPT ![c] = "0"]
     \/ c \in Mortal /\ UNCHANGED <<process, status>>
  /\ UNCHANGED <<lock, input, output, last, uvars>>

\* connect_list has returned.
Connected == \A c \in Conn : io[c] # "new"

-----------------------------------------------------------------------------
(* system and backquote                                                     *)

Send(c, x) == input' = [input EXCEPT ![c] = Append(@, x)]

Writable(c) == io[c] = "open" /\ process[c] = "up"

\* The command is written.  Without the test of the lock it is the mutant of
\* Begin.
Write(u, x) ==
  LET c == ConnOf[u] IN
  /\ Connected
  /\ at[u] = "idle" /\ calls[u] < MaxCalls
  /\ Writable(c)
  /\ Send(c, x)
  /\ lock' = [lock EXCEPT ![c] = u]
  /\ cmd' = [cmd EXCEPT ![u] = x]
  /\ calls' = [calls EXCEPT ![u] = @ + 1]
  /\ text' = [text EXCEPT ![u] = <<>>]
  /\ Goto(u, "echo")
  /\ UNCHANGED <<io, status, openList, process, output, last, target>>

Begin(u, x) == lock[ConnOf[u]] = NoThread /\ Write(u, x)

\* The stream is closed, or the pipe is broken: puts raises an exception.
Refused(u) ==
  LET c == ConnOf[u] IN
  /\ Connected
  /\ ~Writable(c)
  /\ \/ at[u] = "idle" /\ calls[u] < MaxCalls /\ lock[c] = NoThread /\ UNCHANGED lock
     \/ at[u] = "echo" /\ lock' = [lock EXCEPT ![c] = NoThread]
  /\ Goto(u, "failed")
  /\ UNCHANGED <<io, status, openList, pvars, cmd, calls, text, target>>

Echo(u) ==
  /\ at[u] = "echo"
  /\ Writable(ConnOf[u])
  /\ Send(ConnOf[u], "echo")
  /\ Goto(u, "read")
  /\ UNCHANGED <<cvars, process, output, last, cmd, calls, text, target>>

\* One turn of the loop of _get or _get_output; after a line that starts with
\* the terminator @status is st and the thread is at p.
Turn(u, st, p) ==
  LET c == ConnOf[u] IN
  /\ at[u] = "read"
  /\ Readable(c)
  /\ output' = [output EXCEPT ![c] = SubSeq(@, EndOfLine(c) + 1, Len(@))]
  /\ CASE output[c] = <<>> ->
            Goto(u, "eof") /\ UNCHANGED <<status, text>>
       [] output[c] # <<>> /\ Head(output[c]) = Term ->
            status' = [status EXCEPT ![c] = st] /\ Goto(u, p) /\ UNCHANGED text
       [] OTHER ->
            text' = [text EXCEPT ![u] = @ \o Line(c)] /\ UNCHANGED <<status, at>>
  /\ UNCHANGED <<io, lock, openList, process, input, last, cmd, calls, target>>

Read(u) == Turn(u, output[ConnOf[u]][2], "answered")

\* Mutant of Unlock: the lock is kept.
UnlockNot(u) ==
  /\ at[u] \in {"answered", "eof"}
  /\ Goto(u, IF at[u] = "answered" THEN "result" ELSE "stale")
  /\ UNCHANGED <<cvars, pvars, cmd, calls, text, target>>

Unlock(u) ==
  /\ at[u] \in {"answered", "eof"}
  /\ lock' = [lock EXCEPT ![ConnOf[u]] = NoThread]
  /\ Goto(u, IF at[u] = "answered" THEN "result" ELSE "stale")
  /\ UNCHANGED <<io, status, openList, pvars, cmd, calls, text, target>>

\* @status==0, and sh: the block it is given, or the default one, may raise.
Result(u) ==
  /\ at[u] \in {"result", "stale"}
  /\ \/ Goto(u, "idle")
     \/ status[ConnOf[u]] # "0" /\ Goto(u, "failed")
  /\ UNCHANGED <<cvars, pvars, cmd, calls, text, target>>

-----------------------------------------------------------------------------
(* close, by a user that ends or by main in the END block                   *)

On(v) == IF v = Main THEN Last(target) ELSE ConnOf[v]

Closing(v) == at[v] \in (IF v = Main THEN {"enter"} ELSE {"idle", "failed"})

Closed(v) == Goto(v, IF v = Main THEN "end" ELSE "gone")

\* exit is written; OPEN_LIST is then list.
WriteExit(v, list) ==
  /\ Connected
  /\ Closing(v)
  /\ Writable(On(v))
  /\ Send(On(v), "exit")
  /\ lock' = [lock EXCEPT ![On(v)] = v]
  /\ openList' = list
  /\ Goto(v, "close")
  /\ UNCHANGED <<io, status, process, output, last, cmd, calls, text, target>>

\* Mutants of CloseExit: no @lock.synchronize; OPEN_LIST.delete comes first.
CloseExitUnlocked(v) == WriteExit(v, openList)
CloseExitDelete(v) ==
  Closing(v) /\ lock[On(v)] = NoThread /\ WriteExit(v, openList \ {On(v)})

CloseExit(v) ==
  Closing(v) /\ lock[On(v)] = NoThread /\ WriteExit(v, openList)

CloseWait(v) ==
  /\ at[v] = "close"
  /\ process[On(v)] = "down"
  /\ io' = [io EXCEPT ![On(v)] = "closed"]
  /\ openList' = openList \ {On(v)}
  /\ lock' = [lock EXCEPT ![On(v)] = NoThread]
  /\ Closed(v)
  /\ UNCHANGED <<status, pvars, cmd, calls, text, target>>

\* It is closed already; or the pipe is broken, and puts raises an exception,
\* which ends the thread or the END block.
CloseLate(v) ==
  /\ Connected
  /\ Closing(v)
  /\ lock[On(v)] = NoThread
  /\ \/ /\ io[On(v)] = "closed"
        /\ openList' = openList \ {On(v)}
        /\ Closed(v)
     \/ /\ io[On(v)] = "open" /\ process[On(v)] = "down"
        /\ Goto(v, IF v = Main THEN "failed" ELSE "gone")
        /\ UNCHANGED openList
  /\ UNCHANGED <<io, status, lock, pvars, cmd, calls, text, target>>

Close(v) == CloseExit(v) \/ CloseWait(v) \/ CloseLate(v)

-----------------------------------------------------------------------------
(* The END block                                                            *)

Exit ==
  /\ Connected
  /\ at[Main] = "run"
  /\ Goto(Main, "end")
  /\ UNCHANGED <<cvars, pvars, cmd, calls, text, target>>

\* OPEN_LIST.map: entries deleted meanwhile are passed over.
EndEach ==
  /\ at[Main] = "end"
  /\ IF openList \subseteq ToSet(target)
       THEN Goto(Main, "done") /\ UNCHANGED target
       ELSE /\ \E c \in openList \ ToSet(target) : target' = Append(target, c)
            /\ Goto(Main, "enter")
  /\ UNCHANGED <<cvars, pvars, cmd, calls, text>>

-----------------------------------------------------------------------------
Over == at[Main] \in {"done", "failed"}

UserNext(u) ==
  \/ (\E x \in Command : Begin(u, x)) \/ Refused(u) \/ Echo(u) \/ Read(u)
  \/ Unlock(u) \/ Result(u) \/ Close(u)

ProcessNext(c) == Run(c) \/ Lose(c)

EndNext == EndEach \/ Close(Main)

ShellNext ==
  /\ ~Over
  /\ \/ \E c \in Conn : Open(c) \/ ProcessNext(c)
     \/ \E u \in User : UserNext(u)
     \/ Exit \/ EndNext

ShellSpec ==
  /\ ShellInit /\ [][ShellNext]_svars
  /\ \A c \in Conn : WF_svars(~Over /\ Run(c))
  /\ \A u \in User : WF_svars(~Over /\ UserNext(u))
  /\ WF_svars(~Over /\ EndNext)

-----------------------------------------------------------------------------
(* Properties.                                                              *)

\* The output of a command does not run into the terminator.
Finished(x) == Out[x] = <<>> \/ Last(Out[x]) = NL

\* u shares its connection with no other user.
Sole(u) == \A v \in User : ConnOf[v] = ConnOf[u] => v = u

\* A call that waits for a terminator which will never start a line.
Stuck == \E u \in User : at[u] = "read" /\ ~Finished(cmd[u])

(* However threads share a connection, a call that reads its terminator has *)
(* read the output of its own command, all of it and nothing else.  And     *)
(* @status, which system reads after it has released @lock, and sh again    *)
(* after that, is still that of its command as long as no two threads run   *)
(* commands on one connection, whoever closes it meanwhile.                 *)
OwnAnswer ==
  \A u \in User :
    /\ at[u] = "answered" => Finished(cmd[u]) /\ text[u] = Out[cmd[u]]
    /\ at[u] = "result" /\ Sole(u) => status[ConnOf[u]] = Code[cmd[u]]

(* A close by the END block, or by another thread's ensure, never comes     *)
(* between a command and its answer: such a call only fails if the          *)
(* connection was lost.                                                     *)
NotCutShort ==
  \A u \in User : at[u] \in {"echo", "read"} /\ ConnOf[u] \notin Mortal =>
     process[ConnOf[u]] = "up" /\ io[ConnOf[u]] = "open"

(* When the END block is done, every connection is closed, those included   *)
(* that workers were closing at the same time.                              *)
EndCloses == at[Main] = "done" => \A c \in Conn : io[c] = "closed"

(* A call comes to its end, if its command finishes its last line.          *)
CallEnds ==
  \A u \in User : at[u] = "read" /\ Finished(cmd[u]) ~> at[u] # "read" \/ Over

(* The END block comes to its end, although a worker may hold the lock of a *)
(* connection or wait for it; unless a call never ends.                     *)
ExitEnds == at[Main] = "end" ~> Over \/ Stuck

(* Calls and the END block come to their end, whatever locks they wait for   *)
(* and whoever closes the connection meanwhile.                             *)
ShellEnds == CallEnds /\ ExitEnds
=============================================================================
