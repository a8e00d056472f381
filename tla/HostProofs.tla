----------------------------- MODULE HostProofs ------------------------------
(***************************************************************************)
(* Theorems about what is done on, and known of, the hosts:                *)
(*   - Shell: for any number of threads and connections, however they are  *)
(*     shared, any commands, any connections that are lost at any time,    *)
(*     and an END block that begins at any time;                           *)
(*   - HostList: for any host file;                                        *)
(*   - Gfwhere: for any batch, any paths and any limit of a command.       *)
(***************************************************************************)
EXTENDS Shell, HostList, Gfwhere, SequenceTheorems, WellFoundedInduction, FiniteSetTheorems, TLAPS

-----------------------------------------------------------------------------
(* Shell: the inductive invariant.                                          *)

UserPlace == {"idle", "echo", "read", "answered", "eof", "result", "stale",
              "failed", "close", "gone"}
MainPlace == {"run", "end", "enter", "close", "done", "failed"}

ShellTypeOK ==
  /\ io \in [Conn -> {"new", "open", "closed"}]
  /\ status \in [Conn -> Word]
  /\ lock \in [Conn -> Thread \cup {NoThread}]
  /\ openList \subseteq Conn
  /\ process \in [Conn -> {"up", "down"}]
  /\ input \in [Conn -> Seq(Command \cup {"echo", "exit"})]
  /\ output \in [Conn -> Seq(Word)]
  /\ last \in [Conn -> Word]
  /\ at \in [Thread -> UserPlace \cup MainPlace]
  /\ at[Main] \in MainPlace
  /\ \A u \in User : at[u] \in UserPlace
  /\ cmd \in [User -> Command]
  /\ calls \in [User -> Nat]
  /\ text \in [User -> Seq(Word)]
  /\ target \in Seq(Conn)

\* The places where a thread holds the lock of its connection.
Holding == {"echo", "read", "answered", "eof", "close"}

Locks ==
  /\ \A v \in Thread : at[v] \in Holding => lock[On(v)] = v
  /\ \A c \in Conn : lock[c] # NoThread => at[lock[c]] \in Holding /\ On(lock[c]) = c

LineEnd(s) == s = <<>> \/ Last(s) = NL
AnswerOf(x)  == <<Term, Code[x], NL>>

\* What is on its way to the shell of c, and back, when command x is written
\* and the echo is not.
BeforeEcho(c, x) ==
  \/ input[c] = <<x>> /\ output[c] = <<>>
  \/ input[c] = <<>> /\ output[c] = Out[x] /\ last[c] = Code[x]

\* The same when both are written and t was read: the shell has run neither, the
\* command, or both; or the terminator was read as a part of the last line.
BeforeAnswer(c, x, t) ==
  \/ input[c] = <<x, "echo">> /\ output[c] = <<>> /\ t = <<>>
  \/ /\ input[c] = <<"echo">> /\ last[c] = Code[x]
     /\ t \o output[c] = Out[x]
     /\ LineEnd(t) \/ process[c] = "down"
  \/ /\ input[c] = <<>> /\ LineEnd(t)
     /\ \E rest \in Seq(Word) : /\ t \o rest = Out[x]
                                  /\ output[c] = rest \o AnswerOf(x)
  \/ input[c] = <<>> /\ output[c] = <<>>

Talk(u) ==
  /\ at[u] = "echo" => text[u] = <<>> /\ BeforeEcho(ConnOf[u], cmd[u])
  /\ at[u] = "read" => BeforeAnswer(ConnOf[u], cmd[u], text[u])
  /\ at[u] = "answered" =>
       /\ input[ConnOf[u]] = <<>> /\ output[ConnOf[u]] = <<>>
       /\ text[u] = Out[cmd[u]] /\ Finished(cmd[u])
       /\ status[ConnOf[u]] = Code[cmd[u]]
  /\ at[u] = "eof" => process[ConnOf[u]] = "down"

\* The connection c, in the hands of nobody or of a thread that closes it.
Rests(c) ==
  /\ io[c] = "new" => process[c] = "down" /\ input[c] = <<>> /\ output[c] = <<>>
  /\ io[c] = "closed" => process[c] = "down"
  /\ io[c] = "open" => c \in openList
  /\ lock[c] # NoThread => io[c] = "open"
  /\ lock[c] = NoThread /\ process[c] = "up" => input[c] = <<>> /\ output[c] = <<>>
  /\ lock[c] = NoThread /\ process[c] = "down" /\ io[c] = "open" => c \in Mortal
  /\ lock[c] # NoThread /\ at[lock[c]] = "close" /\ process[c] = "up" =>
       input[c] = <<"exit">>
  /\ lock[c] # NoThread /\ at[lock[c]] # "close" /\ process[c] = "down" => c \in Mortal

\* The connections the END block has been at are closed.
Ends ==
  /\ at[Main] = "run" => target = <<>>
  /\ at[Main] \in {"enter", "close"} => target # <<>>
  /\ at[Main] \in {"end", "done"} =>
       \A i \in 1..Len(target) : io[target[i]] = "closed"
  /\ at[Main] \in {"enter", "close"} =>
       \A i \in 1..(Len(target) - 1) : io[target[i]] = "closed"
  /\ at[Main] = "done" => openList \subseteq ToSet(target)

\* Threads run only when all connections are open.
Started == \A v \in Thread : at[v] \notin {"idle", "run"} => Connected

Results ==
  \A u \in User : at[u] = "result" /\ Sole(u) => status[ConnOf[u]] = Code[cmd[u]]

ShellInv ==
  /\ ShellTypeOK /\ Locks
  /\ \A u \in User : Talk(u)
  /\ \A c \in Conn : Rests(c)
  /\ Ends /\ Started /\ Results

-----------------------------------------------------------------------------
(* What a step leaves alone.                                                *)

\* A thread that is at a connection is at one of them.
LEMMA OnConn ==
  ASSUME ShellInv, NEW v \in Thread,
         v \in User \/ at[v] \in {"enter", "close"}
  PROVE  On(v) \in Conn /\ (v \in User => On(v) = ConnOf[v])
         /\ (v = Main => On(v) = target[Len(target)] /\ Len(target) \in 1..Len(target))
<1> USE ShellAssumption DEF Thread
<1>1. CASE v \in User
  BY <1>1 DEF On
<1>2. CASE v = Main
  <2>1. target \in Seq(Conn) /\ target # <<>>
    BY <1>2 DEF ShellInv, ShellTypeOK, Ends
  <2>2. On(v) = target[Len(target)]
    BY <1>2 DEF On, Last
  <2> QED
    BY <1>2, <2>1, <2>2
<1> QED
  BY <1>1, <1>2

\* The talk of a user goes on if its call and its connection are left alone; if
\* it holds no lock there is none.
LEMMA TalkKept ==
  ASSUME NEW w \in User, Talk(w), at'[w] = at[w],
         at[w] \in Holding =>
           /\ cmd'[w] = cmd[w] /\ text'[w] = text[w]
           /\ status'[ConnOf[w]] = status[ConnOf[w]]
           /\ input'[ConnOf[w]] = input[ConnOf[w]]
           /\ output'[ConnOf[w]] = output[ConnOf[w]]
           /\ last'[ConnOf[w]] = last[ConnOf[w]]
           /\ process'[ConnOf[w]] = process[ConnOf[w]]
  PROVE  Talk(w)'
<1>1. ASSUME at[w] = "read" PROVE BeforeAnswer(ConnOf[w], cmd[w], text[w])'
  BY <1>1 DEF Talk, Holding, BeforeAnswer
<1>2. ASSUME at[w] = "echo" PROVE text'[w] = <<>> /\ BeforeEcho(ConnOf[w], cmd[w])'
  BY <1>2 DEF Talk, Holding, BeforeEcho
<1> QED
  BY <1>1, <1>2 DEF Talk, Holding

\* Only the holder of the lock of a connection is in a call on it.
LEMMA OneHolder ==
  ASSUME ShellInv, NEW w \in User, at[w] \in Holding
  PROVE  lock[ConnOf[w]] = w
BY ShellAssumption DEF ShellInv, Locks, On, Thread

\* The END block keeps to the connections it has closed.
LEMMA EndsKept ==
  ASSUME ShellInv, at'[Main] = at[Main], target' = target,
         \A c \in Conn : io[c] = "closed" => io'[c] = "closed",
         openList' \subseteq openList
  PROVE  Ends'
<1>1. \A i \in 1..Len(target) : target[i] \in Conn
  BY DEF ShellInv, ShellTypeOK
<1>2. target \in Seq(Conn)
  BY DEF ShellInv, ShellTypeOK
<1> QED
  BY <1>1, <1>2 DEF ShellInv, Ends

\* Nobody takes or releases a lock.
LEMMA LocksKept ==
  ASSUME ShellInv, lock' = lock, target' = target \/ at[Main] # "close",
         \A v \in Thread : at'[v] \in Holding <=> at[v] \in Holding
  PROVE  Locks'
<1> USE ShellAssumption DEF Thread
<1>1. \A v \in Thread : at[v] \in Holding => On(v)' = On(v)
  <2>1. at[Main] \in Holding <=> at[Main] = "close"
    BY DEF ShellInv, ShellTypeOK, MainPlace, Holding
  <2> QED
    BY <2>1 DEF On
<1> QED
  BY <1>1 DEF ShellInv, Locks, ShellTypeOK

\* A thread takes the lock of its connection, or releases it.
LEMMA LockTaken ==
  ASSUME ShellInv, NEW v \in Thread, On(v) \in Conn, lock[On(v)] = NoThread,
         lock' = [lock EXCEPT ![On(v)] = v], NEW p \in Holding,
         at' = [at EXCEPT ![v] = p], target' = target
  PROVE  Locks'
<1> USE ShellAssumption DEF Thread
<1>1. \A w \in Thread : On(w)' = On(w)
  BY DEF On
<1>2. at[v] \notin Holding
  BY DEF ShellInv, Locks
<1>3. /\ \A w \in Thread : w # v => at'[w] = at[w]
      /\ at'[v] = p
      /\ \A c \in Conn : lock'[c] = IF c = On(v) THEN v ELSE lock[c]
      /\ \A c \in Conn : lock[c] \in Thread \cup {NoThread}
  BY DEF ShellInv, ShellTypeOK
<1>4. \A w \in Thread : w # v /\ at[w] \in Holding => On(w) # On(v)
  BY DEF ShellInv, Locks
<1>5. \A w \in Thread : at[w] \in Holding => On(w) \in Conn
  BY OnConn DEF Holding, ShellInv, ShellTypeOK, MainPlace
<1> QED
  BY <1>1, <1>2, <1>3, <1>4, <1>5 DEF ShellInv, Locks

LEMMA LockReleased ==
  ASSUME ShellInv, NEW v \in Thread, at[v] \in Holding,
         lock' = [lock EXCEPT ![On(v)] = NoThread], NEW p, p \notin Holding,
         at' = [at EXCEPT ![v] = p], target' = target
  PROVE  Locks'
<1> USE ShellAssumption DEF Thread
<1>1. \A w \in Thread : On(w)' = On(w)
  BY DEF On
<1>2. /\ \A w \in Thread : w # v => at'[w] = at[w]
      /\ at'[v] = p
      /\ \A c \in Conn : lock'[c] = IF c = On(v) THEN NoThread ELSE lock[c]
      /\ \A c \in Conn : lock[c] \in Thread \cup {NoThread}
  BY DEF ShellInv, ShellTypeOK
<1>3. \A w \in Thread : at[w] \in Holding => lock[On(w)] = w /\ On(w) \in Conn
  BY OnConn DEF Holding, ShellInv, ShellTypeOK, MainPlace, Locks
<1> QED
  BY <1>1, <1>2, <1>3 DEF ShellInv, Locks

\* A connection that no thread and no process touches.
LEMMA RestsKept ==
  ASSUME NEW d \in Conn, Rests(d),
         io'[d] = io[d], process'[d] = process[d], input'[d] = input[d],
         output'[d] = output[d], lock'[d] = lock[d],
         d \in openList => d \in openList',
         lock[d] # NoThread => (at'[lock[d]] = "close" <=> at[lock[d]] = "close")
  PROVE  Rests(d)'
BY DEF Rests

-----------------------------------------------------------------------------
(* The steps.                                                               *)

\* The parts of the invariant and the types of the variables, as a step needs them.
LEMMA Parts ==
  ASSUME ShellInv
  PROVE  /\ ShellTypeOK /\ Locks /\ (\A w \in User : Talk(w))
         /\ (\A d \in Conn : Rests(d)) /\ Ends /\ Started /\ Results
BY DEF ShellInv

LEMMA OpenStep ==
  ASSUME ShellInv, NEW c \in Conn, Open(c)
  PROVE  ShellInv'
<1> USE ShellAssumption DEF Thread
<1>1. ShellTypeOK'
  <2>1. io' \in [Conn -> {"new", "open", "closed"}] /\ openList' \subseteq Conn
    BY Parts DEF Open, ShellTypeOK
  <2>2. CASE /\ process' = [process EXCEPT ![c] = "up"]
             /\ status' = [status EXCEPT ![c] = "0"]
    BY <2>1, <2>2, Parts DEF Open, uvars, ShellTypeOK
  <2>3. CASE UNCHANGED <<process, status>>
    BY <2>1, <2>3, Parts DEF Open, uvars, ShellTypeOK
  <2> QED
    BY <2>2, <2>3 DEF Open
<1>2. Locks'
  BY LocksKept DEF Open, uvars
<1>3. ASSUME NEW w \in User PROVE Talk(w)'
  <2>1. at[w] \in Holding => ConnOf[w] # c
    BY Parts, OneHolder DEF Open, Rests
  <2>2. /\ \A d \in Conn : d # c => status'[d] = status[d] /\ process'[d] = process[d]
        /\ UNCHANGED <<lock, input, output, last, uvars>>
    BY Parts DEF Open, ShellTypeOK
  <2> QED
    BY <2>1, <2>2, TalkKept, Parts DEF uvars
<1>4. \A d \in Conn : Rests(d)'
  BY Parts DEF Open, uvars, Rests, ShellTypeOK
<1>5. Ends'
  <2>1. at[Main] \in {"end", "enter", "close", "done"} => Connected
    BY Parts DEF Started
  <2>2. at[Main] \in {"run", "failed"}
    BY <2>1, Parts DEF Connected, Open, ShellTypeOK, MainPlace
  <2> QED
    BY <2>2, Parts DEF Open, uvars, Ends
<1>6. Started' /\ Results'
  BY Parts DEF Open, uvars, ShellTypeOK, Started, Connected, Results, Sole
<1> QED
  BY <1>1, <1>2, <1>3, <1>4, <1>5, <1>6 DEF ShellInv

LEMMA LoseStep ==
  ASSUME ShellInv, NEW c \in Conn, Lose(c)
  PROVE  ShellInv'
<1> USE ShellAssumption DEF Thread
<1>1. ShellTypeOK'
  BY Parts DEF Lose, cvars, uvars, ShellTypeOK
<1>2. Locks'
  BY LocksKept DEF Lose, cvars, uvars
<1>3. ASSUME NEW w \in User PROVE Talk(w)'
  <2>1. process'[ConnOf[w]] = process[ConnOf[w]] \/ process'[ConnOf[w]] = "down"
    BY Parts DEF Lose, ShellTypeOK
  <2>2. at[w] = "read" => BeforeAnswer(ConnOf[w], cmd[w], text[w])'
    BY <2>1, Parts DEF Lose, cvars, uvars, Talk, BeforeAnswer
  <2>3. at[w] = "echo" => BeforeEcho(ConnOf[w], cmd[w])'
    BY Parts DEF Lose, cvars, uvars, Talk, BeforeEcho
  <2> QED
    BY <2>1, <2>2, <2>3, Parts DEF Lose, cvars, uvars, Talk
<1>4. \A d \in Conn : Rests(d)'
  BY Parts DEF Lose, cvars, uvars, Rests, ShellTypeOK
<1>5. Ends'
  BY EndsKept DEF Lose, cvars, uvars
<1>6. Started' /\ Results'
  BY Parts DEF Lose, cvars, uvars, Started, Connected, Results, Sole
<1> QED
  BY <1>1, <1>2, <1>3, <1>4, <1>5, <1>6 DEF ShellInv

LEMMA InputsDiffer ==
  ASSUME NEW x
  PROVE  /\ <<x, "echo">> # <<"echo">> /\ <<"echo">> # <<x, "echo">>
         /\ <<x, "echo">> # <<>> /\ <<"echo">> # <<>>
OBVIOUS

LEMMA RunStep ==
  ASSUME ShellInv, NEW c \in Conn, Run(c)
  PROVE  ShellInv'
<1> USE ShellAssumption DEF Thread
<1> DEFINE x == Head(input[c])
<1>0. /\ process[c] = "up" /\ input[c] # <<>>
      /\ input' = [input EXCEPT ![c] = Tail(@)]
      /\ UNCHANGED <<cvars, uvars>>
  BY DEF Run
<1>1. /\ input[c] \in Seq(Command \cup {"echo", "exit"})
      /\ x \in Command \cup {"echo", "exit"}
      /\ Tail(input[c]) \in Seq(Command \cup {"echo", "exit"})
  BY <1>0, Parts DEF ShellTypeOK
<1>2. \/ /\ x = "echo" /\ output' = [output EXCEPT ![c] = @ \o <<Term, last[c], NL>>]
         /\ UNCHANGED <<last, process>>
      \/ /\ x = "exit" /\ process' = [process EXCEPT ![c] = "down"]
         /\ UNCHANGED <<output, last>>
      \/ /\ x \in Command /\ output' = [output EXCEPT ![c] = @ \o Out[x]]
         /\ last' = [last EXCEPT ![c] = Code[x]]
         /\ UNCHANGED process
  BY <1>1 DEF Run, Emit
<1> HIDE DEF x
<1>3. ShellTypeOK'
  <2>1. /\ output[c] \in Seq(Word) /\ last[c] \in Word
        /\ <<Term, last[c], NL>> \in Seq(Word)
    BY Parts DEF ShellTypeOK
  <2>2. x \in Command => Out[x] \in Seq(Word) /\ Code[x] \in Word
    BY DEF x
  <2>3. output' \in [Conn -> Seq(Word)] /\ last' \in [Conn -> Word]
    <3>1. ASSUME NEW s \in Seq(Word), output' = [output EXCEPT ![c] = @ \o s]
          PROVE  output' \in [Conn -> Seq(Word)]
      BY <2>1, <3>1, Parts DEF ShellTypeOK
    <3>2. output' \in [Conn -> Seq(Word)]
      BY <1>2, <2>1, <2>2, <3>1, Parts DEF ShellTypeOK
    <3>3. last' \in [Conn -> Word]
      BY <1>2, <2>2, Parts DEF ShellTypeOK
    <3> QED
      BY <3>2, <3>3
  <2>4. process' \in [Conn -> {"up", "down"}]
    BY <1>2, Parts DEF ShellTypeOK
  <2>5. input' \in [Conn -> Seq(Command \cup {"echo", "exit"})]
    BY <1>0, <1>1, Parts DEF ShellTypeOK
  <2> QED
    BY <1>0, <2>3, <2>4, <2>5, Parts DEF cvars, uvars, ShellTypeOK
<1>4. Locks'
  BY <1>0, LocksKept DEF cvars, uvars
<1>5. /\ \A d \in Conn : d # c => /\ input'[d] = input[d] /\ output'[d] = output[d]
                                  /\ last'[d] = last[d] /\ process'[d] = process[d]
      /\ input'[c] = Tail(input[c])
  BY <1>0, <1>2, Parts DEF ShellTypeOK
<1>6. lock[c] # NoThread
  BY <1>0, Parts DEF Rests
<1>7. ASSUME at[lock[c]] = "close"
      PROVE  x = "exit" /\ process'[c] = "down" /\ input'[c] = <<>> /\ output' = output
  <2>1. input[c] = <<"exit">>
    BY <1>0, <1>6, <1>7, Parts DEF Rests
  <2>2. x = "exit"
    BY <2>1 DEF x
  <2> QED
    BY <1>0, <1>2, <2>1, <2>2, Parts DEF ShellTypeOK
<1>8. ASSUME NEW u \in User, ConnOf[u] = c, at[u] \in Holding, at[u] # "close"
      PROVE  Talk(u)' /\ process'[c] = process[c]
  <2>1. output[c] \in Seq(Word) /\ Out[cmd[u]] \in Seq(Word) /\ text[u] \in Seq(Word)
        /\ cmd[u] \in Command
    BY Parts DEF ShellTypeOK
  <2>2. CASE at[u] = "echo"
    <3>1. input[c] = <<cmd[u]>> /\ output[c] = <<>> /\ text[u] = <<>>
      BY <1>0, <1>8, <2>2, Parts DEF Talk, BeforeEcho
    <3>2. x = cmd[u] /\ Tail(input[c]) = <<>>
      BY <3>1 DEF x
    <3>3. /\ output'[c] = Out[cmd[u]] /\ last'[c] = Code[cmd[u]] /\ input'[c] = <<>>
          /\ process' = process
      BY <1>2, <1>5, <2>1, <3>1, <3>2, Parts DEF ShellTypeOK
    <3> QED
      BY <1>0, <1>8, <2>2, <3>1, <3>3 DEF Talk, BeforeEcho, uvars
  <2>3. CASE at[u] = "read" /\ input[c] = <<cmd[u], "echo">>
    <3>1. input[c] = <<cmd[u], "echo">> /\ output[c] = <<>> /\ text[u] = <<>>
      <4>1. BeforeAnswer(c, cmd[u], text[u])
        BY <1>8, <2>3, Parts DEF Talk
      <4>2. input[c] # <<"echo">> /\ input[c] # <<>>
        BY <2>3, InputsDiffer
      <4> QED
        BY <2>3, <4>1, <4>2 DEF BeforeAnswer
    <3>2. x = cmd[u] /\ Tail(input[c]) = <<"echo">>
      BY <3>1 DEF x
    <3>3. /\ output'[c] = Out[cmd[u]] /\ last'[c] = Code[cmd[u]]
          /\ input'[c] = <<"echo">> /\ process' = process
      BY <1>2, <1>5, <2>1, <3>1, <3>2, Parts DEF ShellTypeOK
    <3>4. text[u] \o output'[c] = Out[cmd[u]] /\ LineEnd(text[u])
      BY <2>1, <3>1, <3>3 DEF LineEnd
    <3>5. BeforeAnswer(c, cmd[u], text[u])'
      BY <1>0, <3>3, <3>4 DEF BeforeAnswer, LineEnd, uvars
    <3> QED
      BY <1>0, <1>8, <2>3, <3>3, <3>5 DEF Talk, uvars
  <2>4. CASE at[u] = "read" /\ input[c] = <<"echo">>
    <3>1. /\ input[c] = <<"echo">> /\ last[c] = Code[cmd[u]]
          /\ text[u] \o output[c] = Out[cmd[u]] /\ LineEnd(text[u])
      <4>1. BeforeAnswer(c, cmd[u], text[u])
        BY <1>8, <2>4, Parts DEF Talk
      <4>2. input[c] # <<cmd[u], "echo">> /\ input[c] # <<>>
        BY <2>4, InputsDiffer
      <4> QED
        BY <1>0, <2>4, <4>1, <4>2 DEF BeforeAnswer
    <3>2. x = "echo" /\ Tail(input[c]) = <<>>
      BY <3>1 DEF x
    <3>3. /\ output'[c] = output[c] \o AnswerOf(cmd[u]) /\ input'[c] = <<>>
          /\ process' = process
      <4>1. x \notin Command /\ x # "exit"
        BY <3>2
      <4>2. output' = [output EXCEPT ![c] = @ \o AnswerOf(cmd[u])] /\ process' = process
        BY <1>2, <3>1, <4>1 DEF AnswerOf
      <4> QED
        BY <1>5, <3>2, <4>2, Parts DEF ShellTypeOK
    <3>4. BeforeAnswer(c, cmd[u], text[u])'
      BY <1>0, <2>1, <3>1, <3>3 DEF BeforeAnswer, LineEnd, AnswerOf, uvars
    <3> QED
      BY <1>0, <1>8, <2>4, <3>3, <3>4 DEF Talk, uvars
  <2> QED
    BY <1>0, <1>8, <2>2, <2>3, <2>4, Parts DEF Holding, Talk, BeforeAnswer
<1>9. ASSUME NEW w \in User PROVE Talk(w)'
  <2>1. CASE ConnOf[w] = c /\ at[w] \in Holding
    BY <1>0, <1>8, <2>1 DEF Talk, uvars
  <2>2. CASE ~(ConnOf[w] = c /\ at[w] \in Holding)
    BY <1>0, <1>5, <2>2, Parts, TalkKept DEF cvars, uvars
  <2> QED
    BY <2>1, <2>2
<1>10. ASSUME NEW d \in Conn PROVE Rests(d)'
  <2>1. CASE d # c
    BY <1>0, <1>5, <2>1, Parts, RestsKept DEF cvars, uvars
  <2>2. CASE d = c /\ at[lock[c]] = "close"
    BY <1>0, <1>6, <1>7, <2>2, Parts DEF Rests, cvars, uvars
  <2>3. CASE d = c /\ at[lock[c]] # "close"
    <3>1. lock[c] \in Thread /\ at[lock[c]] \in Holding /\ On(lock[c]) = c
      BY <1>6, Parts DEF Locks, ShellTypeOK
    <3>2. lock[c] \in User
      BY <2>3, <3>1, Parts DEF ShellTypeOK, MainPlace, Holding
    <3>3. process'[c] = process[c]
      BY <1>8, <2>3, <3>1, <3>2 DEF On
    <3> QED
      BY <1>0, <1>6, <2>3, <3>3, Parts DEF Rests, cvars, uvars
  <2> QED
    BY <2>1, <2>2, <2>3
<1>11. Ends'
  BY <1>0, EndsKept DEF cvars, uvars
<1>12. Started' /\ Results'
  BY <1>0, Parts DEF cvars, uvars, Started, Connected, Results, Sole
<1> QED
  BY <1>3, <1>4, <1>9, <1>10, <1>11, <1>12 DEF ShellInv

LEMMA BeginStep ==
  ASSUME ShellInv, NEW u \in User, NEW x \in Command, Begin(u, x)
  PROVE  ShellInv'
<1> USE ShellAssumption DEF Thread
<1> DEFINE c == ConnOf[u]
<1>0. /\ c \in Conn /\ On(u) = c /\ lock[c] = NoThread /\ at[u] = "idle" /\ Connected
      /\ io[c] = "open" /\ process[c] = "up"
      /\ lock' = [lock EXCEPT ![c] = u] /\ at' = [at EXCEPT ![u] = "echo"]
      /\ input' = [input EXCEPT ![c] = Append(@, x)]
      /\ cmd' = [cmd EXCEPT ![u] = x] /\ text' = [text EXCEPT ![u] = <<>>]
      /\ calls' = [calls EXCEPT ![u] = @ + 1]
      /\ UNCHANGED <<io, status, openList, process, output, last, target>>
  BY DEF Begin, Write, Writable, Send, Goto, On
<1>1. input[c] = <<>> /\ output[c] = <<>>
  BY <1>0, Parts DEF Rests
<1>2. /\ \A d \in Conn : d # c => lock'[d] = lock[d] /\ input'[d] = input[d]
      /\ lock'[c] = u /\ input'[c] = <<x>>
      /\ \A w \in Thread : w # u => at'[w] = at[w]
      /\ \A w \in User : w # u => cmd'[w] = cmd[w] /\ text'[w] = text[w]
      /\ at'[u] = "echo" /\ cmd'[u] = x /\ text'[u] = <<>>
  BY <1>0, <1>1, Parts DEF ShellTypeOK
<1> HIDE DEF c
<1>3. ShellTypeOK'
  <2>1. lock' \in [Conn -> Thread \cup {NoThread}]
    BY <1>0, Parts DEF ShellTypeOK
  <2>2. input' \in [Conn -> Seq(Command \cup {"echo", "exit"})]
    BY <1>0, Parts DEF ShellTypeOK
  <2>3. /\ at' \in [Thread -> UserPlace \cup MainPlace] /\ at'[Main] \in MainPlace
        /\ \A w \in User : at'[w] \in UserPlace
    BY <1>0, <1>2, Parts DEF ShellTypeOK, UserPlace
  <2>4. /\ cmd' \in [User -> Command] /\ text' \in [User -> Seq(Word)]
        /\ calls' \in [User -> Nat]
    BY <1>0, Parts DEF ShellTypeOK
  <2> QED
    BY <1>0, <2>1, <2>2, <2>3, <2>4, Parts DEF ShellTypeOK
<1>4. Locks'
  BY <1>0, LockTaken DEF Holding
<1>5. ASSUME NEW w \in User PROVE Talk(w)'
  <2>1. CASE w = u
    BY <1>0, <1>1, <1>2, <2>1 DEF Talk, BeforeEcho, c
  <2>2. CASE w # u
    <3>1. at[w] \in Holding => ConnOf[w] # c
      BY <1>0, OneHolder
    <3> QED
      BY <1>0, <1>2, <2>2, <3>1, TalkKept, Parts
  <2> QED
    BY <2>1, <2>2
<1>6. ASSUME NEW d \in Conn PROVE Rests(d)'
  <2>1. CASE d = c
    BY <1>0, <1>2, <2>1, Parts DEF Rests
  <2>2. CASE d # c
    <3>1. lock[d] # NoThread => lock[d] # u /\ lock[d] \in Thread
      BY <1>0, <2>2, Parts DEF Locks, ShellTypeOK
    <3> QED
      BY <1>0, <1>2, <2>2, <3>1, RestsKept, Parts
  <2> QED
    BY <2>1, <2>2
<1>7. Ends'
  BY <1>0, <1>2, EndsKept
<1>8. Started' /\ Results'
  BY <1>0, <1>2, Parts DEF Started, Connected, Results, Sole
<1> QED
  BY <1>3, <1>4, <1>5, <1>6, <1>7, <1>8 DEF ShellInv

LEMMA RefusedStep ==
  ASSUME ShellInv, NEW u \in User, Refused(u)
  PROVE  ShellInv'
<1> USE ShellAssumption DEF Thread
<1> DEFINE c == ConnOf[u]
<1>0. /\ c \in Conn /\ On(u) = c /\ ~(io[c] = "open" /\ process[c] = "up") /\ Connected
      /\ \/ at[u] = "idle" /\ lock[c] = NoThread /\ UNCHANGED lock
         \/ at[u] = "echo" /\ lock' = [lock EXCEPT ![c] = NoThread]
      /\ at' = [at EXCEPT ![u] = "failed"]
      /\ UNCHANGED <<io, status, openList, pvars, cmd, calls, text, target>>
  BY DEF Refused, Writable, Goto, On
<1>1. /\ \A w \in Thread : w # u => at'[w] = at[w]
      /\ at'[u] = "failed"
      /\ \A d \in Conn : d # c => lock'[d] = lock[d]
      /\ at[u] = "echo" => lock[c] = u
  BY <1>0, Parts, OneHolder DEF ShellTypeOK, Holding
<1> HIDE DEF c
<1>2. ShellTypeOK'
  <2>1. lock' \in [Conn -> Thread \cup {NoThread}]
    BY <1>0, Parts DEF ShellTypeOK
  <2> QED
    BY <1>0, <1>1, <2>1, Parts DEF ShellTypeOK, pvars, UserPlace
<1>3. Locks'
  <2>1. CASE at[u] = "echo"
    BY <1>0, <2>1, LockReleased DEF Holding
  <2>2. CASE at[u] = "idle"
    BY <1>0, <1>1, <2>2, LocksKept DEF Holding
  <2> QED
    BY <1>0, <2>1, <2>2
<1>4. ASSUME NEW w \in User PROVE Talk(w)'
  <2>1. CASE w = u
    BY <1>1, <2>1 DEF Talk
  <2>2. CASE w # u
    BY <1>0, <1>1, <2>2, TalkKept, Parts DEF pvars
  <2> QED
    BY <2>1, <2>2
<1>5. ASSUME NEW d \in Conn PROVE Rests(d)'
  <2>1. CASE d = c
    BY <1>0, <1>1, <2>1, Parts DEF Rests, pvars, ShellTypeOK
  <2>2. CASE d # c
    <3>1. lock[d] # NoThread => lock[d] # u /\ lock[d] \in Thread
      BY <1>0, <2>2, Parts DEF Locks, ShellTypeOK
    <3> QED
      BY <1>0, <1>1, <2>2, <3>1, RestsKept, Parts DEF pvars
  <2> QED
    BY <2>1, <2>2
<1>6. Ends'
  BY <1>0, <1>1, EndsKept
<1>7. Started' /\ Results'
  BY <1>0, <1>1, Parts DEF Started, Connected, Results, Sole
<1> QED
  BY <1>2, <1>3, <1>4, <1>5, <1>6, <1>7 DEF ShellInv

LEMMA EchoWritten ==
  ASSUME NEW x
  PROVE  Append(<<x>>, "echo") = <<x, "echo">>
<1> DEFINE s == Append(<<x>>, "echo")
           t == <<x, "echo">>
<1>1. s \in Seq({x, "echo"}) /\ Len(s) = 2 /\ s[1] = x /\ s[2] = "echo"
  OBVIOUS
<1>2. t \in Seq({x, "echo"}) /\ Len(t) = 2 /\ t[1] = x /\ t[2] = "echo"
  OBVIOUS
<1> HIDE DEF s, t
<1>3. \A i \in 1..Len(s) : s[i] = t[i]
  BY <1>1, <1>2
<1>4. s = t
  BY <1>1, <1>2, <1>3, SeqEqual
<1> QED
  BY <1>4 DEF s, t

LEMMA EchoStep ==
  ASSUME ShellInv, NEW u \in User, Echo(u)
  PROVE  ShellInv'
<1> USE ShellAssumption DEF Thread
<1> DEFINE c == ConnOf[u]
<1>0. /\ c \in Conn /\ at[u] = "echo" /\ io[c] = "open" /\ process[c] = "up"
      /\ input' = [input EXCEPT ![c] = Append(@, "echo")]
      /\ at' = [at EXCEPT ![u] = "read"]
      /\ UNCHANGED <<cvars, process, output, last, cmd, calls, text, target>>
  BY DEF Echo, Writable, Goto, Send
<1>1. /\ lock[c] = u
      /\ \A w \in Thread : w # u => at'[w] = at[w]
      /\ at'[u] = "read"
      /\ input[c] \in Seq(Command \cup {"echo", "exit"})
      /\ input'[c] = Append(input[c], "echo")
      /\ \A d \in Conn : d # c => input'[d] = input[d]
  BY <1>0, Parts, OneHolder DEF ShellTypeOK, Holding
<1>2. ShellTypeOK'
  <2>1. input' \in [Conn -> Seq(Command \cup {"echo", "exit"})]
    BY <1>0, Parts DEF ShellTypeOK
  <2> QED
    BY <1>0, <1>1, <2>1, Parts DEF ShellTypeOK, cvars, UserPlace
<1>3. Locks'
  BY <1>0, <1>1, LocksKept DEF Holding, cvars
<1>4. Talk(u)'
  <2>1. text[u] = <<>> /\ BeforeEcho(c, cmd[u])
    BY <1>0, Parts DEF Talk
  <2>2. CASE input[c] = <<cmd[u]>> /\ output[c] = <<>>
    <3>1. input'[c] = <<cmd[u], "echo">>
      BY <1>1, <2>2, EchoWritten
    <3>2. BeforeAnswer(c, cmd[u], text[u])'
      BY <1>0, <2>1, <2>2, <3>1 DEF BeforeAnswer
    <3> QED
      BY <1>0, <1>1, <3>2 DEF Talk
  <2>3. CASE input[c] = <<>> /\ output[c] = Out[cmd[u]] /\ last[c] = Code[cmd[u]]
    <3>1. input'[c] = <<"echo">>
      BY <1>1, <2>3
    <3>2. Out[cmd[u]] \in Seq(Word)
      BY Parts DEF ShellTypeOK
    <3>3. text[u] \o output[c] = Out[cmd[u]]
      BY <2>1, <2>3, <3>2
    <3>4. BeforeAnswer(c, cmd[u], text[u])'
      BY <1>0, <2>1, <2>3, <3>1, <3>3 DEF BeforeAnswer, LineEnd
    <3> QED
      BY <1>0, <1>1, <3>4 DEF Talk
  <2> QED
    BY <2>1, <2>2, <2>3 DEF BeforeEcho
<1>5. ASSUME NEW w \in User, w # u PROVE Talk(w)'
  <2>1. at[w] \in Holding => ConnOf[w] # c
    BY <1>1, <1>5, OneHolder
  <2> QED
    BY <1>0, <1>1, <1>5, <2>1, TalkKept, Parts DEF cvars
<1>6. ASSUME NEW d \in Conn PROVE Rests(d)'
  <2>1. CASE d = c
    BY <1>0, <1>1, <2>1, Parts DEF Rests, cvars
  <2>2. CASE d # c
    <3>1. lock[d] # NoThread => lock[d] # u /\ lock[d] \in Thread
      BY <2>2, Parts DEF Locks, ShellTypeOK, On
    <3> QED
      BY <1>0, <1>1, <2>2, <3>1, RestsKept, Parts DEF cvars
  <2> QED
    BY <2>1, <2>2
<1>7. Ends'
  BY <1>0, <1>1, EndsKept DEF cvars
<1>8. Started' /\ Results'
  BY <1>0, <1>1, Parts DEF Started, Connected, Results, Sole, cvars
<1> QED
  BY <1>2, <1>3, <1>4, <1>5, <1>6, <1>7, <1>8 DEF ShellInv

LEMMA UnlockStep ==
  ASSUME ShellInv, NEW u \in User, Unlock(u)
  PROVE  ShellInv'
<1> USE ShellAssumption DEF Thread
<1> DEFINE c == ConnOf[u]
           p == IF at[u] = "answered" THEN "result" ELSE "stale"
<1>0. /\ c \in Conn /\ On(u) = c /\ at[u] \in {"answered", "eof"}
      /\ lock' = [lock EXCEPT ![c] = NoThread]
      /\ at' = [at EXCEPT ![u] = p]
      /\ UNCHANGED <<io, status, openList, pvars, cmd, calls, text, target>>
  BY DEF Unlock, Goto, On
<1>1. /\ p \in {"result", "stale"} /\ p \notin Holding /\ at[u] \in Holding
      /\ p = "result" => at[u] = "answered"
  BY <1>0 DEF Holding
<1> HIDE DEF p
<1>2. /\ lock[c] = u
      /\ \A w \in Thread : w # u => at'[w] = at[w]
      /\ at'[u] = p
      /\ lock'[c] = NoThread
      /\ \A d \in Conn : d # c => lock'[d] = lock[d]
  BY <1>0, <1>1, Parts, OneHolder DEF ShellTypeOK
<1>3. ShellTypeOK'
  <2>1. lock' \in [Conn -> Thread \cup {NoThread}]
    BY <1>0, Parts DEF ShellTypeOK
  <2> QED
    BY <1>0, <1>1, <1>2, <2>1, Parts DEF ShellTypeOK, pvars, UserPlace
<1>4. Locks'
  BY <1>0, <1>1, LockReleased
<1>5. ASSUME NEW w \in User PROVE Talk(w)'
  <2>1. CASE w = u
    BY <1>1, <1>2, <2>1 DEF Talk
  <2>2. CASE w # u
    BY <1>0, <1>2, <2>2, TalkKept, Parts DEF pvars
  <2> QED
    BY <2>1, <2>2
<1>6. ASSUME NEW d \in Conn PROVE Rests(d)'
  <2>1. CASE d = c
    <3>1. io[c] = "open" /\ (process[c] = "down" => c \in Mortal)
      BY <1>0, <1>2, Parts DEF Rests, ShellTypeOK
    <3>2. (input[c] = <<>> /\ output[c] = <<>>) \/ process[c] = "down"
      BY <1>0, Parts DEF Talk
    <3> QED
      BY <1>0, <1>2, <2>1, <3>1, <3>2, Parts DEF Rests, pvars, ShellTypeOK
  <2>2. CASE d # c
    <3>1. lock[d] # NoThread => lock[d] # u /\ lock[d] \in Thread
      BY <1>0, <2>2, Parts DEF Locks, ShellTypeOK
    <3> QED
      BY <1>0, <1>2, <2>2, <3>1, RestsKept, Parts DEF pvars
  <2> QED
    BY <2>1, <2>2
<1>7. Ends'
  BY <1>0, <1>2, EndsKept
<1>8. Started'
  BY <1>0, <1>2, Parts DEF Started, Connected
<1>9. Results'
  BY <1>0, <1>1, <1>2, Parts DEF Results, Sole, Talk
<1> QED
  BY <1>3, <1>4, <1>5, <1>6, <1>7, <1>8, <1>9 DEF ShellInv

LEMMA ResultStep ==
  ASSUME ShellInv, NEW u \in User, Result(u)
  PROVE  ShellInv'
<1> USE ShellAssumption DEF Thread
<1>0. /\ at[u] \in {"result", "stale"}
      /\ \E p \in {"idle", "failed"} : at' = [at EXCEPT ![u] = p]
      /\ UNCHANGED <<cvars, pvars, cmd, calls, text, target>>
  BY DEF Result, Goto
<1>1. /\ \A w \in Thread : w # u => at'[w] = at[w]
      /\ at'[u] \in {"idle", "failed"} /\ at' \in [Thread -> UserPlace \cup MainPlace]
      /\ at[u] \notin Holding /\ at'[u] \notin Holding
  BY <1>0, Parts DEF ShellTypeOK, UserPlace, Holding
<1>2. ShellTypeOK'
  BY <1>0, <1>1, Parts DEF ShellTypeOK, cvars, pvars, UserPlace
<1>3. Locks'
  BY <1>0, <1>1, LocksKept DEF cvars
<1>4. ASSUME NEW w \in User PROVE Talk(w)'
  <2>1. CASE w = u
    BY <1>1, <2>1 DEF Talk
  <2>2. CASE w # u
    BY <1>0, <1>1, <2>2, TalkKept, Parts DEF cvars, pvars
  <2> QED
    BY <2>1, <2>2
<1>5. ASSUME NEW d \in Conn PROVE Rests(d)'
  <2>1. lock[d] # NoThread => lock[d] # u /\ lock[d] \in Thread
    BY <1>1, Parts DEF Locks, ShellTypeOK
  <2> QED
    BY <1>0, <1>1, <2>1, RestsKept, Parts DEF cvars, pvars
<1>6. Ends'
  BY <1>0, <1>1, EndsKept DEF cvars
<1>7. Started' /\ Results'
  BY <1>0, <1>1, Parts DEF Started, Connected, Results, Sole, cvars
<1> QED
  BY <1>2, <1>3, <1>4, <1>5, <1>6, <1>7 DEF ShellInv

-----------------------------------------------------------------------------
(* Reading a line.                                                          *)

\* A set of natural numbers has a least one.
LEMMA LeastElement ==
  ASSUME NEW S \in SUBSET Nat, S # {}
  PROVE  \E i \in S : \A j \in S : i <= j
<1> DEFINE R == OpToRel(<, Nat)
<1>1. IsWellFoundedOn(R, Nat)
  BY NatLessThanWellFounded
<1>2. \A i, j \in Nat : i < j => <<i, j>> \in R
  BY DEF OpToRel
<1> HIDE DEF R
<1>3. PICK i \in S : \A j \in S : <<j, i>> \notin R
  BY <1>1, WFMin
<1>4. ASSUME NEW j \in S PROVE i <= j
  <2>1. i \in Nat /\ j \in Nat /\ ~(j < i)
    BY <1>2, <1>3
  <2> QED
    BY <2>1
<1> QED
  BY <1>4

\* gets reads to the first newline or, if there is none, to the end.
LEMMA EndOfLineProperties ==
  ASSUME NEW c \in Conn, output[c] \in Seq(Word)
  PROVE  /\ EndOfLine(c) \in 0..Len(output[c])
         /\ output[c] # <<>> => EndOfLine(c) >= 1
         /\ Lines(c) = {} => EndOfLine(c) = Len(output[c])
         /\ Lines(c) # {} => /\ output[c][EndOfLine(c)] = NL
                             /\ EndOfLine(c) \in 1..Len(output[c])
         /\ \A i \in 1..Len(output[c]) : output[c][i] = NL =>
              Lines(c) # {} /\ EndOfLine(c) <= i
<1>1. CASE Lines(c) = {}
  <2>1. EndOfLine(c) = Len(output[c])
    BY <1>1 DEF EndOfLine
  <2>2. Len(output[c]) \in Nat /\ (output[c] # <<>> => Len(output[c]) >= 1)
    OBVIOUS
  <2> QED
    BY <1>1, <2>1, <2>2 DEF Lines
<1>2. CASE Lines(c) # {}
  <2>1. Lines(c) \in SUBSET Nat
    BY DEF Lines
  <2>2. EndOfLine(c) \in Lines(c) /\ \A j \in Lines(c) : EndOfLine(c) <= j
    BY <1>2, <2>1, LeastElement DEF EndOfLine
  <2>3. EndOfLine(c) \in 1..Len(output[c]) /\ output[c][EndOfLine(c)] = NL
    BY <2>2 DEF Lines
  <2> QED
    BY <1>2, <2>2, <2>3 DEF Lines
<1> QED
  BY <1>1, <1>2

LEMMA Concat3 ==
  \A s, t, u \in Seq(Word) : (s \o t) \o u = s \o (t \o u)
BY ConcatAssociative

\* A sequence is what is read of it and what is left to read.
LEMMA Split ==
  ASSUME NEW o \in Seq(Word), NEW n \in 0..Len(o)
  PROVE  /\ SubSeq(o, 1, n) \in Seq(Word) /\ SubSeq(o, n + 1, Len(o)) \in Seq(Word)
         /\ SubSeq(o, 1, n) \o SubSeq(o, n + 1, Len(o)) = o
<1>1. SubSeq(o, 1, n) \in Seq(Word) /\ SubSeq(o, n + 1, Len(o)) \in Seq(Word)
  OBVIOUS
<1>2. 1 \in 1..(Len(o) + 1) /\ n \in (1 - 1)..Len(o) /\ Len(o) \in n..Len(o)
  OBVIOUS
<1>3. SubSeq(o, 1, n) \o SubSeq(o, n + 1, Len(o)) = SubSeq(o, 1, Len(o))
  BY <1>2, ConcatAdjacentSubSeq
<1> QED
  BY <1>1, <1>3, SubSeqFull

\* What is read and what is left to read are still the whole.
LEMMA ReadKeepsWhole ==
  ASSUME NEW t \in Seq(Word), NEW o \in Seq(Word), NEW n \in 0..Len(o)
  PROVE  /\ SubSeq(o, 1, n) \in Seq(Word) /\ SubSeq(o, n + 1, Len(o)) \in Seq(Word)
         /\ t \o SubSeq(o, 1, n) \in Seq(Word)
         /\ (t \o SubSeq(o, 1, n)) \o SubSeq(o, n + 1, Len(o)) = t \o o
         /\ n >= 1 /\ o[n] = NL => LineEnd(t \o SubSeq(o, 1, n))
<1> DEFINE a == SubSeq(o, 1, n)
           b == SubSeq(o, n + 1, Len(o))
<1>1. a \in Seq(Word) /\ b \in Seq(Word) /\ Len(a) = n
      /\ \A i \in 1..n : a[i] = o[i]
  OBVIOUS
<1>2. a \o b = o
  BY Split
<1>3. ASSUME n >= 1, o[n] = NL PROVE LineEnd(t \o a)
  <2>1. Len(t \o a) = Len(t) + n /\ (t \o a)[Len(t) + n] = a[n]
    BY <1>1, <1>3
  <2> QED
    BY <1>1, <1>3, <2>1 DEF LineEnd, Last
<1> HIDE DEF a, b
<1>4. t \o a \in Seq(Word) /\ (t \o a) \o b = t \o o
  <2>1. (t \o a) \o b = t \o (a \o b)
    BY <1>1, ConcatAssociative
  <2> QED
    BY <1>1, <1>2, <2>1, ConcatProperties
<1> QED
  BY <1>1, <1>3, <1>4 DEF a, b

\* The first word of a suffix of the output of a command is not the terminator.
LEMMA SuffixHead ==
  ASSUME NEW x \in Command, NEW t \in Seq(Word), NEW s \in Seq(Word), t \o s = Out[x],
         s # <<>>
  PROVE  s[1] # Term
<1>1. Out[x] \in Seq(Word \ {Term})
  BY ShellAssumption
<1>2. Len(t \o s) = Len(t) + Len(s) /\ (t \o s)[Len(t) + 1] = s[1] /\ Len(s) >= 1
  OBVIOUS
<1>3. Len(t) + 1 \in 1..Len(Out[x])
  BY <1>2
<1> QED
  BY <1>1, <1>2, <1>3

\* The words of an answer that follows s.
LEMMA AnswerProperties ==
  ASSUME NEW s \in Seq(Word), NEW x \in Command
  PROVE  /\ s \o AnswerOf(x) \in Seq(Word) /\ Len(s \o AnswerOf(x)) = Len(s) + 3
         /\ \A i \in 1..Len(s) : (s \o AnswerOf(x))[i] = s[i]
         /\ (s \o AnswerOf(x))[Len(s) + 1] = Term
         /\ (s \o AnswerOf(x))[Len(s) + 2] = Code[x]
         /\ (s \o AnswerOf(x))[Len(s) + 3] = NL
         /\ AnswerOf(x) \in Seq(Word)
<1>1. AnswerOf(x) \in Seq(Word) /\ Len(AnswerOf(x)) = 3
      /\ AnswerOf(x)[1] = Term /\ AnswerOf(x)[2] = Code[x] /\ AnswerOf(x)[3] = NL
  BY ShellAssumption DEF AnswerOf
<1> DEFINE a == AnswerOf(x)
<1>2. a \in Seq(Word) /\ Len(a) = 3 /\ a[1] = Term /\ a[2] = Code[x] /\ a[3] = NL
  BY <1>1
<1> HIDE DEF a
<1>3. /\ s \o a \in Seq(Word) /\ Len(s \o a) = Len(s) + 3
      /\ \A i \in 1..(Len(s) + Len(a)) :
           (s \o a)[i] = IF i <= Len(s) THEN s[i] ELSE a[i - Len(s)]
  <2>1. Len(s \o a) = Len(s) + Len(a) /\ s \o a \in Seq(Word)
    BY <1>2, ConcatProperties, Zenon
  <2>2. \A i \in 1..(Len(s) + Len(a)) :
          (s \o a)[i] = IF i <= Len(s) THEN s[i] ELSE a[i - Len(s)]
    BY <1>2, ConcatProperties, Zenon
  <2> QED
    BY <1>2, <2>1, <2>2
<1>4. \A i \in 1..Len(s) : (s \o a)[i] = s[i]
  BY <1>2, <1>3
<1>5. \A k \in 1..3 : (s \o a)[Len(s) + k] = a[k]
  <2> SUFFICES ASSUME NEW k \in 1..3 PROVE (s \o a)[Len(s) + k] = a[k]
    OBVIOUS
  <2>1. Len(s) + k \in 1..(Len(s) + Len(a)) /\ ~(Len(s) + k <= Len(s))
        /\ (Len(s) + k) - Len(s) = k
    BY <1>2
  <2> QED
    BY <1>3, <2>1
<1>6. 1 \in 1..3 /\ 2 \in 1..3 /\ 3 \in 1..3
  OBVIOUS
<1>7. /\ (s \o a)[Len(s) + 1] = Term /\ (s \o a)[Len(s) + 2] = Code[x]
      /\ (s \o a)[Len(s) + 3] = NL
  BY <1>2, <1>5, <1>6
<1> QED
  BY <1>2, <1>3, <1>4, <1>7 DEF a

\* The words left to read.
LEMMA LeftProperties ==
  ASSUME NEW o \in Seq(Word), NEW n \in 1..Len(o)
  PROVE  LET l == SubSeq(o, n + 1, Len(o))
         IN  /\ l \in Seq(Word) /\ Len(l) = Len(o) - n
             /\ \A i \in 1..Len(l) : l[i] = o[n + i]
             /\ n = Len(o) => l = <<>>
<1> DEFINE l == SubSeq(o, n + 1, Len(o))
<1>1. n + 1 \in Int /\ Len(o) \in Int /\ \A i \in (n + 1)..Len(o) : o[i] \in Word
  OBVIOUS
<1>2. /\ l \in Seq(Word)
      /\ Len(l) = IF n + 1 <= Len(o) THEN Len(o) - (n + 1) + 1 ELSE 0
      /\ \A i \in 1..(Len(o) - (n + 1) + 1) : l[i] = o[n + 1 + i - 1]
  BY <1>1, SubSeqProperties
<1>3. n = Len(o) => l = <<>>
  BY <1>1, SubSeqEmpty
<1> HIDE DEF l
<1>4. Len(l) = Len(o) - n /\ \A i \in 1..Len(l) : l[i] = o[n + i]
  BY <1>2
<1> QED
  BY <1>2, <1>3, <1>4 DEF l

\* The terminator is at the start of a line: all that the command printed was
\* read, and it ends with a newline.
LEMMA AnswerRead ==
  ASSUME ShellTypeOK, NEW u \in User, BeforeAnswer(ConnOf[u], cmd[u], text[u]),
         output[ConnOf[u]] # <<>>, output[ConnOf[u]][1] = Term
  PROVE  /\ input[ConnOf[u]] = <<>> /\ text[u] = Out[cmd[u]] /\ Finished(cmd[u])
         /\ output[ConnOf[u]][2] = Code[cmd[u]]
         /\ SubSeq(output[ConnOf[u]], EndOfLine(ConnOf[u]) + 1, Len(output[ConnOf[u]])) = <<>>
<1> USE ShellAssumption
<1> DEFINE c == ConnOf[u]
           x == cmd[u]
           t == text[u]
<1>1. /\ c \in Conn /\ x \in Command /\ t \in Seq(Word) /\ output[c] \in Seq(Word)
      /\ Code[x] \in Word /\ Code[x] # NL /\ Out[x] \in Seq(Word)
  BY DEF ShellTypeOK
<1> HIDE DEF c, x, t
<1>2. t \o output[c] # Out[x]
  BY <1>1, SuffixHead DEF c
<1>3. PICK rest \in Seq(Word) :
        /\ input[c] = <<>> /\ LineEnd(t) /\ t \o rest = Out[x]
        /\ output[c] = rest \o AnswerOf(x)
  BY <1>1, <1>2 DEF BeforeAnswer, c, x, t
<1>4. AnswerOf(x) \in Seq(Word) /\ Len(AnswerOf(x)) = 3
      /\ AnswerOf(x)[1] = Term /\ AnswerOf(x)[2] = Code[x] /\ AnswerOf(x)[3] = NL
  BY <1>1 DEF AnswerOf
<1>5. rest = <<>>
  <2> SUFFICES ASSUME rest # <<>> PROVE FALSE
    OBVIOUS
  <2>1. output[c][1] = rest[1]
    BY <1>3, <1>4
  <2> QED
    BY <1>1, <1>3, <2>1, SuffixHead DEF c
<1>6. output[c] = AnswerOf(x) /\ t = Out[x]
  BY <1>1, <1>3, <1>4, <1>5
<1>7. Finished(x)
  BY <1>3, <1>6 DEF LineEnd, Finished
<1>8. EndOfLine(c) = 3
  <2>1. \A i \in 1..3 : output[c][i] = NL <=> i = 3
    BY <1>1, <1>4, <1>6 DEF NL, Term
  <2>2. Len(output[c]) = 3 /\ Lines(c) # {}
    <3>1. Len(output[c]) = 3
      BY <1>4, <1>6
    <3>2. 3 \in 1..Len(output[c]) /\ output[c][3] = NL
      BY <2>1, <3>1
    <3> QED
      BY <3>1, <3>2 DEF Lines
  <2>3. EndOfLine(c) \in 1..3 /\ output[c][EndOfLine(c)] = NL
    BY <1>1, <2>2, EndOfLineProperties
  <2> QED
    BY <2>1, <2>3
<1>9. SubSeq(output[c], 3 + 1, Len(output[c])) = <<>>
  <2>1. Len(output[c]) = 3
    BY <1>4, <1>6
  <2> QED
    BY <1>1, <2>1, LeftProperties
<1> QED
  BY <1>3, <1>4, <1>6, <1>7, <1>8, <1>9 DEF c, x, t

\* Reading on to a newline of an answer that follows rest: the newline is in rest
\* and the answer still follows, or it is the last of the answer.
LEMMA LineOfAnswer ==
  ASSUME NEW rest \in Seq(Word), NEW x \in Command, NEW o, o = rest \o AnswerOf(x),
         NEW n \in 1..Len(o), o[n] = NL
  PROVE  \/ /\ n \in 1..Len(rest) /\ rest[n] = NL
            /\ SubSeq(o, 1, n) = SubSeq(rest, 1, n)
            /\ SubSeq(o, n + 1, Len(o)) = SubSeq(rest, n + 1, Len(rest)) \o AnswerOf(x)
         \/ SubSeq(o, n + 1, Len(o)) = <<>>
<1> DEFINE a == AnswerOf(x)
           p == SubSeq(rest, 1, n)
           r == SubSeq(rest, n + 1, Len(rest))
           l == SubSeq(o, n + 1, Len(o))
<1>1. /\ a \in Seq(Word) /\ o \in Seq(Word) /\ Len(o) = Len(rest) + 3
      /\ Len(rest) \in Nat
      /\ \A i \in 1..Len(rest) : o[i] = rest[i]
      /\ o[Len(rest) + 1] = Term /\ o[Len(rest) + 2] = Code[x]
  BY AnswerProperties
<1>2. n # Len(rest) + 1 /\ n # Len(rest) + 2
  BY <1>1, ShellAssumption DEF NL, Term
<1>3. CASE n \in 1..Len(rest)
  <2>1. p \in Seq(Word) /\ r \in Seq(Word) /\ p \o r = rest /\ rest[n] = NL
    <3>1. n \in 0..Len(rest)
      BY <1>3
    <3> QED
      BY <1>1, <1>3, <3>1, Split
  <2>2. l \in Seq(Word) /\ SubSeq(o, 1, n) \o l = o
    <3>1. n \in 0..Len(o)
      OBVIOUS
    <3> QED
      BY <1>1, <3>1, Split
  <2>3. SubSeq(o, 1, n) = p
    <3>1. 1 \in 1..Len(rest)
      BY <1>3
    <3> QED
      BY <1>1, <1>3, <3>1, SubSeqOfConcat1
  <2> HIDE DEF a, p, r, l
  <2>4. p \o l = p \o (r \o a)
    <3>1. p \in Seq(Word) /\ r \in Seq(Word) /\ a \in Seq(Word)
      BY <1>1, <2>1
    <3>2. (p \o r) \o a = p \o (r \o a)
      BY <3>1, Concat3, Zenon
    <3> QED
      BY <2>1, <2>2, <2>3, <3>2 DEF a
  <2>5. r \o a \in Seq(Word)
    BY <1>1, <2>1, ConcatProperties
  <2>6. l = r \o a
    BY <2>1, <2>2, <2>4, <2>5, ConcatSimplifications, Zenon
  <2> QED
    BY <1>3, <2>1, <2>3, <2>6 DEF a, p, r, l
<1>4. CASE n \notin 1..Len(rest)
  <2>1. n = Len(o)
    BY <1>1, <1>2, <1>4
  <2> QED
    BY <1>1, <2>1, LeftProperties
<1> QED
  BY <1>3, <1>4

\* A line is read when the answer follows what is still to be printed.
LEMMA LineBeforeAnswer ==
  ASSUME NEW x \in Command, NEW t \in Seq(Word), NEW rest \in Seq(Word),
         t \o rest = Out[x], NEW o, o = rest \o AnswerOf(x),
         NEW n \in 1..Len(o), o[n] = NL
  PROVE  \/ /\ LineEnd(t \o SubSeq(o, 1, n))
            /\ \E r \in Seq(Word) : /\ (t \o SubSeq(o, 1, n)) \o r = Out[x]
                                    /\ SubSeq(o, n + 1, Len(o)) = r \o AnswerOf(x)
         \/ SubSeq(o, n + 1, Len(o)) = <<>>
<1>1. CASE /\ n \in 1..Len(rest) /\ rest[n] = NL
           /\ SubSeq(o, 1, n) = SubSeq(rest, 1, n)
           /\ SubSeq(o, n + 1, Len(o)) = SubSeq(rest, n + 1, Len(rest)) \o AnswerOf(x)
  <2>1. n \in 0..Len(rest) /\ n >= 1
    BY <1>1
  <2>2. /\ SubSeq(rest, n + 1, Len(rest)) \in Seq(Word)
        /\ (t \o SubSeq(rest, 1, n)) \o SubSeq(rest, n + 1, Len(rest)) = t \o rest
        /\ LineEnd(t \o SubSeq(rest, 1, n))
    BY <1>1, <2>1, ReadKeepsWhole, Zenon
  <2> QED
    BY <1>1, <2>2, Zenon
<1>2. CASE SubSeq(o, n + 1, Len(o)) = <<>>
  BY <1>2
<1> QED
  BY <1>1, <1>2, LineOfAnswer, Zenon

\* What is left to read after the next line.
Left(c) == SubSeq(output[c], EndOfLine(c) + 1, Len(output[c]))

\* Another line is read: the talk goes on.
LEMMA LineRead ==
  ASSUME ShellTypeOK, NEW c \in Conn, NEW x \in Command, NEW t \in Seq(Word),
         BeforeAnswer(c, x, t), Readable(c), output[c] # <<>>, output[c][1] # Term
  PROVE  \/ /\ input[c] = <<"echo">> /\ last[c] = Code[x]
            /\ (t \o Line(c)) \o Left(c) = Out[x]
            /\ LineEnd(t \o Line(c)) \/ process[c] = "down"
         \/ /\ input[c] = <<>> /\ LineEnd(t \o Line(c))
            /\ \E rest \in Seq(Word) : /\ (t \o Line(c)) \o rest = Out[x]
                                       /\ Left(c) = rest \o AnswerOf(x)
         \/ input[c] = <<>> /\ Left(c) = <<>>
<1> DEFINE n == EndOfLine(c)
           o == output[c]
<1>1. o \in Seq(Word)
  BY DEF ShellTypeOK
<1>2. /\ n \in 0..Len(o) /\ n >= 1 /\ n \in 1..Len(o)
      /\ Lines(c) # {} => o[n] = NL
      /\ Lines(c) = {} => process[c] = "down"
      /\ \A i \in 1..Len(o) : o[i] = NL => Lines(c) # {}
  BY <1>1, EndOfLineProperties DEF Readable
<1>3. Line(c) = SubSeq(o, 1, n) /\ Left(c) = SubSeq(o, n + 1, Len(o))
  BY DEF Line, Left
<1> HIDE DEF n, o
<1>4. /\ (t \o Line(c)) \o Left(c) = t \o o
      /\ o[n] = NL => LineEnd(t \o Line(c))
  <2>1. n \in 0..Len(o) /\ n >= 1
    BY <1>2
  <2>2. (t \o SubSeq(o, 1, n)) \o SubSeq(o, n + 1, Len(o)) = t \o o
    BY <1>1, <2>1, ReadKeepsWhole, Zenon
  <2>3. o[n] = NL => LineEnd(t \o SubSeq(o, 1, n))
    BY <1>1, <2>1, ReadKeepsWhole, Zenon
  <2> QED
    BY <1>3, <2>2, <2>3, Zenon
<1>5. ASSUME input[c] = <<"echo">>, last[c] = Code[x], t \o output[c] = Out[x]
      PROVE  /\ (t \o Line(c)) \o Left(c) = Out[x]
             /\ LineEnd(t \o Line(c)) \/ process[c] = "down"
  BY <1>2, <1>4, <1>5 DEF o
<1>6. ASSUME NEW rest \in Seq(Word), t \o rest = Out[x], o = rest \o AnswerOf(x)
      PROVE  \/ /\ LineEnd(t \o Line(c))
                /\ \E r \in Seq(Word) : /\ (t \o Line(c)) \o r = Out[x]
                                        /\ Left(c) = r \o AnswerOf(x)
             \/ Left(c) = <<>>
  <2>1. Len(rest) \in Nat
    OBVIOUS
  <2>2. Len(o) = Len(rest) + 3 /\ o[Len(rest) + 3] = NL
    BY <1>6, AnswerProperties, Zenon
  <2>3. Len(rest) + 3 \in 1..Len(o)
    BY <2>1, <2>2
  <2>4. o[n] = NL
    BY <1>2, <2>2, <2>3
  <2> QED
    BY <1>2, <1>3, <1>6, <2>4, LineBeforeAnswer, Zenon
<1> QED
  BY <1>5, <1>6 DEF BeforeAnswer, o

LEMMA ReadStep ==
  ASSUME ShellInv, NEW u \in User, Read(u)
  PROVE  ShellInv'
<1> USE ShellAssumption DEF Thread
<1> DEFINE c == ConnOf[u]
           l == Left(c)
<1>0. /\ at[u] = "read" /\ Readable(c)
      /\ output' = [output EXCEPT ![c] = l]
      /\ UNCHANGED <<io, lock, openList, process, input, last, cmd, calls, target>>
  BY DEF Read, Turn, Left
<1>1. /\ c \in Conn /\ cmd[u] \in Command /\ text[u] \in Seq(Word)
      /\ output[c] \in Seq(Word) /\ lock[c] = u /\ BeforeAnswer(c, cmd[u], text[u])
      /\ Code[cmd[u]] \in Word /\ u # Main
  BY <1>0, Parts, OneHolder DEF ShellTypeOK, Holding, Talk
<1>2. /\ EndOfLine(c) \in 0..Len(output[c])
      /\ l \in Seq(Word) /\ Line(c) \in Seq(Word) /\ text[u] \o Line(c) \in Seq(Word)
  <2>1. EndOfLine(c) \in 0..Len(output[c])
    BY <1>1, EndOfLineProperties
  <2> HIDE DEF c
  <2> QED
    BY <1>1, <2>1, ReadKeepsWhole DEF Line, Left
<1>3. \/ /\ output[c] = <<>> /\ process[c] = "down"
         /\ Goto(u, "eof") /\ UNCHANGED <<status, text>>
      \/ /\ output[c] # <<>> /\ output[c][1] = Term
         /\ status' = [status EXCEPT ![c] = Code[cmd[u]]]
         /\ Goto(u, "answered") /\ UNCHANGED text
         /\ input[c] = <<>> /\ l = <<>> /\ text[u] = Out[cmd[u]] /\ Finished(cmd[u])
      \/ /\ output[c] # <<>> /\ output[c][1] # Term
         /\ text' = [text EXCEPT ![u] = @ \o Line(c)] /\ UNCHANGED <<status, at>>
  <2>1. CASE output[c] = <<>>
    <3>1. Lines(c) = {}
      BY <2>1 DEF Lines
    <3> QED
      BY <1>0, <2>1, <3>1 DEF Read, Turn, Readable
  <2>2. CASE output[c] # <<>> /\ Head(output[c]) = Term
    <3>1. output[c][1] = Term
      BY <1>1, <2>2
    <3>2. /\ input[c] = <<>> /\ l = <<>> /\ text[u] = Out[cmd[u]] /\ Finished(cmd[u])
          /\ output[c][2] = Code[cmd[u]]
      BY <1>1, <2>2, <3>1, Parts, AnswerRead DEF Left
    <3> QED
      BY <2>2, <3>1, <3>2 DEF Read, Turn
  <2>3. CASE output[c] # <<>> /\ Head(output[c]) # Term
    BY <1>1, <2>3 DEF Read, Turn
  <2> QED
    BY <2>1, <2>2, <2>3
<1>4. output[c] # <<>> /\ output[c][1] # Term =>
        \/ /\ input[c] = <<"echo">> /\ last[c] = Code[cmd[u]]
           /\ (text[u] \o Line(c)) \o l = Out[cmd[u]]
           /\ LineEnd(text[u] \o Line(c)) \/ process[c] = "down"
        \/ /\ input[c] = <<>> /\ LineEnd(text[u] \o Line(c))
           /\ \E rest \in Seq(Word) : /\ (text[u] \o Line(c)) \o rest = Out[cmd[u]]
                                      /\ l = rest \o AnswerOf(cmd[u])
        \/ input[c] = <<>> /\ l = <<>>
  <2>1. /\ ShellTypeOK /\ Readable(c) /\ c \in Conn /\ cmd[u] \in Command
        /\ text[u] \in Seq(Word) /\ BeforeAnswer(c, cmd[u], text[u])
    BY <1>0, <1>1, Parts
  <2> HIDE DEF c
  <2> QED
    BY <2>1, LineRead, Zenon
<1> HIDE DEF l
<1>5. /\ \A w \in Thread : w # u => at'[w] = at[w]
      /\ at'[u] \in {"read", "eof", "answered"}
      /\ \A w \in User : w # u => text'[w] = text[w]
      /\ \A d \in Conn : d # c => status'[d] = status[d] /\ output'[d] = output[d]
      /\ output'[c] = l
  BY <1>0, <1>1, <1>3, Parts DEF ShellTypeOK, Goto
<1>6. ShellTypeOK'
  <2>1. output' \in [Conn -> Seq(Word)] /\ status' \in [Conn -> Word]
    BY <1>0, <1>1, <1>2, <1>3, Parts DEF ShellTypeOK
  <2>2. text' \in [User -> Seq(Word)]
    BY <1>2, <1>3, Parts DEF ShellTypeOK
  <2>3. at' \in [Thread -> UserPlace \cup MainPlace]
    BY <1>1, <1>3, Parts DEF ShellTypeOK, Goto, UserPlace
  <2>4. at'[Main] \in MainPlace /\ \A v \in User : at'[v] \in UserPlace
    BY <1>1, <1>5, Parts DEF ShellTypeOK, UserPlace
  <2> QED
    BY <1>0, <2>1, <2>2, <2>3, <2>4, Parts DEF ShellTypeOK
<1>7. Locks'
  <2>1. \A v \in Thread : at'[v] \in Holding <=> at[v] \in Holding
    BY <1>0, <1>5 DEF Holding
  <2> QED
    BY <1>0, <2>1, LocksKept
<1>8. ASSUME NEW w \in User PROVE Talk(w)'
  <2>1. CASE w # u
    <3>1. at[w] \in Holding => ConnOf[w] # c
      BY <1>1, <2>1, OneHolder
    <3> QED
      BY <1>0, <1>5, <2>1, <3>1, TalkKept, Parts
  <2>2. CASE w = u /\ output[c] = <<>>
    <3>1. at'[u] = "eof"
      BY <1>1, <1>3, <2>2, Parts DEF Goto, ShellTypeOK
    <3> QED
      BY <1>0, <1>3, <2>2, <3>1 DEF Talk
  <2>3. CASE w = u /\ output[c] # <<>> /\ output[c][1] = Term
    <3>1. at'[u] = "answered" /\ status'[c] = Code[cmd[u]]
      BY <1>1, <1>3, <2>3, Parts DEF Goto, ShellTypeOK
    <3> QED
      BY <1>0, <1>3, <1>5, <2>3, <3>1 DEF Talk
  <2>4. CASE w = u /\ output[c] # <<>> /\ output[c][1] # Term
    <3>1. at'[u] = "read" /\ text'[u] = text[u] \o Line(c)
      BY <1>0, <1>3, <2>4, Parts DEF ShellTypeOK
    <3>2. BeforeAnswer(c, cmd[u], text[u])'
      BY <1>0, <1>4, <1>5, <2>4, <3>1 DEF BeforeAnswer
    <3> QED
      BY <2>4, <3>1, <3>2 DEF Talk
  <2> QED
    BY <2>1, <2>2, <2>3, <2>4
<1>9. ASSUME NEW d \in Conn PROVE Rests(d)'
  <2>1. CASE d # c
    <3>1. lock[d] # NoThread => lock[d] # u
      BY <1>0, <1>1, <2>1, Parts DEF Locks, On
    <3>2. lock[d] # NoThread => lock[d] \in Thread
      BY Parts DEF ShellTypeOK
    <3> QED
      BY <1>0, <1>5, <2>1, <3>1, <3>2, RestsKept, Parts
  <2>2. CASE d = c
    BY <1>0, <1>1, <1>5, <2>2, Parts DEF Rests
  <2> QED
    BY <2>1, <2>2
<1>10. Ends'
  BY <1>0, <1>1, <1>5, EndsKept
<1>11. Started' /\ Results'
  <2>1. Started'
    BY <1>0, <1>5, Parts DEF Started, Connected
  <2>2. ASSUME NEW w \in User, at'[w] = "result", Sole(w)
        PROVE  status'[ConnOf[w]] = Code[cmd'[w]]
    <3>1. w # u /\ at[w] = "result"
      BY <1>5, <2>2
    <3>2. ConnOf[w] # c
      BY <2>2, <3>1 DEF Sole
    <3> QED
      BY <1>0, <1>5, <2>2, <3>1, <3>2, Parts DEF Results
  <2> QED
    BY <2>1, <2>2 DEF Results, Sole
<1> QED
  BY <1>6, <1>7, <1>8, <1>9, <1>10, <1>11 DEF ShellInv

-----------------------------------------------------------------------------
(* Closing, and the END block.                                              *)

\* A thread about to close a connection, or closing it, is at one of them.
LEMMA AtConn ==
  ASSUME ShellInv, NEW v \in Thread, Closing(v) \/ at[v] = "close"
  PROVE  /\ On(v) \in Conn
         /\ Closing(v) => at[v] \notin Holding /\ at[v] \notin {"run", "end", "done"}
         /\ v = Main => /\ at[Main] \in {"enter", "close"} /\ Len(target) \in 1..Len(target)
                        /\ On(v) = target[Len(target)]
         /\ v # Main => v \in User
<1>1. v \in User \/ at[v] \in {"enter", "close"}
  BY DEF Closing, Thread
<1>2. Closing(v) => at[v] \notin Holding /\ at[v] \notin {"run", "end", "done"}
  BY DEF Closing, Holding
<1>3. v = Main => at[Main] \in {"enter", "close"}
  BY DEF Closing
<1> QED
  BY <1>1, <1>2, <1>3, OnConn DEF Thread

LEMMA CloseExitStep ==
  ASSUME ShellInv, NEW v \in Thread, CloseExit(v)
  PROVE  ShellInv'
<1> USE ShellAssumption DEF Thread
<1> DEFINE c == On(v)
<1>1. /\ c \in Conn /\ at[v] \notin Holding
      /\ v = Main => at[Main] = "enter"
      /\ v # Main => v \in User /\ at[v] \in {"idle", "failed"}
  BY AtConn DEF CloseExit, Closing
<1>2. /\ lock[c] = NoThread /\ io[c] = "open" /\ process[c] = "up" /\ Connected
      /\ input' = [input EXCEPT ![c] = Append(@, "exit")]
      /\ lock' = [lock EXCEPT ![c] = v]
      /\ at' = [at EXCEPT ![v] = "close"]
      /\ UNCHANGED <<io, status, openList, process, output, last, cmd, calls, text,
                     target>>
  BY DEF CloseExit, WriteExit, Writable, Send, Goto
<1>3. ShellTypeOK'
  <2>1. input' \in [Conn -> Seq(Command \cup {"echo", "exit"})]
    BY <1>1, <1>2, Parts DEF ShellTypeOK
  <2>2. /\ at' \in [Thread -> UserPlace \cup MainPlace]
        /\ at'[Main] \in MainPlace /\ \A u \in User : at'[u] \in UserPlace
    BY <1>2, Parts DEF ShellTypeOK, UserPlace, MainPlace
  <2>3. lock' \in [Conn -> Thread \cup {NoThread}]
    BY <1>2, Parts DEF ShellTypeOK
  <2> QED
    BY <1>2, <2>1, <2>2, <2>3, Parts DEF ShellTypeOK
<1>4. Locks'
  BY <1>1, <1>2, LockTaken DEF Holding
<1>5. /\ \A w \in Thread : w # v => at'[w] = at[w]
      /\ at'[v] = "close"
      /\ \A d \in Conn : d # c => input'[d] = input[d] /\ lock'[d] = lock[d]
      /\ lock'[c] = v
  BY <1>1, <1>2, Parts DEF ShellTypeOK
<1>6. ASSUME NEW w \in User PROVE Talk(w)'
  <2>1. CASE w = v
    BY <1>5, <2>1 DEF Talk
  <2>2. CASE w # v
    <3>1. at[w] \in Holding => ConnOf[w] # c
      BY <1>2, OneHolder
    <3> QED
      BY <1>2, <1>5, <2>2, <3>1, TalkKept, Parts
  <2> QED
    BY <2>1, <2>2
<1>7. ASSUME NEW d \in Conn PROVE Rests(d)'
  <2>1. CASE d # c
    <3>1. lock[d] # NoThread => lock[d] # v /\ lock[d] \in Thread
      BY <2>1, Parts DEF Locks, ShellTypeOK
    <3> QED
      BY <1>2, <1>5, <2>1, <3>1, RestsKept, Parts
  <2>2. CASE d = c
    <3>1. input[c] = <<>>
      BY <1>1, <1>2, Parts DEF Rests
    <3>2. input'[c] = <<"exit">>
      BY <1>1, <1>2, <3>1, Parts DEF ShellTypeOK
    <3> QED
      BY <1>1, <1>2, <1>5, <2>2, <3>2, Parts DEF Rests
  <2> QED
    BY <2>1, <2>2
<1>8. Ends'
  <2>1. CASE v = Main
    BY <1>1, <1>2, <1>5, <2>1, Parts DEF Ends
  <2>2. CASE v # Main
    BY <1>2, <1>5, <2>2, EndsKept
  <2> QED
    BY <2>1, <2>2
<1>9. Started' /\ Results'
  BY <1>2, <1>5, Parts DEF Started, Connected, Results, Sole
<1> QED
  BY <1>3, <1>4, <1>6, <1>7, <1>8, <1>9 DEF ShellInv

LEMMA CloseWaitStep ==
  ASSUME ShellInv, NEW v \in Thread, CloseWait(v)
  PROVE  ShellInv'
<1> USE ShellAssumption DEF Thread
<1> DEFINE c == On(v)
           p == IF v = Main THEN "end" ELSE "gone"
<1>1. /\ at[v] = "close" /\ process[c] = "down"
      /\ io' = [io EXCEPT ![c] = "closed"]
      /\ openList' = openList \ {c}
      /\ lock' = [lock EXCEPT ![c] = NoThread]
      /\ at' = [at EXCEPT ![v] = p]
      /\ UNCHANGED <<status, process, input, output, last, cmd, calls, text, target>>
  BY DEF CloseWait, Closed, Goto, pvars
<1>2. /\ c \in Conn /\ lock[c] = v /\ at[v] \in Holding /\ p \notin Holding
      /\ v = Main => /\ Len(target) \in 1..Len(target) /\ c = target[Len(target)]
      /\ v # Main => v \in User
  BY <1>1, AtConn, Parts DEF Locks, Holding
<1>3. ShellTypeOK'
  <2>1. /\ at' \in [Thread -> UserPlace \cup MainPlace]
        /\ at'[Main] \in MainPlace /\ \A u \in User : at'[u] \in UserPlace
    BY <1>1, Parts DEF ShellTypeOK, UserPlace, MainPlace
  <2>2. /\ lock' \in [Conn -> Thread \cup {NoThread}]
        /\ io' \in [Conn -> {"new", "open", "closed"}] /\ openList' \subseteq Conn
    BY <1>1, Parts DEF ShellTypeOK
  <2> QED
    BY <1>1, <2>1, <2>2, Parts DEF ShellTypeOK
<1>4. Locks'
  BY <1>1, <1>2, LockReleased
<1>5. /\ \A w \in Thread : w # v => at'[w] = at[w]
      /\ at'[v] = p
      /\ \A d \in Conn : d # c => io'[d] = io[d] /\ lock'[d] = lock[d]
      /\ io'[c] = "closed" /\ lock'[c] = NoThread
  BY <1>1, <1>2, Parts DEF ShellTypeOK
<1>6. ASSUME NEW w \in User PROVE Talk(w)'
  <2>1. CASE w = v
    BY <1>5, <2>1 DEF Talk
  <2>2. CASE w # v
    BY <1>1, <1>5, <2>2, TalkKept, Parts
  <2> QED
    BY <2>1, <2>2
<1>7. ASSUME NEW d \in Conn PROVE Rests(d)'
  <2>1. CASE d # c
    <3>1. lock[d] # NoThread => lock[d] # v /\ lock[d] \in Thread
      BY <2>1, Parts DEF Locks, ShellTypeOK
    <3> QED
      BY <1>1, <1>5, <2>1, <3>1, RestsKept, Parts
  <2>2. CASE d = c
    BY <1>1, <1>2, <1>5, <2>2, Parts DEF Rests
  <2> QED
    BY <2>1, <2>2
<1>8. Ends'
  <2>1. \A d \in Conn : io[d] = "closed" => io'[d] = "closed"
    BY <1>5
  <2>2. CASE v = Main
    <3>1. at[Main] = "close" /\ at'[Main] = "end"
      BY <1>1, <1>5, <2>2
    <3>2. \A i \in 1..Len(target) : target[i] \in Conn
      BY Parts DEF ShellTypeOK
    <3>3. \A i \in 1..Len(target) : io'[target[i]] = "closed"
      <4>1. \A i \in 1..(Len(target) - 1) : io[target[i]] = "closed"
        BY <3>1, Parts DEF Ends
      <4> SUFFICES ASSUME NEW i \in 1..Len(target) PROVE io'[target[i]] = "closed"
        OBVIOUS
      <4>2. i = Len(target) \/ i \in 1..(Len(target) - 1)
        BY <1>2, <2>2
      <4> QED
        BY <1>2, <1>5, <2>1, <2>2, <3>2, <4>1, <4>2
    <3> QED
      BY <1>1, <3>1, <3>3 DEF Ends
  <2>3. CASE v # Main
    BY <1>1, <1>5, <2>1, <2>3, EndsKept
  <2> QED
    BY <2>2, <2>3
<1>9. Started'
  BY <1>1, <1>2, <1>5, Parts DEF Started, Connected
<1>10. Results'
  BY <1>1, <1>5, Parts DEF Results, Sole
<1> QED
  BY <1>3, <1>4, <1>6, <1>7, <1>8, <1>9, <1>10 DEF ShellInv

LEMMA CloseLateStep ==
  ASSUME ShellInv, NEW v \in Thread, CloseLate(v)
  PROVE  ShellInv'
<1> USE ShellAssumption DEF Thread
<1> DEFINE c == On(v)
<1>1. PICK p \in {"end", "gone", "failed"} :
        /\ at' = [at EXCEPT ![v] = p]
        /\ v = Main => p \in {"end", "failed"} /\ (p = "end" => io[c] = "closed")
        /\ v # Main => p = "gone"
  BY DEF CloseLate, Closed, Goto
<1>2. /\ Connected /\ lock[c] = NoThread
      /\ \/ openList' = openList
         \/ io[c] = "closed" /\ openList' = openList \ {c}
      /\ UNCHANGED <<io, status, lock, process, input, output, last, cmd, calls, text,
                     target>>
  BY DEF CloseLate, pvars
<1>3. /\ c \in Conn /\ at[v] \notin Holding /\ p \notin Holding
      /\ v = Main => /\ at[Main] = "enter"
                     /\ Len(target) \in 1..Len(target) /\ c = target[Len(target)]
      /\ v # Main => v \in User
  BY AtConn DEF CloseLate, Closing, Holding
<1>4. ShellTypeOK'
  <2>1. at' \in [Thread -> UserPlace \cup MainPlace]
    BY <1>1, Parts DEF ShellTypeOK, UserPlace, MainPlace
  <2>2. at'[Main] \in MainPlace /\ \A u \in User : at'[u] \in UserPlace
    BY <1>1, Parts DEF ShellTypeOK, UserPlace, MainPlace
  <2> QED
    BY <1>2, <2>1, <2>2, Parts DEF ShellTypeOK
<1>5. (\A w \in Thread : w # v => at'[w] = at[w]) /\ at'[v] = p
  BY <1>1, Parts DEF ShellTypeOK
<1>6. Locks'
  BY <1>2, <1>3, <1>5, LocksKept
<1>7. ASSUME NEW w \in User PROVE Talk(w)'
  <2>1. CASE w = v
    BY <1>1, <1>5, <2>1 DEF Talk
  <2>2. CASE w # v
    BY <1>2, <1>5, <2>2, TalkKept, Parts
  <2> QED
    BY <2>1, <2>2
<1>8. ASSUME NEW d \in Conn PROVE Rests(d)'
  <2>1. lock[d] # NoThread => lock[d] # v /\ lock[d] \in Thread
    BY <1>3, Parts DEF Locks, ShellTypeOK
  <2>2. CASE d # c \/ openList' = openList
    BY <1>2, <1>5, <2>1, <2>2, RestsKept, Parts
  <2>3. CASE d = c /\ io[c] = "closed"
    BY <1>2, <1>5, <2>1, <2>3, Parts DEF Rests
  <2> QED
    BY <1>2, <2>2, <2>3
<1>9. Ends'
  <2>1. CASE v = Main
    <3>1. p = "end" => \A i \in 1..Len(target) : io[target[i]] = "closed"
      <4>1. \A i \in 1..(Len(target) - 1) : io[target[i]] = "closed"
        BY <1>3, <2>1, Parts DEF Ends
      <4> SUFFICES ASSUME p = "end", NEW i \in 1..Len(target)
                   PROVE  io[target[i]] = "closed"
        OBVIOUS
      <4>2. i = Len(target) \/ i \in 1..(Len(target) - 1)
        BY <1>3, <2>1
      <4> QED
        BY <1>1, <1>3, <2>1, <4>1, <4>2
    <3> QED
      BY <1>1, <1>2, <1>5, <2>1, <3>1 DEF Ends
  <2>2. CASE v # Main
    BY <1>2, <1>5, <2>2, EndsKept
  <2> QED
    BY <2>1, <2>2
<1>10. Started' /\ Results'
  BY <1>1, <1>2, <1>5, Parts DEF Started, Connected, Results, Sole
<1> QED
  BY <1>4, <1>6, <1>7, <1>8, <1>9, <1>10 DEF ShellInv

\* The main thread moves on, between connections.
LEMMA MainStep ==
  ASSUME ShellInv, Connected, NEW p \in MainPlace, p # "close",
         at[Main] \in {"run", "end"}, at' = [at EXCEPT ![Main] = p],
         target' \in Seq(Conn), Ends', UNCHANGED <<cvars, pvars, cmd, calls, text>>
  PROVE  ShellInv'
<1> USE ShellAssumption DEF Thread, cvars, pvars
<1>1. (\A w \in Thread : w # Main => at'[w] = at[w]) /\ at'[Main] = p
  BY Parts DEF ShellTypeOK
<1>2. at[Main] \notin Holding /\ p \notin Holding
  BY DEF Holding, MainPlace
<1>3. ShellTypeOK'
  <2>1. at' \in [Thread -> UserPlace \cup MainPlace]
    BY Parts DEF ShellTypeOK
  <2>2. at'[Main] \in MainPlace /\ \A u \in User : at'[u] \in UserPlace
    BY <1>1, Parts DEF ShellTypeOK
  <2> QED
    BY <2>1, <2>2, Parts DEF ShellTypeOK
<1>4. Locks'
  BY <1>1, <1>2, LocksKept
<1>5. \A w \in User : Talk(w)'
  BY <1>1, TalkKept, Parts
<1>6. ASSUME NEW d \in Conn PROVE Rests(d)'
  <2>1. lock[d] # NoThread => lock[d] # Main /\ lock[d] \in Thread
    BY <1>2, Parts DEF Locks, ShellTypeOK
  <2> QED
    BY <1>1, <2>1, RestsKept, Parts
<1>7. Started' /\ Results'
  BY <1>1, Parts DEF Started, Connected, Results, Sole
<1> QED
  BY <1>3, <1>4, <1>5, <1>6, <1>7 DEF ShellInv

LEMMA ExitStep ==
  ASSUME ShellInv, Exit
  PROVE  ShellInv'
<1>1. /\ Connected /\ at[Main] = "run" /\ at' = [at EXCEPT ![Main] = "end"]
      /\ UNCHANGED <<cvars, pvars, cmd, calls, text, target>>
  BY DEF Exit, Goto
<1>2. at'[Main] = "end" /\ target = <<>> /\ "end" \in MainPlace
  BY <1>1, Parts DEF ShellTypeOK, Ends, MainPlace, Thread
<1>3. Ends'
  BY <1>1, <1>2 DEF Ends
<1> QED
  BY <1>1, <1>2, <1>3, MainStep, Parts DEF ShellTypeOK

LEMMA EndEachStep ==
  ASSUME ShellInv, EndEach
  PROVE  ShellInv'
<1>1. at[Main] = "end" /\ UNCHANGED <<cvars, pvars, cmd, calls, text>>
      /\ target \in Seq(Conn) /\ openList \subseteq Conn
      /\ Connected
      /\ \A i \in 1..Len(target) : io[target[i]] = "closed"
  BY Parts DEF EndEach, ShellTypeOK, Ends, Started, Thread
<1>2. CASE /\ openList \subseteq ToSet(target)
           /\ Goto(Main, "done") /\ UNCHANGED target
  <2>1. at'[Main] = "done" /\ "done" \in MainPlace
    BY <1>2, Parts DEF ShellTypeOK, Goto, MainPlace, Thread
  <2>2. Ends'
    BY <1>1, <1>2, <2>1 DEF Ends, cvars
  <2>3. target' \in Seq(Conn) /\ at' = [at EXCEPT ![Main] = "done"]
    BY <1>1, <1>2 DEF Goto
  <2> QED
    BY <1>1, <2>1, <2>2, <2>3, MainStep
<1>3. ASSUME NEW c \in openList, target' = Append(target, c), Goto(Main, "enter")
      PROVE  ShellInv'
  <2>1. at'[Main] = "enter" /\ "enter" \in MainPlace
    BY <1>3, Parts DEF ShellTypeOK, Goto, MainPlace, Thread
  <2>2. /\ target' \in Seq(Conn) /\ target' # <<>> /\ Len(target') = Len(target) + 1
        /\ \A i \in 1..Len(target) : target'[i] = target[i]
    BY <1>1, <1>3
  <2>3. \A i \in 1..(Len(target') - 1) : io[target'[i]] = "closed"
    BY <1>1, <2>2
  <2>4. Ends'
    BY <1>1, <2>1, <2>2, <2>3 DEF Ends, cvars
  <2>5. target' \in Seq(Conn) /\ at' = [at EXCEPT ![Main] = "enter"]
    BY <1>3, <2>2 DEF Goto
  <2> QED
    BY <1>1, <2>1, <2>4, <2>5, MainStep
<1> QED
  BY <1>2, <1>3 DEF EndEach

LEMMA StutterStep ==
  ASSUME ShellInv, UNCHANGED svars
  PROVE  ShellInv'
<1> USE DEF svars, cvars, pvars, uvars
<1>1. ShellTypeOK' /\ Started' /\ Results'
  BY Parts DEF ShellTypeOK, Started, Connected, Results, Sole
<1>2. Locks'
  BY LocksKept
<1>3. (\A w \in User : Talk(w)') /\ \A d \in Conn : Rests(d)'
  BY TalkKept, RestsKept, Parts
<1>4. Ends'
  BY EndsKept
<1> QED
  BY <1>1, <1>2, <1>3, <1>4 DEF ShellInv

-----------------------------------------------------------------------------
(* However threads share the connections, the lock of each goes with what   *)
(* its shell was written and has printed, through every read, close and     *)
(* loss.                                                                    *)
THEOREM ShellInvariant == ShellSpec => []ShellInv
<1> USE ShellAssumption DEF Thread
<1>1. ShellInit => ShellInv
  <2> SUFFICES ASSUME ShellInit PROVE ShellInv
    OBVIOUS
  <2>1. ShellTypeOK
    <3>1. at \in [Thread -> UserPlace \cup MainPlace]
      BY DEF ShellInit, UserPlace, MainPlace
    <3>2. at[Main] \in MainPlace /\ \A u \in User : at[u] \in UserPlace
      BY DEF ShellInit, UserPlace, MainPlace
    <3>3. cmd \in [User -> Command]
      BY DEF ShellInit
    <3>4. text \in [User -> Seq(Word)] /\ output \in [Conn -> Seq(Word)]
      BY DEF ShellInit
    <3> QED
      BY <3>1, <3>2, <3>3, <3>4 DEF ShellInit, ShellTypeOK
  <2>2. Locks
    BY DEF ShellInit, Locks, Holding, On
  <2>3. \A u \in User : Talk(u)
    BY DEF ShellInit, Talk
  <2>4. \A c \in Conn : Rests(c)
    BY DEF ShellInit, Rests
  <2>5. Ends
    BY DEF ShellInit, Ends
  <2>6. Started /\ Results
    BY DEF ShellInit, Started, Results
  <2> QED
    BY <2>1, <2>2, <2>3, <2>4, <2>5, <2>6 DEF ShellInv
<1>2. ShellInv /\ [ShellNext]_svars => ShellInv'
  <2> SUFFICES ASSUME ShellInv, [ShellNext]_svars PROVE ShellInv'
    OBVIOUS
  <2>1. CASE UNCHANGED svars
    BY <2>1, StutterStep
  <2>2. ASSUME NEW c \in Conn, Open(c) \/ Run(c) \/ Lose(c) PROVE ShellInv'
    BY <2>2, OpenStep, RunStep, LoseStep
  <2>3. ASSUME NEW v \in Thread, Close(v) PROVE ShellInv'
    BY <2>3, CloseExitStep, CloseWaitStep, CloseLateStep DEF Close
  <2>4. ASSUME NEW u \in User, UserNext(u) PROVE ShellInv'
    <3>1. ASSUME NEW x \in Command, Begin(u, x) PROVE ShellInv'
      BY <3>1, BeginStep
    <3>2. CASE Refused(u) \/ Echo(u) \/ Read(u) \/ Unlock(u) \/ Result(u)
      BY <3>2, RefusedStep, EchoStep, ReadStep, UnlockStep, ResultStep
    <3> QED
      BY <2>3, <2>4, <3>1, <3>2 DEF UserNext
  <2>5. CASE Exit \/ EndNext
    BY <2>3, <2>5, ExitStep, EndEachStep DEF EndNext
  <2> QED
    BY <2>1, <2>2, <2>4, <2>5 DEF ShellNext, ProcessNext
<1> QED
  BY <1>1, <1>2, PTL DEF ShellSpec

(* What a call returns is its own: whoever shares the connection or closes  *)
(* it, a call that has read its terminator has read the whole output of its *)
(* command and nothing else (_get, _get_output), and @status is the status  *)
(* of its command, also after the lock is released if nobody else runs      *)
(* commands on the connection.                                              *)
THEOREM CallsGetTheirOwnAnswer == ShellSpec => []OwnAnswer
<1>1. ShellInv => OwnAnswer
  BY DEF ShellInv, OwnAnswer, Talk, Results
<1> QED
  BY <1>1, ShellInvariant, PTL

(* @lock keeps close away from a call: unless the connection was lost, its  *)
(* shell is up and its pipe open from the command to the answer.            *)
THEOREM CallsAreNotCutShort == ShellSpec => []NotCutShort
<1>1. ShellInv => NotCutShort
  <2> SUFFICES ASSUME ShellInv, NEW u \in User, at[u] \in {"echo", "read"},
                      ConnOf[u] \notin Mortal
               PROVE  process[ConnOf[u]] = "up" /\ io[ConnOf[u]] = "open"
    BY DEF NotCutShort
  <2>1. lock[ConnOf[u]] = u /\ u # NoThread /\ ConnOf[u] \in Conn
    BY OneHolder, ShellAssumption DEF Holding, Thread
  <2> QED
    BY <2>1, Parts DEF ShellTypeOK, Rests
<1> QED
  BY <1>1, ShellInvariant, PTL

(* After the END block no connection is left open, those included that      *)
(* their workers were closing while it ran.                                 *)
THEOREM TheEndBlockClosesAll == ShellSpec => []EndCloses
<1>1. ShellInv => EndCloses
  <2> SUFFICES ASSUME ShellInv, at[Main] = "done", NEW c \in Conn
               PROVE  io[c] = "closed"
    BY DEF EndCloses
  <2>1. io[c] \in {"open", "closed"} /\ openList \subseteq ToSet(target)
    BY Parts DEF ShellTypeOK, Ends, Started, Connected, Thread
  <2>2. CASE io[c] = "open"
    <3>1. c \in ToSet(target)
      BY <2>1, <2>2, Parts DEF Rests
    <3>2. PICK i \in 1..Len(target) : target[i] = c
      <4>1. target \in Seq(Conn)
        BY Parts DEF ShellTypeOK
      <4> QED
        BY <3>1, <4>1 DEF ToSet
    <3> QED
      BY <3>2, Parts DEF Ends
  <2> QED
    BY <2>1, <2>2
<1> QED
  BY <1>1, ShellInvariant, PTL

-----------------------------------------------------------------------------
(* @core_list.                                                              *)

HostsTypeOK ==
  /\ file \in Seq(HostLine)
  /\ phase \in {"setup", "read", "deal", "done"}
  /\ pos \in Nat \ {0}
  /\ tmplist \in Seq(Seq(Nat))
  /\ sz \in Nat

\* The lines up to i that name a host, in order.
Named(ls, i) ==
  /\ ls \in Seq(Nat)
  /\ \A p, q \in 1..Len(ls) : p < q => ls[p] < ls[q]
  /\ \A p \in 1..Len(ls) : ls[p] \in 1..i /\ file[ls[p]].host
  /\ \A l \in 1..i : file[l].host => \E p \in 1..Len(ls) : ls[p] = l

\* The entry of tmplist for the host of line x.
Cores(x) == [k \in 1..Ncore(x) |-> x]

\* tmplist while the file is read.
Collected(ls) ==
  /\ Named(ls, pos - 1) /\ pos <= Len(file) + 1
  /\ Len(tmplist) = Len(ls)
  /\ \A p \in 1..Len(ls) : tmplist[p] = Cores(ls[p])

Lesser(m, n) == IF m <= n THEN m ELSE n

\* How many cores of the host at p are in @core_list, in round r.
Taken(ls, r, p) == Lesser(IF p < pos THEN r + 1 ELSE r, Ncore(ls[p]))

Count(x) == Cardinality(Places(x, Len(coreList)))

\* In round r every host has an entry for each round before, unless it has fewer cores, and
\* those before pos have one more.
Dealt(ls, r) ==
  /\ Named(ls, Len(file)) /\ coreList \in Seq(Nat)
  /\ Len(tmplist) = Len(ls) /\ pos <= Len(ls) + 1
  /\ \A p \in 1..Len(ls) :
       /\ Len(tmplist[p]) = Ncore(ls[p]) - Taken(ls, r, p)
       /\ \A k \in 1..Len(tmplist[p]) : tmplist[p][k] = ls[p]
       /\ Count(ls[p]) = Taken(ls, r, p)
  /\ \A i \in 1..Len(coreList) :
       /\ \E p \in 1..Len(ls) : coreList[i] = ls[p]
       /\ Lap(i) <= r + 1
       /\ Lap(i) = r + 1 => \E p \in 1..Len(ls) : p < pos /\ coreList[i] = ls[p]
  /\ sz = 0 => \A p \in 1..Len(ls) : p < pos => tmplist[p] = <<>>

Ordered == \A i, j \in 1..Len(coreList) : i < j =>
              \/ Lap(i) < Lap(j)
              \/ Lap(i) = Lap(j) /\ coreList[i] < coreList[j]

HostsInv ==
  /\ HostsTypeOK /\ Ordered
  /\ phase \in {"setup", "read"} => coreList = <<>>
  /\ phase = "setup" => pos = 1 /\ tmplist = <<>>
  /\ phase \in {"read", "deal"} => hostfile
  /\ phase = "read" => \E ls \in Seq(Nat) : Collected(ls)
  /\ phase = "deal" => \E ls \in Seq(Nat), r \in Nat : Dealt(ls, r)
  /\ Alternating

LEMMA NcoreType ==
  ASSUME HostsTypeOK, NEW i \in 1..Len(file)
  PROVE  Ncore(i) \in Nat
<1>1. file[i] \in HostLine
  BY DEF HostsTypeOK
<1>2. file[i].ncore \in Seq(Nat)
  BY <1>1 DEF HostLine
<1> QED
  BY <1>2 DEF Ncore

\* The positions of x in s, when an entry is added.
In(s, x, i) == {j \in 1..i : s[j] = x}

LEMMA InIs ==
  ASSUME NEW s, NEW x, NEW i \in Nat
  PROVE  IsFiniteSet(In(s, x, i)) /\ Cardinality(In(s, x, i)) \in Nat
<1>1. IsFiniteSet(1..i)
  BY FS_Interval
<1>2. In(s, x, i) \subseteq 1..i
  BY DEF In
<1>3. IsFiniteSet(In(s, x, i))
  BY <1>1, <1>2, FS_Subset
<1> QED
  BY <1>3, FS_CardinalityType

LEMMA InAppended ==
  ASSUME NEW s \in Seq(Nat), NEW y \in Nat
  PROVE  /\ \A x, i : i \in 1..Len(s) => In(Append(s, y), x, i) = In(s, x, i)
         /\ \A x : Cardinality(In(Append(s, y), x, Len(s) + 1))
                     = IF x = y THEN Cardinality(In(s, x, Len(s))) + 1
                       ELSE Cardinality(In(s, x, Len(s)))
<1>0. PICK t, n : t = Append(s, y) /\ n = Len(s)
  OBVIOUS
<1>1. Len(t) = n + 1 /\ n \in Nat /\ (\A i \in 1..n : t[i] = s[i]) /\ t[n + 1] = y
  BY <1>0
<1>2. \A x, i : i \in 1..n => In(t, x, i) = In(s, x, i)
  BY <1>1 DEF In
<1>3. \A x : Cardinality(In(t, x, n + 1))
               = IF x = y THEN Cardinality(In(s, x, n)) + 1 ELSE Cardinality(In(s, x, n))
  <2> TAKE x
  <2>1. In(t, x, n + 1) = IF x = y THEN In(s, x, n) \cup {n + 1} ELSE In(s, x, n)
    <3>1. \A j \in 1..n + 1 : j \in 1..n \/ j = n + 1
      BY <1>1
    <3>2. \A j \in 1..n : j \in 1..n + 1
      BY <1>1
    <3>3. n + 1 \in 1..n + 1
      BY <1>1
    <3> QED
      BY <1>1, <3>1, <3>2, <3>3 DEF In
  <2>2. IsFiniteSet(In(s, x, n)) /\ n + 1 \notin In(s, x, n)
    <3>1. n + 1 \notin 1..n
      BY <1>1
    <3> QED
      BY <1>1, <3>1, InIs DEF In
  <2>3. Cardinality(In(s, x, n) \cup {n + 1}) = Cardinality(In(s, x, n)) + 1
    BY <2>2, FS_AddElement
  <2> QED
    BY <2>1, <2>3
<1> QED
  BY <1>0, <1>2, <1>3

LEMMA PlacesAfter ==
  ASSUME coreList \in Seq(Nat), NEW y \in Nat, coreList' = Append(coreList, y),
         NEW n, n = Len(coreList)
  PROVE  /\ coreList' \in Seq(Nat) /\ Len(coreList') = n + 1
         /\ \A i \in 1..n : coreList'[i] = coreList[i] /\ Lap(i)' = Lap(i)
         /\ coreList'[n + 1] = y /\ \A i : i = n + 1 => Lap(i)' = Count(y) + 1
         /\ \A x : Count(x)' = IF x = y THEN Count(x) + 1 ELSE Count(x)
<1>1. /\ coreList' \in Seq(Nat) /\ Len(coreList') = n + 1 /\ n \in Nat
      /\ \A i \in 1..n : coreList'[i] = coreList[i]
      /\ coreList'[n + 1] = y
  OBVIOUS
<1>2. /\ \A i : Lap(i) = Cardinality(In(coreList, coreList[i], i))
      /\ \A i : Lap(i)' = Cardinality(In(coreList', coreList'[i], i))
      /\ \A x : Count(x) = Cardinality(In(coreList, x, n))
      /\ \A x : Count(x)' = Cardinality(In(coreList', x, n + 1))
  BY <1>1 DEF Lap, Count, Places, In
<1>3. /\ \A x, i : i \in 1..n => In(coreList', x, i) = In(coreList, x, i)
      /\ \A x : Cardinality(In(coreList', x, n + 1))
                 = IF x = y THEN Cardinality(In(coreList, x, n)) + 1
                   ELSE Cardinality(In(coreList, x, n))
  <2>1. PICK s, t : s = coreList /\ t = coreList'
    OBVIOUS
  <2>2. s \in Seq(Nat) /\ t = Append(s, y) /\ n = Len(s)
    BY <2>1
  <2>3. /\ \A x, i : i \in 1..n => In(t, x, i) = In(s, x, i)
        /\ \A x : Cardinality(In(t, x, n + 1))
                   = IF x = y THEN Cardinality(In(s, x, n)) + 1 ELSE Cardinality(In(s, x, n))
    <3>1. /\ \A x, i : i \in 1..Len(s) => In(Append(s, y), x, i) = In(s, x, i)
          /\ \A x : Cardinality(In(Append(s, y), x, Len(s) + 1))
                      = IF x = y THEN Cardinality(In(s, x, Len(s))) + 1
                        ELSE Cardinality(In(s, x, Len(s)))
      BY <2>2, InAppended
    <3> QED
      BY <2>2, <3>1
  <2> QED
    BY <2>1, <2>3
<1> HIDE DEF In
<1>4. \A x : Count(x)' = IF x = y THEN Count(x) + 1 ELSE Count(x)
  BY <1>2, <1>3
<1>5. \A i \in 1..n : Lap(i)' = Lap(i)
  BY <1>1, <1>2, <1>3
<1>6. \A i : i = n + 1 => Lap(i)' = Count(y) + 1
  BY <1>1, <1>2, <1>3
<1> QED
  BY <1>1, <1>4, <1>5, <1>6

LEMMA CountType ==
  ASSUME coreList \in Seq(Nat)
  PROVE  /\ \A x : Count(x) \in Nat
         /\ \A i \in 1..Len(coreList) : Lap(i) \in Nat
<1>1. Len(coreList) \in Nat
  OBVIOUS
<1>2. \A x, i : Places(x, i) = In(coreList, x, i)
  BY DEF Places, In
<1>3. \A x, i : i \in Nat => Cardinality(Places(x, i)) \in Nat
  BY <1>2, InIs
<1> QED
  BY <1>1, <1>3 DEF Count, Lap

LEMMA NamedStays ==
  ASSUME UNCHANGED file, NEW ls, NEW i, Named(ls, i)
  PROVE  Named(ls, i)'
BY DEF Named

LEMMA NcoreStays ==
  ASSUME UNCHANGED file, NEW i
  PROVE  Ncore(i)' = Ncore(i)
BY DEF Ncore

LEMMA CollectedNext ==
  ASSUME UNCHANGED file, NEW ls, NEW i \in Nat, Named(ls, i), pos' = i + 1, i <= Len(file),
         Len(file) \in Nat, Len(tmplist') = Len(ls),
         \A p \in 1..Len(ls) : tmplist'[p] = Cores(ls[p])
  PROVE  Collected(ls)'
<1>1. pos' - 1 = i /\ pos' <= Len(file') + 1
  OBVIOUS
<1>2. Named(ls, pos - 1)'
  BY <1>1 DEF Named
<1>3. \A x : Cores(x)' = Cores(x)
  BY DEF Cores, Ncore
<1> QED
  BY <1>1, <1>2, <1>3 DEF Collected

LEMMA NamedNcore ==
  ASSUME HostsTypeOK, NEW ls, NEW i \in 0..Len(file), Named(ls, i)
  PROVE  \A p \in 1..Len(ls) : ls[p] \in Nat /\ ls[p] \in 1..Len(file) /\ Ncore(ls[p]) \in Nat
<1>1. Len(file) \in Nat
  BY DEF HostsTypeOK
<1>2. \A p \in 1..Len(ls) : ls[p] \in 1..Len(file)
  BY <1>1 DEF Named
<1> QED
  BY <1>1, <1>2, NcoreType

LEMMA HostsInit ==
  ASSUME HInit
  PROVE  HostsInv
<1>1. file \in Seq(HostLine)
  BY FilesAssumption DEF HInit
<1>2. HostsTypeOK
  BY <1>1 DEF HInit, HostsTypeOK
<1>3. coreList = <<>> /\ 1..Len(coreList) = {}
  BY DEF HInit
<1>4. Ordered /\ Alternating
  BY <1>3 DEF HInit, Ordered, Alternating
<1> QED
  BY <1>2, <1>3, <1>4 DEF HInit, HostsInv

LEMMA NoFileKeeps ==
  ASSUME HostsInv, NoFile
  PROVE  HostsInv'
<1>1. HostsTypeOK'
  BY DEF HostsInv, HostsTypeOK, NoFile
<1>2. \A i, j \in 1..Len(coreList') : ~(i < j)
  BY DEF NoFile
<1>3. Ordered' /\ Alternating'
  BY <1>2 DEF NoFile, Ordered, Alternating
<1> QED
  BY <1>1, <1>3 DEF HostsInv, NoFile

LEMMA OpenFileKeeps ==
  ASSUME HostsInv, OpenFile
  PROVE  HostsInv'
<1>1. HostsTypeOK'
  BY DEF HostsInv, HostsTypeOK, OpenFile
<1>2. coreList' = <<>> /\ 1..Len(coreList') = {}
  BY DEF HostsInv, OpenFile
<1>3. Ordered' /\ Alternating'
  BY <1>2 DEF OpenFile, Ordered, Alternating
<1>4. Collected(<<>>)'
  <2>1. pos' = 0 + 1 /\ tmplist' = <<>> /\ Len(file) \in Nat /\ UNCHANGED file
    BY DEF HostsInv, HostsTypeOK, OpenFile
  <2>2. <<>> \in Seq(Nat) /\ Len(<<>>) = 0 /\ 1..0 = {} /\ 0 \in Nat /\ 0 <= Len(file)
    BY <2>1
  <2>3. Named(<<>>, 0)
    BY <2>2 DEF Named
  <2> QED
    BY <2>1, <2>2, <2>3, CollectedNext
<1>5. \E ls \in Seq(Nat) : Collected(ls)'
  <2>1. <<>> \in Seq(Nat)
    OBVIOUS
  <2> QED
    BY <1>4, <2>1
<1> QED
  BY <1>1, <1>2, <1>3, <1>5 DEF HostsInv, OpenFile

LEMMA ReadLineKeeps ==
  ASSUME HostsInv, ReadLine
  PROVE  HostsInv'
<1>1. /\ HostsTypeOK /\ phase = "read" /\ pos \in 1..Len(file) /\ file \in Seq(HostLine)
      /\ Len(file) \in Nat /\ coreList = <<>> /\ hostfile /\ tmplist \in Seq(Seq(Nat))
  BY DEF HostsInv, HostsTypeOK, ReadLine
<1>2. /\ pos' = pos + 1
      /\ tmplist' = IF file[pos].host THEN Append(tmplist, Cores(pos))
                    ELSE tmplist
      /\ UNCHANGED <<file, hostfile, phase, sz, coreList>>
  BY DEF ReadLine, Cores
<1>3. Ncore(pos) \in Nat
  BY <1>1, NcoreType
<1>4. Cores(pos) \in Seq(Nat)
  BY <1>1, <1>3 DEF Cores
<1>5. HostsTypeOK'
  BY <1>1, <1>2, <1>4 DEF HostsTypeOK
<1>6. coreList' = <<>> /\ 1..Len(coreList') = {}
  BY <1>1, <1>2
<1>7. Ordered' /\ Alternating'
  BY <1>1, <1>2, <1>6 DEF Ordered, Alternating
<1>8. PICK ls \in Seq(Nat) : Collected(ls)
  BY <1>1 DEF HostsInv
<1>9. \E l \in Seq(Nat) : Collected(l)'
  <2>1. /\ Named(ls, pos - 1) /\ Len(tmplist) = Len(ls) /\ Len(ls) \in Nat
        /\ \A p \in 1..Len(ls) : tmplist[p] = Cores(ls[p])
    BY <1>8 DEF Collected
  <2>2. CASE file[pos].host
    <3> DEFINE new == Append(ls, pos)
    <3>1. /\ new \in Seq(Nat) /\ Len(new) = Len(ls) + 1 /\ new[Len(ls) + 1] = pos
          /\ \A p \in 1..Len(ls) : new[p] = ls[p]
      BY <1>1
    <3>2. /\ Len(tmplist') = Len(ls) + 1
          /\ tmplist'[Len(ls) + 1] = Cores(pos)
          /\ \A p \in 1..Len(ls) : tmplist'[p] = tmplist[p]
      BY <1>1, <1>2, <1>4, <2>1, <2>2
    <3>3. \A p \in 1..Len(ls) + 1 : p \in 1..Len(ls) \/ p = Len(ls) + 1
      BY <2>1
    <3> HIDE DEF new
    <3>4. Named(new, pos)
      <4>1. \A p, q \in 1..Len(new) : p < q => new[p] < new[q]
        <5> SUFFICES ASSUME NEW p \in 1..Len(new), NEW q \in 1..Len(new), p < q
                     PROVE  new[p] < new[q]
          OBVIOUS
        <5>1. p \in 1..Len(ls)
          BY <3>1, <2>1
        <5>2. CASE q \in 1..Len(ls)
          BY <5>1, <5>2, <3>1, <2>1 DEF Named
        <5>3. CASE q = Len(ls) + 1
          <6>1. ls[p] \in 1..(pos - 1)
            BY <5>1, <2>1 DEF Named
          <6> QED
            BY <5>1, <5>3, <6>1, <3>1, <1>1
        <5> QED
          BY <5>2, <5>3, <3>1, <3>3
      <4>2. \A p \in 1..Len(new) : new[p] \in 1..pos /\ file[new[p]].host
        <5> SUFFICES ASSUME NEW p \in 1..Len(new)
                     PROVE  new[p] \in 1..pos /\ file[new[p]].host
          OBVIOUS
        <5>1. CASE p \in 1..Len(ls)
          <6>1. ls[p] \in 1..(pos - 1) /\ file[ls[p]].host
            BY <5>1, <2>1 DEF Named
          <6>2. new[p] = ls[p]
            BY <5>1, <3>1
          <6>3. ls[p] \in 1..pos
            BY <6>1, <1>1
          <6> QED
            BY <6>1, <6>2, <6>3
        <5>2. CASE p = Len(ls) + 1
          BY <5>2, <3>1, <2>2, <1>1
        <5> QED
          BY <5>1, <5>2, <3>1, <3>3
      <4>3. \A l \in 1..pos : file[l].host => \E p \in 1..Len(new) : new[p] = l
        <5> SUFFICES ASSUME NEW l \in 1..pos, file[l].host
                     PROVE  \E p \in 1..Len(new) : new[p] = l
          OBVIOUS
        <5>1. CASE l = pos
          <6>1. Len(ls) + 1 \in 1..Len(new)
            BY <3>1, <2>1
          <6> QED
            BY <5>1, <6>1, <3>1
        <5>2. CASE l \in 1..(pos - 1)
          <6>1. PICK p \in 1..Len(ls) : ls[p] = l
            BY <5>2, <2>1 DEF Named
          <6>2. p \in 1..Len(new)
            BY <3>1, <2>1
          <6> QED
            BY <6>1, <6>2, <3>1
        <5> QED
          BY <5>1, <5>2, <1>1
      <4> QED
        BY <3>1, <4>1, <4>2, <4>3 DEF Named
    <3>5. \A p \in 1..Len(new) : tmplist'[p] = Cores(new[p])
      BY <2>1, <3>1, <3>2, <3>3
    <3>6. PICK i \in Nat, l \in Seq(Nat) : i = pos /\ l = new
      BY <1>1, <3>1
    <3>7. /\ Named(l, i) /\ pos' = i + 1 /\ i <= Len(file) /\ UNCHANGED file
          /\ Len(tmplist') = Len(l) /\ \A p \in 1..Len(l) : tmplist'[p] = Cores(l[p])
      BY <1>1, <1>2, <3>1, <3>2, <3>4, <3>5, <3>6
    <3>8. Collected(l)'
      BY <1>1, <3>7, CollectedNext
    <3> QED
      BY <3>1, <3>6, <3>8
  <2>3. CASE ~file[pos].host
    <3>1. tmplist' = tmplist
      BY <1>2, <2>3
    <3>2. Named(ls, pos)
      <4>1. \A p \in 1..Len(ls) : ls[p] \in 1..pos /\ file[ls[p]].host
        <5>1. \A p \in 1..Len(ls) : ls[p] \in 1..(pos - 1) /\ file[ls[p]].host
          BY <2>1 DEF Named
        <5> QED
          BY <5>1, <1>1
      <4>2. \A l \in 1..pos : file[l].host => \E p \in 1..Len(ls) : ls[p] = l
        <5>1. \A l \in 1..(pos - 1) : file[l].host => \E p \in 1..Len(ls) : ls[p] = l
          BY <2>1 DEF Named
        <5>2. \A l \in 1..pos : l \in 1..(pos - 1) \/ l = pos
          BY <1>1
        <5> QED
          BY <5>1, <5>2, <2>3
      <4> QED
        BY <4>1, <4>2, <2>1 DEF Named
    <3>3. PICK i \in Nat : i = pos
      BY <1>1
    <3>4. /\ Named(ls, i) /\ pos' = i + 1 /\ i <= Len(file) /\ UNCHANGED file
          /\ Len(tmplist') = Len(ls) /\ \A p \in 1..Len(ls) : tmplist'[p] = Cores(ls[p])
      BY <1>1, <1>2, <2>1, <3>1, <3>2, <3>3
    <3>6. Collected(ls)'
      BY <1>1, <3>4, CollectedNext
    <3> QED
      BY <3>6
  <2> QED
    BY <2>2, <2>3
<1> QED
  BY <1>1, <1>2, <1>5, <1>6, <1>7, <1>9 DEF HostsInv

LEMMA EndFileKeeps ==
  ASSUME HostsInv, EndFile
  PROVE  HostsInv'
<1>1. /\ HostsTypeOK /\ phase = "read" /\ pos > Len(file) /\ file \in Seq(HostLine)
      /\ Len(file) \in Nat /\ coreList = <<>> /\ hostfile /\ pos \in Nat
  BY DEF HostsInv, HostsTypeOK, EndFile
<1>2. phase' = "deal" /\ pos' = 1 /\ sz' = 0 /\ UNCHANGED <<file, hostfile, tmplist, coreList>>
  BY DEF EndFile
<1>3. HostsTypeOK'
  BY <1>1, <1>2 DEF HostsTypeOK
<1>4. coreList' = <<>> /\ 1..Len(coreList') = {}
  BY <1>1, <1>2
<1>5. Ordered' /\ Alternating'
  BY <1>1, <1>2, <1>4 DEF Ordered, Alternating
<1>6. PICK ls \in Seq(Nat) : Collected(ls)
  BY <1>1 DEF HostsInv
<1>7. /\ Named(ls, Len(file)) /\ Len(tmplist) = Len(ls)
      /\ \A p \in 1..Len(ls) : tmplist[p] = Cores(ls[p])
  <2>1. pos - 1 = Len(file)
    BY <1>1, <1>6 DEF Collected
  <2> QED
    BY <1>6, <2>1 DEF Collected
<1>8. \A p \in 1..Len(ls) : Ncore(ls[p]) \in Nat
  <2>1. Len(file) \in 0..Len(file)
    BY <1>1
  <2> QED
    BY <1>1, <1>7, <2>1, NamedNcore
<1>9. \A p \in 1..Len(ls) : Taken(ls, 0, p)' = 0
  <2>1. \A n : Ncore(n)' = Ncore(n)
    BY <1>2, NcoreStays
  <2>2. \A p \in 1..Len(ls) : ~(p < 1)
    OBVIOUS
  <2> QED
    BY <1>2, <1>8, <2>1, <2>2 DEF Taken, Lesser
<1>10. \A p \in 1..Len(ls) :
         /\ Len(tmplist[p]) = Ncore(ls[p])
         /\ \A k \in 1..Len(tmplist[p]) : tmplist[p][k] = ls[p]
  <2> SUFFICES ASSUME NEW p \in 1..Len(ls)
               PROVE  /\ Len(tmplist[p]) = Ncore(ls[p])
                      /\ \A k \in 1..Len(tmplist[p]) : tmplist[p][k] = ls[p]
    OBVIOUS
  <2>1. PICK n \in Nat : n = Ncore(ls[p])
    BY <1>8
  <2>2. tmplist[p] = [k \in 1..n |-> ls[p]]
    BY <1>7, <2>1 DEF Cores
  <2> QED
    BY <2>1, <2>2
<1>11. \A x : Count(x)' = 0
  <2>1. \A x : Places(x, Len(coreList))' = {}
    BY <1>4 DEF Places
  <2> QED
    BY <2>1, FS_EmptySet DEF Count
<1>12. Dealt(ls, 0)'
  <2>1. Named(ls, Len(file))'
    BY <1>2, <1>7 DEF Named
  <2>2. \A n : Ncore(n)' = Ncore(n)
    BY <1>2, NcoreStays
  <2>3. \A p \in 1..Len(ls) :
          /\ Len(tmplist'[p]) = Ncore(ls[p])' - Taken(ls, 0, p)'
          /\ \A k \in 1..Len(tmplist'[p]) : tmplist'[p][k] = ls[p]
          /\ Count(ls[p])' = Taken(ls, 0, p)'
    BY <1>2, <1>8, <1>9, <1>10, <1>11, <2>2
  <2>4. coreList' \in Seq(Nat) /\ Len(tmplist') = Len(ls) /\ pos' <= Len(ls) + 1
    BY <1>2, <1>4, <1>7
  <2>5. \A p \in 1..Len(ls) : ~(p < pos')
    BY <1>2
  <2> QED
    BY <1>4, <2>1, <2>3, <2>4, <2>5 DEF Dealt
<1>13. \E l \in Seq(Nat), r \in Nat : Dealt(l, r)'
  BY <1>12
<1> QED
  BY <1>1, <1>2, <1>3, <1>4, <1>5, <1>13 DEF HostsInv

\* What is left of the invariant while cores are dealt.
LEMMA DealKeeps ==
  ASSUME HostsInv, Deal
  PROVE  HostsInv'
<1>1. /\ HostsTypeOK /\ phase = "deal" /\ pos \in Nat /\ pos >= 1 /\ pos <= Len(tmplist)
      /\ file \in Seq(HostLine) /\ Len(file) \in Nat /\ hostfile /\ sz \in Nat
      /\ tmplist \in Seq(Seq(Nat)) /\ Ordered
  BY DEF HostsInv, HostsTypeOK, Deal
<1>2. /\ pos' = pos + 1 /\ UNCHANGED <<file, hostfile, phase>>
      /\ sz' = sz + Len(tmplist'[pos])
  BY DEF Deal
<1>3. PICK ls \in Seq(Nat), r \in Nat : Dealt(ls, r)
  BY <1>1 DEF HostsInv
<1>4. /\ Named(ls, Len(file)) /\ coreList \in Seq(Nat) /\ Len(tmplist) = Len(ls)
      /\ Len(ls) \in Nat /\ Len(coreList) \in Nat /\ pos \in 1..Len(ls)
  BY <1>1, <1>3 DEF Dealt
<1>5. \A p \in 1..Len(ls) :
        /\ Len(tmplist[p]) = Ncore(ls[p]) - Taken(ls, r, p)
        /\ \A k \in 1..Len(tmplist[p]) : tmplist[p][k] = ls[p]
        /\ Count(ls[p]) = Taken(ls, r, p)
  BY <1>3 DEF Dealt
<1>6. \A i \in 1..Len(coreList) :
        /\ \E p \in 1..Len(ls) : coreList[i] = ls[p]
        /\ Lap(i) <= r + 1
        /\ Lap(i) = r + 1 => \E p \in 1..Len(ls) : p < pos /\ coreList[i] = ls[p]
  BY <1>3 DEF Dealt
<1>7. sz = 0 => \A p \in 1..Len(ls) : p < pos => tmplist[p] = <<>>
  BY <1>3 DEF Dealt
<1>8. \A p \in 1..Len(ls) : ls[p] \in Nat /\ Ncore(ls[p]) \in Nat
  <2>1. Len(file) \in 0..Len(file)
    BY <1>1
  <2> QED
    BY <1>1, <1>4, <2>1, NamedNcore
<1>9. tmplist[pos] \in Seq(Nat) /\ Len(tmplist[pos]) \in Nat
  BY <1>1
<1>10. \A n : Ncore(n)' = Ncore(n)
  BY <1>2, NcoreStays
<1>11. \A p \in 1..Len(ls) : Taken(ls, r, p)' = IF p = pos THEN Lesser(r + 1, Ncore(ls[pos]))
                                                ELSE Taken(ls, r, p)
  <2>1. \A p \in 1..Len(ls) : p < pos' <=> p < pos \/ p = pos
    BY <1>1, <1>2
  <2>2. ~(pos < pos)
    BY <1>1
  <2> QED
    BY <1>10, <2>1, <2>2 DEF Taken
<1>12. Taken(ls, r, pos) = Lesser(r, Ncore(ls[pos]))
  <2>1. ~(pos < pos)
    BY <1>1
  <2> QED
    BY <2>1 DEF Taken
<1>13. Named(ls, Len(file))'
  BY <1>2, <1>4 DEF Named
<1>14. CASE tmplist[pos] = <<>>
  <2>1. UNCHANGED <<coreList, tmplist>>
    BY <1>14 DEF Deal
  <2>2. sz' = sz
    <3>1. Len(tmplist'[pos]) = 0
      BY <1>14, <2>1
    <3> QED
      BY <1>1, <1>2, <3>1
  <2>3. Lesser(r + 1, Ncore(ls[pos])) = Taken(ls, r, pos)
    <3>1. Len(tmplist[pos]) = 0
      BY <1>14
    <3>2. 0 = Ncore(ls[pos]) - Taken(ls, r, pos)
      BY <1>4, <1>5, <3>1
    <3>3. Ncore(ls[pos]) \in Nat
      BY <1>4, <1>8
    <3>4. Ncore(ls[pos]) <= r
      BY <1>12, <3>2, <3>3 DEF Lesser
    <3>5. Lesser(r + 1, Ncore(ls[pos])) = Ncore(ls[pos]) /\ Taken(ls, r, pos) = Ncore(ls[pos])
      BY <1>12, <3>3, <3>4 DEF Lesser
    <3> QED
      BY <3>5
  <2>4. \A p \in 1..Len(ls) : Taken(ls, r, p)' = Taken(ls, r, p)
    BY <1>11, <2>3
  <2>5. /\ \A x : Count(x)' = Count(x)
        /\ \A i : Lap(i)' = Lap(i)
    BY <2>1 DEF Count, Lap, Places
  <2>6. \A p \in 1..Len(ls) :
          /\ Len(tmplist'[p]) = Ncore(ls[p])' - Taken(ls, r, p)'
          /\ \A k \in 1..Len(tmplist'[p]) : tmplist'[p][k] = ls[p]
          /\ Count(ls[p])' = Taken(ls, r, p)'
    BY <1>5, <1>10, <2>1, <2>4, <2>5
  <2>7. \A i \in 1..Len(coreList') :
          /\ \E p \in 1..Len(ls) : coreList'[i] = ls[p]
          /\ Lap(i)' <= r + 1
          /\ Lap(i)' = r + 1 => \E p \in 1..Len(ls) : p < pos' /\ coreList'[i] = ls[p]
    <3>1. \A p \in 1..Len(ls) : p < pos => p < pos'
      BY <1>1, <1>2
    <3> QED
      BY <1>6, <2>1, <2>5, <3>1
  <2>8. sz' = 0 => \A p \in 1..Len(ls) : p < pos' => tmplist'[p] = <<>>
    <3>1. \A p \in 1..Len(ls) : p < pos' <=> p < pos \/ p = pos
      BY <1>1, <1>2
    <3> QED
      BY <1>7, <1>14, <2>1, <2>2, <3>1
  <2>9. Dealt(ls, r)'
    <3>1. pos' <= Len(ls) + 1
      BY <1>1, <1>2, <1>4
    <3> QED
      BY <1>4, <1>13, <2>1, <2>6, <2>7, <2>8, <3>1 DEF Dealt
  <2>10. HostsTypeOK'
    BY <1>1, <1>2, <2>1, <2>2 DEF HostsTypeOK
  <2>11. Ordered'
    BY <1>1, <2>1, <2>5 DEF Ordered
  <2>12. Alternating'
    BY <1>1, <1>2, <2>11 DEF Alternating, Ordered
  <2>13. \E l \in Seq(Nat), s \in Nat : Dealt(l, s)'
    BY <2>9
  <2> QED
    BY <1>1, <1>2, <2>10, <2>11, <2>12, <2>13 DEF HostsInv
<1>15. CASE tmplist[pos] # <<>>
  <2>1. /\ coreList' = Append(coreList, Head(tmplist[pos]))
        /\ tmplist' = [tmplist EXCEPT ![pos] = Tail(@)]
    BY <1>15 DEF Deal
  <2>2. Len(tmplist[pos]) >= 1
    BY <1>9, <1>15
  <2>3. Head(tmplist[pos]) = ls[pos]
    <3>1. 1 \in 1..Len(tmplist[pos])
      BY <1>9, <2>2
    <3>2. tmplist[pos][1] = ls[pos]
      BY <1>4, <1>5, <3>1
    <3>3. Head(tmplist[pos]) = tmplist[pos][1]
      BY <1>9, <2>2
    <3> QED
      BY <3>2, <3>3
  <2>4. PICK y \in Nat, n \in Nat, q \in Nat : y = ls[pos] /\ n = Len(coreList) /\ q = pos
    BY <1>1, <1>4, <1>8
  <2>5. /\ coreList' \in Seq(Nat) /\ Len(coreList') = n + 1
        /\ \A i \in 1..n : coreList'[i] = coreList[i] /\ Lap(i)' = Lap(i)
        /\ coreList'[n + 1] = y /\ \A i : i = n + 1 => Lap(i)' = Count(y) + 1
        /\ \A x : Count(x)' = IF x = y THEN Count(x) + 1 ELSE Count(x)
    <3>1. coreList' = Append(coreList, y)
      BY <2>1, <2>3, <2>4
    <3> QED
      BY <1>4, <2>4, <3>1, PlacesAfter
  <2>6. /\ Ncore(y) \in Nat /\ Taken(ls, r, q) = r /\ Taken(ls, r, q)' = r + 1 /\ r < Ncore(y)
        /\ Count(y) = r
    <3>1. Ncore(y) - Taken(ls, r, pos) >= 1
      BY <1>4, <1>5, <2>2, <2>4
    <3>2. Ncore(y) \in Nat
      BY <1>4, <1>8, <2>4
    <3>3. Taken(ls, r, pos) = r /\ r < Ncore(y)
      BY <1>12, <2>4, <3>1, <3>2 DEF Lesser
    <3>4. Lesser(r + 1, Ncore(y)) = r + 1
      BY <3>2, <3>3 DEF Lesser
    <3>5. Taken(ls, r, q)' = r + 1
      BY <1>4, <1>11, <2>4, <3>4
    <3> QED
      BY <1>4, <1>5, <2>4, <3>2, <3>3, <3>5
  <2>7. /\ tmplist'[q] = Tail(tmplist[q]) /\ Len(tmplist') = Len(ls)
        /\ \A p \in 1..Len(ls) : p # q => tmplist'[p] = tmplist[p]
        /\ tmplist' \in Seq(Seq(Nat))
    BY <1>1, <1>4, <1>9, <2>1, <2>2, <2>4
  <2>8. /\ Len(tmplist'[q]) = Len(tmplist[q]) - 1 /\ Len(tmplist'[q]) \in Nat
        /\ \A k \in 1..Len(tmplist'[q]) : tmplist'[q][k] = tmplist[q][k + 1]
    BY <1>9, <2>2, <2>4, <2>7
  <2>9. \A p \in 1..Len(ls) : p # q => ls[p] # y
    <3> SUFFICES ASSUME NEW p \in 1..Len(ls), p # q
                 PROVE  ls[p] # y
      OBVIOUS
    <3>1. p < q \/ q < p
      BY <1>4, <2>4
    <3>2. ls[p] < ls[q] \/ ls[q] < ls[p]
      BY <1>4, <2>4, <3>1 DEF Named
    <3> QED
      BY <1>4, <1>8, <2>4, <3>2
  <2>10. \A p \in 1..Len(ls) :
           /\ Len(tmplist'[p]) = Ncore(ls[p])' - Taken(ls, r, p)'
           /\ \A k \in 1..Len(tmplist'[p]) : tmplist'[p][k] = ls[p]
           /\ Count(ls[p])' = Taken(ls, r, p)'
    <3> SUFFICES ASSUME NEW p \in 1..Len(ls)
                 PROVE  /\ Len(tmplist'[p]) = Ncore(ls[p])' - Taken(ls, r, p)'
                        /\ \A k \in 1..Len(tmplist'[p]) : tmplist'[p][k] = ls[p]
                        /\ Count(ls[p])' = Taken(ls, r, p)'
      OBVIOUS
    <3>1. CASE p = q
      <4>1. Len(tmplist[q]) = Ncore(y) - r
        BY <1>4, <1>5, <2>4, <2>6
      <4>2. Len(tmplist'[q]) = Ncore(y) - (r + 1)
        BY <2>6, <2>8, <4>1
      <4>3. \A k \in 1..Len(tmplist'[q]) : k + 1 \in 1..Len(tmplist[q])
        BY <2>8, <1>9, <2>4
      <4>4. \A k \in 1..Len(tmplist'[q]) : tmplist'[q][k] = ls[q]
        BY <1>4, <1>5, <2>4, <2>8, <4>3
      <4>5. Count(y)' = r + 1 /\ Ncore(y)' = Ncore(y) /\ ls[p] = y
        BY <1>10, <2>4, <2>5, <2>6, <3>1
      <4> QED
        BY <2>6, <3>1, <4>2, <4>4, <4>5
    <3>2. CASE p # q
      <4>1. Taken(ls, r, p)' = Taken(ls, r, p)
        BY <1>11, <2>4, <3>2
      <4>2. Count(ls[p])' = Count(ls[p])
        BY <2>5, <2>9, <3>2
      <4> QED
        BY <1>5, <1>10, <2>7, <3>2, <4>1, <4>2
    <3> QED
      BY <3>1, <3>2
  <2>11. \A i \in 1..Len(coreList') : i \in 1..n \/ i = n + 1
    BY <1>4, <2>4, <2>5
  <2>12. \A i : i = n + 1 => Lap(i)' = r + 1
    BY <2>5, <2>6
  <2>13. \A i \in 1..Len(coreList') :
           /\ \E p \in 1..Len(ls) : coreList'[i] = ls[p]
           /\ Lap(i)' <= r + 1
           /\ Lap(i)' = r + 1 => \E p \in 1..Len(ls) : p < pos' /\ coreList'[i] = ls[p]
    <3> SUFFICES ASSUME NEW i \in 1..Len(coreList')
                 PROVE  /\ \E p \in 1..Len(ls) : coreList'[i] = ls[p]
                        /\ Lap(i)' <= r + 1
                        /\ Lap(i)' = r + 1 => \E p \in 1..Len(ls) : p < pos' /\ coreList'[i] = ls[p]
      OBVIOUS
    <3>1. \A p \in 1..Len(ls) : p < pos \/ p = pos => p < pos'
      BY <1>1, <1>2
    <3>2. CASE i \in 1..n
      BY <1>6, <2>4, <2>5, <3>1, <3>2
    <3>3. CASE i = n + 1
      BY <1>4, <2>4, <2>5, <2>12, <3>1, <3>3
    <3> QED
      BY <2>11, <3>2, <3>3
  <2>14. sz' = 0 => \A p \in 1..Len(ls) : p < pos' => tmplist'[p] = <<>>
    <3> SUFFICES ASSUME sz' = 0, NEW p \in 1..Len(ls), p < pos'
                 PROVE  tmplist'[p] = <<>>
      OBVIOUS
    <3>1. sz = 0 /\ Len(tmplist'[q]) = 0
      <4>1. sz' = sz + Len(tmplist'[q])
        BY <1>2, <2>4
      <4>2. sz \in Nat /\ Len(tmplist'[q]) \in Nat
        BY <1>1, <2>8
      <4> QED
        BY <4>1, <4>2
    <3>2. p = q \/ p < pos
      BY <1>1, <1>2, <2>4
    <3>3. tmplist'[q] \in Seq(Nat)
      BY <2>7, <1>9, <2>2, <2>4
    <3>4. CASE p = q
      BY <3>1, <3>3, <3>4
    <3>5. CASE p # q
      BY <1>7, <2>7, <3>1, <3>2, <3>5
    <3> QED
      BY <3>4, <3>5
  <2>15. Dealt(ls, r)'
    <3>1. pos' <= Len(ls) + 1
      BY <1>1, <1>2, <1>4
    <3> QED
      BY <1>4, <1>13, <2>5, <2>7, <2>10, <2>13, <2>14, <3>1 DEF Dealt
  <2>16. HostsTypeOK'
    <3>1. sz' \in Nat
      BY <1>1, <1>2, <2>4, <2>8
    <3> QED
      BY <1>1, <1>2, <2>7, <3>1 DEF HostsTypeOK
  <2>17. Ordered'
    <3> SUFFICES ASSUME NEW i \in 1..Len(coreList'), NEW j \in 1..Len(coreList'), i < j
                 PROVE  \/ Lap(i)' < Lap(j)'
                        \/ Lap(i)' = Lap(j)' /\ coreList'[i] < coreList'[j]
      BY DEF Ordered
    <3>1. i \in 1..n
      BY <1>4, <2>4, <2>5
    <3>2. CASE j \in 1..n
      BY <1>1, <2>4, <2>5, <3>1, <3>2 DEF Ordered
    <3>3. CASE j = n + 1
      <4>1. Lap(i) <= r + 1 /\ Lap(i) \in Nat
        BY <1>4, <1>6, <2>4, <3>1, CountType
      <4>2. Lap(j)' = r + 1 /\ coreList'[j] = y /\ Lap(i)' = Lap(i) /\ coreList'[i] = coreList[i]
        BY <2>5, <2>12, <3>1, <3>3
      <4>3. CASE Lap(i) = r + 1
        <5>1. PICK p \in 1..Len(ls) : p < pos /\ coreList[i] = ls[p]
          BY <1>6, <2>4, <3>1, <4>3
        <5>2. ls[p] < ls[pos]
          BY <1>4, <5>1 DEF Named
        <5> QED
          BY <2>4, <4>2, <4>3, <5>1, <5>2
      <4>4. CASE Lap(i) # r + 1
        <5>1. Lap(i) < r + 1
          BY <4>1, <4>4
        <5> QED
          BY <4>2, <5>1
      <4> QED
        BY <4>3, <4>4
    <3> QED
      BY <2>11, <3>2, <3>3
  <2>18. Alternating'
    BY <1>1, <1>2, <2>17 DEF Alternating, Ordered
  <2>19. \E l \in Seq(Nat), s \in Nat : Dealt(l, s)'
    BY <2>15
  <2> QED
    BY <1>1, <1>2, <2>16, <2>17, <2>18, <2>19 DEF HostsInv
<1> QED
  BY <1>14, <1>15

LEMMA RoundKeeps ==
  ASSUME HostsInv, Round
  PROVE  HostsInv'
<1>1. /\ HostsTypeOK /\ phase = "deal" /\ pos \in Nat /\ pos > Len(tmplist) /\ hostfile
      /\ file \in Seq(HostLine) /\ Len(file) \in Nat /\ sz \in Nat /\ Ordered
      /\ tmplist \in Seq(Seq(Nat))
  BY DEF HostsInv, HostsTypeOK, Round
<1>2. UNCHANGED <<file, hostfile, tmplist, coreList>>
  BY DEF Round
<1>3. PICK ls \in Seq(Nat), r \in Nat : Dealt(ls, r)
  BY <1>1 DEF HostsInv
<1>4. /\ Named(ls, Len(file)) /\ coreList \in Seq(Nat) /\ Len(tmplist) = Len(ls)
      /\ Len(ls) \in Nat /\ Len(coreList) \in Nat
  BY <1>1, <1>3 DEF Dealt
<1>5. \A p \in 1..Len(ls) : p < pos
  BY <1>1, <1>4
<1>6. \A p \in 1..Len(ls) : ls[p] \in Nat /\ Ncore(ls[p]) \in Nat /\ ls[p] \in 1..Len(file)
  <2>1. Len(file) \in 0..Len(file)
    BY <1>1
  <2> QED
    BY <1>1, <1>4, <2>1, NamedNcore
<1>7. \A p \in 1..Len(ls) : Taken(ls, r, p) = Lesser(r + 1, Ncore(ls[p]))
  BY <1>5 DEF Taken
<1>8. \A p \in 1..Len(ls) :
        /\ Len(tmplist[p]) = Ncore(ls[p]) - Lesser(r + 1, Ncore(ls[p]))
        /\ \A k \in 1..Len(tmplist[p]) : tmplist[p][k] = ls[p]
        /\ Count(ls[p]) = Lesser(r + 1, Ncore(ls[p]))
  BY <1>3, <1>7 DEF Dealt
<1>9. \A n : Ncore(n)' = Ncore(n)
  BY <1>2, NcoreStays
<1>10. /\ \A x : Count(x)' = Count(x)
       /\ \A i : Lap(i)' = Lap(i)
  BY <1>2 DEF Count, Lap, Places
<1>11. Ordered'
  BY <1>1, <1>2, <1>10 DEF Ordered
<1>12. CASE sz > 0
  <2>1. pos' = 1 /\ sz' = 0 /\ UNCHANGED phase
    BY <1>12 DEF Round
  <2>2. \A p \in 1..Len(ls) : ~(p < pos')
    BY <2>1
  <2>3. \A p \in 1..Len(ls) : Taken(ls, r + 1, p)' = Lesser(r + 1, Ncore(ls[p]))
    BY <1>9, <2>2 DEF Taken
  <2>4. \A p \in 1..Len(ls) :
          /\ Len(tmplist'[p]) = Ncore(ls[p])' - Taken(ls, r + 1, p)'
          /\ \A k \in 1..Len(tmplist'[p]) : tmplist'[p][k] = ls[p]
          /\ Count(ls[p])' = Taken(ls, r + 1, p)'
    BY <1>2, <1>8, <1>9, <1>10, <2>3
  <2>5. \A i \in 1..Len(coreList') :
          /\ \E p \in 1..Len(ls) : coreList'[i] = ls[p]
          /\ Lap(i)' <= (r + 1) + 1
          /\ Lap(i)' = (r + 1) + 1 => \E p \in 1..Len(ls) : p < pos' /\ coreList'[i] = ls[p]
    <3>1. \A i \in 1..Len(coreList) :
            (\E p \in 1..Len(ls) : coreList[i] = ls[p]) /\ Lap(i) <= r + 1
      BY <1>3 DEF Dealt
    <3>2. \A i \in 1..Len(coreList) : Lap(i) \in Nat
      BY <1>4, CountType
    <3>3. \A i \in 1..Len(coreList) : Lap(i) <= (r + 1) + 1 /\ Lap(i) # (r + 1) + 1
      <4> SUFFICES ASSUME NEW i \in 1..Len(coreList)
                   PROVE  Lap(i) <= (r + 1) + 1 /\ Lap(i) # (r + 1) + 1
        OBVIOUS
      <4>1. Lap(i) <= r + 1 /\ Lap(i) \in Nat
        BY <3>1, <3>2
      <4> QED
        BY <4>1
    <3> QED
      BY <1>2, <1>10, <3>1, <3>3
  <2>6. Named(ls, Len(file))'
    BY <1>2, <1>4 DEF Named
  <2>7. Dealt(ls, r + 1)'
    <3>1. pos' <= Len(ls) + 1
      BY <1>4, <2>1
    <3> QED
      BY <1>2, <1>4, <2>2, <2>4, <2>5, <2>6, <3>1 DEF Dealt
  <2>8. \E l \in Seq(Nat), s \in Nat : Dealt(l, s)'
    <3>1. r + 1 \in Nat
      OBVIOUS
    <3> QED
      BY <2>7, <3>1
  <2>9. HostsTypeOK'
    BY <1>1, <1>2, <2>1 DEF HostsTypeOK
  <2>10. Alternating'
    BY <1>1, <1>2, <1>11, <2>1 DEF Alternating, Ordered
  <2> QED
    BY <1>1, <1>2, <1>11, <2>1, <2>8, <2>9, <2>10 DEF HostsInv
<1>13. CASE sz = 0
  <2>1. phase' = "done" /\ UNCHANGED <<pos, sz>>
    BY <1>13 DEF Round
  <2>2. HostsTypeOK'
    BY <1>1, <1>2, <2>1 DEF HostsTypeOK
  <2>3. \A p \in 1..Len(ls) : Count(ls[p]) = Ncore(ls[p])
    <3> SUFFICES ASSUME NEW p \in 1..Len(ls)
                 PROVE  Count(ls[p]) = Ncore(ls[p])
      OBVIOUS
    <3>1. tmplist[p] = <<>>
      BY <1>3, <1>5, <1>13 DEF Dealt
    <3>2. Len(tmplist[p]) = 0
      BY <3>1
    <3>3. PICK n \in Nat : n = Ncore(ls[p])
      BY <1>6
    <3>4. Lesser(r + 1, n) = n
      <4>1. 0 = n - Lesser(r + 1, n)
        BY <1>8, <3>2, <3>3
      <4> QED
        BY <4>1 DEF Lesser
    <3> QED
      BY <1>8, <3>3, <3>4
  <2>4. \A i \in 1..Len(file) : Count(i) = IF file[i].host THEN Ncore(i) ELSE 0
    <3> SUFFICES ASSUME NEW i \in 1..Len(file)
                 PROVE  Count(i) = IF file[i].host THEN Ncore(i) ELSE 0
      OBVIOUS
    <3>1. CASE file[i].host
      <4>1. PICK p \in 1..Len(ls) : ls[p] = i
        BY <1>4, <3>1 DEF Named
      <4> QED
        BY <2>3, <3>1, <4>1
    <3>2. CASE ~file[i].host
      <4>1. \A p \in 1..Len(ls) : ls[p] # i
        BY <1>4, <3>2 DEF Named
      <4>2. \A j \in 1..Len(coreList) : coreList[j] # i
        BY <1>3, <4>1 DEF Dealt
      <4>3. Places(i, Len(coreList)) = {}
        BY <4>2 DEF Places
      <4> QED
        BY <3>2, <4>3, FS_EmptySet DEF Count
    <3> QED
      BY <3>1, <3>2
  <2>5. \A i \in 1..Len(file) : Count(i)' = IF file'[i].host THEN Ncore(i)' ELSE 0
    BY <1>2, <1>9, <1>10, <2>4
  <2>6. Alternating'
    BY <1>2, <1>11, <2>5 DEF Alternating, Ordered, Count
  <2> QED
    BY <1>1, <1>2, <1>11, <2>1, <2>2, <2>6 DEF HostsInv
<1> QED
  BY <1>1, <1>12, <1>13

LEMMA HostsStutter ==
  ASSUME HostsInv, UNCHANGED hvars
  PROVE  HostsInv'
<1>1. UNCHANGED <<file, hostfile, phase, pos, tmplist, sz, coreList>>
  BY DEF hvars
<1>2. /\ \A x : Count(x)' = Count(x)
      /\ \A i : Lap(i)' = Lap(i)
      /\ \A n : Ncore(n)' = Ncore(n)
  BY <1>1 DEF Count, Lap, Places, Ncore
<1>3. HostsTypeOK' /\ Ordered'
  BY <1>1, <1>2 DEF HostsInv, HostsTypeOK, Ordered
<1>4. Alternating'
  BY <1>1, <1>2, <1>3 DEF HostsInv, Alternating, Ordered, Count
<1>5. \A ls : Collected(ls) => Collected(ls)'
  <2>1. \A ls, i : Named(ls, i)' = Named(ls, i)
    BY <1>1 DEF Named
  <2>2. \A x : Cores(x)' = Cores(x)
    BY <1>1 DEF Cores, Ncore
  <2> QED
    BY <1>1, <2>2 DEF Collected, Named
<1>6. \A ls, r : Dealt(ls, r) => Dealt(ls, r)'
  <2>1. \A ls, r, p : Taken(ls, r, p)' = Taken(ls, r, p)
    BY <1>1, <1>2 DEF Taken
  <2> QED
    BY <1>1, <1>2, <2>1 DEF Dealt, Named
<1> QED
  BY <1>1, <1>3, <1>4, <1>5, <1>6 DEF HostsInv

\* What is known of the host list at every step of setup_hostlist: how many rounds there
\* have been, and how many cores of each host are left.
THEOREM HostsAreRead == HSpec => []HostsInv
<1>1. HInit => HostsInv
  BY HostsInit
<1>2. HostsInv /\ [HNext]_hvars => HostsInv'
  BY NoFileKeeps, OpenFileKeeps, ReadLineKeeps, EndFileKeeps, DealKeeps, RoundKeeps, HostsStutter
     DEF HNext
<1> QED
  BY <1>1, <1>2, PTL DEF HSpec

\* @core_list is in "alternative order" whatever the host file holds, and at the end it has
\* as many entries for a host as the file gives it cores (Manager#setup_hostlist).
THEOREM CoresAlternate == HSpec => []Alternating
<1>1. HostsInv => Alternating
  BY DEF HostsInv
<1> QED
  BY <1>1, HostsAreRead, PTL

-----------------------------------------------------------------------------
(* Where the input of a task is.                                            *)

GfwhereTypeOK ==
  /\ gf \in [pc : {"trace", "list", "locality", "done"}, batch : Seq(File \cup {NoInput}),
             seen : Nat, rest : Seq(File), cmd : Seq(File), count : Nat]
  /\ DOMAIN where \subseteq File

\* What gfwhere has been told is right, and what it has not been told is nothing.
Told(f)  == /\ f \in DOMAIN where => where[f] = Replicas[f]
            /\ f \notin DOMAIN where => Replicas[f] = {}
Waits(f) == f \in Range(gf.rest) \/ f \in Range(gf.cmd)

GfwhereInv ==
  /\ GfwhereTypeOK
  /\ \A f \in DOMAIN where : where[f] = Replicas[f]
  /\ gf.count = Len(gf.cmd)
  /\ gf.pc = "trace" => /\ gf.seen <= Len(gf.batch) /\ gf.cmd = <<>>
                        /\ \A k \in 1..gf.seen : gf.batch[k] # NoInput => gf.batch[k] \in Range(gf.rest)
  /\ gf.pc = "list" => \A k \in 1..Len(gf.batch) :
                         gf.batch[k] # NoInput => Waits(gf.batch[k]) \/ Told(gf.batch[k])
  /\ gf.pc = "locality" => \A k \in 1..Len(gf.batch) :
                             gf.batch[k] # NoInput => Told(gf.batch[k])
  /\ LocalityFound

\* The elements of a sequence.
LEMMA Elements ==
  /\ \A s \in Seq(File) : Range(s) \subseteq File
  /\ \A s \in Seq(File), y \in File : Range(Append(s, y)) = Range(s) \cup {y}
  /\ \A s \in Seq(File) : s # <<>> => Range(s) = {Head(s)} \cup Range(Tail(s))
  /\ Range(<<>>) = {}
  /\ \A y \in File : Range(<<y>>) = {y}
<1>1. \A s \in Seq(File) : \A x : x \in Range(s) <=> \E k \in 1..Len(s) : s[k] = x
  BY DEF Range
<1>2. \A s \in Seq(File) : Range(s) \subseteq File
  BY <1>1
<1>3. \A s \in Seq(File), y \in File : Range(Append(s, y)) = Range(s) \cup {y}
  <2> SUFFICES ASSUME NEW s \in Seq(File), NEW y \in File
               PROVE  Range(Append(s, y)) = Range(s) \cup {y}
    OBVIOUS
  <2>1. PICK t : t = Append(s, y)
    OBVIOUS
  <2>2. /\ t \in Seq(File) /\ Len(t) = Len(s) + 1 /\ Len(s) \in Nat /\ t[Len(s) + 1] = y
        /\ \A k \in 1..Len(s) : t[k] = s[k]
    BY <2>1
  <2>3. \A x : x \in Range(t) <=> x \in Range(s) \/ x = y
    <3> TAKE x
    <3>1. ASSUME x \in Range(t) PROVE x \in Range(s) \/ x = y
      <4>1. PICK k \in 1..Len(t) : t[k] = x
        BY <1>1, <2>2, <3>1
      <4>2. k \in 1..Len(s) \/ k = Len(s) + 1
        BY <2>2, <4>1
      <4> QED
        BY <1>1, <2>2, <4>1, <4>2
    <3>2. ASSUME x \in Range(s) PROVE x \in Range(t)
      <4>1. PICK k \in 1..Len(s) : s[k] = x
        BY <1>1, <3>2
      <4>2. k \in 1..Len(t)
        BY <2>2, <4>1
      <4> QED
        BY <1>1, <2>2, <4>1, <4>2
    <3>3. y \in Range(t)
      <4>1. Len(s) + 1 \in 1..Len(t)
        BY <2>2
      <4> QED
        BY <1>1, <2>2, <4>1
    <3> QED
      BY <3>1, <3>2, <3>3
  <2> QED
    BY <2>1, <2>3
<1>4. \A s \in Seq(File) : s # <<>> => Range(s) = {Head(s)} \cup Range(Tail(s))
  <2> SUFFICES ASSUME NEW s \in Seq(File), s # <<>>
               PROVE  Range(s) = {Head(s)} \cup Range(Tail(s))
    OBVIOUS
  <2>1. PICK t : t = Tail(s)
    OBVIOUS
  <2>2. /\ t \in Seq(File) /\ Len(s) = Len(t) + 1 /\ Len(t) \in Nat /\ s[1] = Head(s)
        /\ \A k \in 1..Len(t) : t[k] = s[k + 1]
    BY <2>1
  <2>3. \A x : x \in Range(s) <=> x \in Range(t) \/ x = Head(s)
    <3> TAKE x
    <3>1. ASSUME x \in Range(s) PROVE x \in Range(t) \/ x = Head(s)
      <4>1. PICK k \in 1..Len(s) : s[k] = x
        BY <1>1, <3>1
      <4>2. CASE k = 1
        BY <2>2, <4>1, <4>2
      <4>3. CASE k # 1
        <5>1. k - 1 \in 1..Len(t) /\ (k - 1) + 1 = k
          BY <2>2, <4>1, <4>3
        <5>2. t[k - 1] = x
          BY <2>2, <4>1, <5>1
        <5> QED
          BY <1>1, <2>2, <5>1, <5>2
      <4> QED
        BY <4>2, <4>3
    <3>2. ASSUME x \in Range(t) PROVE x \in Range(s)
      <4>1. PICK k \in 1..Len(t) : t[k] = x
        BY <1>1, <2>2, <3>2
      <4>2. k + 1 \in 1..Len(s)
        BY <2>2, <4>1
      <4> QED
        BY <1>1, <2>2, <4>1, <4>2
    <3>3. Head(s) \in Range(s)
      <4>1. 1 \in 1..Len(s)
        BY <2>2
      <4> QED
        BY <1>1, <2>2, <4>1
    <3> QED
      BY <3>1, <3>2, <3>3
  <2> QED
    BY <2>1, <2>3
<1>5. Range(<<>>) = {}
  BY DEF Range
<1>6. \A y \in File : Range(<<y>>) = {y}
  BY DEF Range
<1> QED
  BY <1>2, <1>3, <1>4, <1>5, <1>6

\* A command that is run tells of all its files: of a single one even that it has no
\* replica, of several those that have one.
LEMMA CommandTells ==
  ASSUME gf.count = Len(gf.cmd), gf.cmd \in Seq(File), DOMAIN where \subseteq File, RunCommand,
         \A f \in DOMAIN where : where[f] = Replicas[f]
  PROVE  /\ DOMAIN where' \subseteq File
         /\ \A f \in DOMAIN where' : where'[f] = Replicas[f]
         /\ \A f : Told(f) => Told(f)'
         /\ \A f \in Range(gf.cmd) : Told(f)'
<1>1. PICK c, n, x : c = gf.cmd /\ n = gf.count /\ x = Answer(gf.cmd)
  OBVIOUS
<1>2. PICK found : found = IF n = 1 THEN Range(c) ELSE {f \in Range(c) : n > 1 /\ Replicas[f] # {}}
  OBVIOUS
<1>3. /\ c \in Seq(File) /\ n = Len(c) /\ n \in Nat /\ Range(c) \subseteq File
      /\ x = [named |-> n > 1, hosts |-> [f \in Range(c) |-> Replicas[f]]]
  BY <1>1, Elements DEF Answer
<1>4. where' = [f \in DOMAIN where \cup found |-> IF f \in found THEN Replicas[f] ELSE where[f]]
  <2>1. where' = ParseProc(c, n, x)
    BY <1>1 DEF RunCommand
  <2>2. x.named = (n > 1) /\ DOMAIN x.hosts = Range(c) /\ \A f \in Range(c) : x.hosts[f] = Replicas[f]
    BY <1>3
  <2>3. found = IF n = 1 THEN Range(c) ELSE {f \in DOMAIN x.hosts : x.named /\ x.hosts[f] # {}}
    BY <1>2, <2>2
  <2>4. where' = [f \in DOMAIN where \cup found |-> IF f \in found THEN x.hosts[f] ELSE where[f]]
    BY <2>1, <2>3 DEF ParseProc
  <2>5. \A f \in found : x.hosts[f] = Replicas[f]
    BY <1>2, <2>2
  <2> QED
    BY <2>4, <2>5
<1>5. found \subseteq Range(c)
  BY <1>2
<1>6. /\ DOMAIN where' = DOMAIN where \cup found
      /\ \A f \in DOMAIN where' : where'[f] = Replicas[f]
  BY <1>4
<1>7. \A f : Told(f) => Told(f)'
  BY <1>6 DEF Told
<1>8. \A f \in Range(c) : Told(f)'
  <2> SUFFICES ASSUME NEW f \in Range(c)
               PROVE  Told(f)'
    OBVIOUS
  <2>1. n # 0
    <3>1. PICK k \in DOMAIN c : TRUE
      BY DEF Range
    <3> QED
      BY <1>3, <3>1
  <2>2. f \notin found => Replicas[f] = {}
    BY <1>2, <1>3, <2>1
  <2> QED
    BY <1>6, <2>2 DEF Told
<1> QED
  BY <1>1, <1>3, <1>5, <1>6, <1>7, <1>8

LEMMA GfwhereStarts ==
  ASSUME GfwhereInit
  PROVE  GfwhereInv
<1>1. PICK b \in Batches : gf = [pc |-> "trace", batch |-> b, seen |-> 0, rest |-> <<>>,
                                 cmd |-> <<>>, count |-> 0]
  BY DEF GfwhereInit
<1>2. b \in Seq(File \cup {NoInput}) /\ Len(b) \in Nat
  BY GfwhereAssumption
<1>3. where = <<>> /\ DOMAIN where = {}
  BY DEF GfwhereInit
<1>4. GfwhereTypeOK
  BY <1>1, <1>2, <1>3 DEF GfwhereTypeOK
<1>5. gf.pc = "trace" /\ gf.seen = 0 /\ gf.cmd = <<>> /\ gf.count = 0 /\ gf.batch = b
  BY <1>1
<1> QED
  BY <1>2, <1>3, <1>4, <1>5 DEF GfwhereInv, LocalityFound

\* The fields of gf.
GfShape == /\ gf.pc \in {"trace", "list", "locality", "done"}
           /\ gf.batch \in Seq(File \cup {NoInput}) /\ Len(gf.batch) \in Nat
           /\ gf.seen \in Nat /\ gf.rest \in Seq(File) /\ gf.cmd \in Seq(File) /\ gf.count \in Nat
           /\ DOMAIN where \subseteq File

LEMMA ShapeKnown == GfwhereTypeOK => GfShape
BY DEF GfwhereTypeOK, GfShape

LEMMA CollectKeeps ==
  ASSUME GfwhereInv, Collect
  PROVE  GfwhereInv'
<1>1. GfShape /\ gf.pc = "trace" /\ gf.seen < Len(gf.batch) /\ UNCHANGED where
  BY ShapeKnown DEF GfwhereInv, Collect
<1>2. PICK y \in File \cup {NoInput} : y = gf.batch[gf.seen + 1]
  BY <1>1 DEF GfShape
<1>3. PICK s \in Seq(File) : s = IF y = NoInput THEN gf.rest ELSE Append(gf.rest, y)
  <2>1. gf.rest \in Seq(File)
    BY <1>1 DEF GfShape
  <2>2. y # NoInput => Append(gf.rest, y) \in Seq(File)
    BY <1>2, <2>1
  <2> QED
    BY <2>1, <2>2
<1>4. gf' = [gf EXCEPT !.seen = gf.seen + 1, !.rest = s]
  BY <1>2, <1>3 DEF Collect
<1>5. GfwhereTypeOK'
  <2>1. PICK n \in Nat : n = gf.seen + 1
    BY <1>1 DEF GfShape
  <2>2. gf' = [gf EXCEPT !.seen = n, !.rest = s]
    BY <1>4, <2>1
  <2> QED
    BY <1>1, <2>2 DEF GfwhereInv, GfwhereTypeOK
<1>6. /\ gf'.pc = "trace" /\ gf'.batch = gf.batch /\ gf'.seen = gf.seen + 1 /\ gf'.rest = s
      /\ gf'.cmd = gf.cmd /\ gf'.count = gf.count
  BY <1>1, <1>4 DEF GfwhereInv, GfwhereTypeOK
<1>7. \A k \in 1..gf'.seen : gf.batch[k] # NoInput => gf.batch[k] \in Range(s)
  <2>1. Range(gf.rest) \subseteq Range(s) /\ (y # NoInput => y \in Range(s))
    BY <1>1, <1>2, <1>3, Elements DEF GfShape
  <2>2. \A k \in 1..gf.seen : gf.batch[k] # NoInput => gf.batch[k] \in Range(gf.rest)
    BY <1>1 DEF GfwhereInv
  <2>3. \A k \in 1..gf'.seen : k \in 1..gf.seen \/ k = gf.seen + 1
    BY <1>1, <1>6 DEF GfShape
  <2> QED
    BY <1>2, <2>1, <2>2, <2>3
<1>8. gf'.seen <= Len(gf'.batch)
  BY <1>1, <1>6 DEF GfShape
<1> QED
  BY <1>1, <1>5, <1>6, <1>7, <1>8 DEF GfwhereInv, LocalityFound

LEMMA OnTraceKeeps ==
  ASSUME GfwhereInv, OnTrace
  PROVE  GfwhereInv'
<1>1. GfShape /\ gf.pc = "trace" /\ gf.seen = Len(gf.batch) /\ UNCHANGED where
  BY ShapeKnown DEF GfwhereInv, OnTrace
<1>2. gf' = [gf EXCEPT !.pc = "list"]
  BY DEF OnTrace
<1>3. GfwhereTypeOK'
  BY <1>1, <1>2 DEF GfwhereInv, GfwhereTypeOK
<1>4. /\ gf'.pc = "list" /\ gf'.batch = gf.batch /\ gf'.rest = gf.rest
      /\ gf'.cmd = gf.cmd /\ gf'.count = gf.count
  BY <1>1, <1>2 DEF GfwhereInv, GfwhereTypeOK
<1>5. \A k \in 1..Len(gf.batch) : gf.batch[k] # NoInput => gf.batch[k] \in Range(gf.rest)
  BY <1>1 DEF GfwhereInv
<1> QED
  BY <1>1, <1>3, <1>4, <1>5 DEF GfwhereInv, LocalityFound, Waits

LEMMA AddPathKeeps ==
  ASSUME GfwhereInv, AddPath
  PROVE  GfwhereInv'
<1>1. GfShape /\ gf.pc = "list" /\ gf.rest # <<>> /\ gf.count = Len(gf.cmd)
  BY ShapeKnown DEF GfwhereInv, AddPath
<1>2. PICK f \in File, t \in Seq(File) : f = Head(gf.rest) /\ t = Tail(gf.rest)
  <2>1. PICK s \in Seq(File) : s = gf.rest
    BY <1>1 DEF GfShape
  <2>2. Head(s) \in File /\ Tail(s) \in Seq(File)
    BY <1>1, <2>1
  <2> QED
    BY <2>1, <2>2
<1>3. Range(gf.rest) = {f} \cup Range(t)
  BY <1>1, <1>2, Elements DEF GfShape
<1>4. PICK full \in BOOLEAN : full <=> CmdSize(gf.cmd) + PathSize[f] + 1 > Limit
  OBVIOUS
<1>4a. PICK c : c = IF full THEN <<f>> ELSE Append(gf.cmd, f)
  OBVIOUS
<1>4b. PICK n : n = IF full THEN 1 ELSE gf.count + 1
  OBVIOUS
<1>5. /\ gf' = [gf EXCEPT !.rest = t, !.cmd = c, !.count = n]
      /\ IF full THEN RunCommand ELSE UNCHANGED where
  BY <1>2, <1>4, <1>4a, <1>4b DEF AddPath
<1>6. c \in Seq(File) /\ n \in Nat /\ n = Len(c)
  BY <1>1, <1>2, <1>4, <1>4a, <1>4b DEF GfShape
<1>7. Range(c) = IF full THEN {f} ELSE Range(gf.cmd) \cup {f}
  BY <1>1, <1>2, <1>4, <1>4a, <1>4b, Elements DEF GfShape
<1>8. /\ gf'.pc = "list" /\ gf'.batch = gf.batch /\ gf'.rest = t /\ gf'.cmd = c /\ gf'.count = n
  BY <1>1, <1>5 DEF GfwhereInv, GfwhereTypeOK
<1>9. /\ DOMAIN where' \subseteq File
      /\ \A g \in DOMAIN where' : where'[g] = Replicas[g]
      /\ \A g : Told(g) => Told(g)'
      /\ full => \A g \in Range(gf.cmd) : Told(g)'
  <2>1. \A g \in DOMAIN where : where[g] = Replicas[g]
    BY DEF GfwhereInv
  <2>2. CASE full
    BY <1>1, <1>5, <2>1, <2>2, CommandTells DEF GfShape
  <2>3. CASE ~full
    <3>1. UNCHANGED where
      BY <1>5, <2>3
    <3>2. \A g : Told(g) => Told(g)'
      BY <3>1 DEF Told
    <3> QED
      BY <1>1, <2>1, <2>3, <3>1, <3>2 DEF GfShape
  <2> QED
    BY <2>2, <2>3
<1>10. GfwhereTypeOK'
  <2>1. gf' \in [pc : {"trace", "list", "locality", "done"}, batch : Seq(File \cup {NoInput}),
                 seen : Nat, rest : Seq(File), cmd : Seq(File), count : Nat]
    BY <1>2, <1>5, <1>6 DEF GfwhereInv, GfwhereTypeOK
  <2> QED
    BY <1>9, <2>1 DEF GfwhereTypeOK
<1>11. \A g : Waits(g) \/ Told(g) => Waits(g)' \/ Told(g)'
  BY <1>3, <1>7, <1>8, <1>9 DEF Waits
<1>12. \A k \in 1..Len(gf.batch) : gf.batch[k] # NoInput => Waits(gf.batch[k]) \/ Told(gf.batch[k])
  BY <1>1 DEF GfwhereInv
<1>13. \A k \in 1..Len(gf'.batch) :
         gf'.batch[k] # NoInput => (Waits(gf.batch[k]) \/ Told(gf.batch[k]))'
  <2> SUFFICES ASSUME NEW k \in 1..Len(gf.batch), gf.batch[k] # NoInput
               PROVE  (Waits(gf.batch[k]) \/ Told(gf.batch[k]))'
    BY <1>8
  <2>1. PICK g : g = gf.batch[k]
    OBVIOUS
  <2>2. Waits(g)' \/ Told(g)'
    BY <1>11, <1>12, <2>1
  <2>3. g = gf'.batch[k]
    BY <1>8, <2>1
  <2> QED
    BY <2>2, <2>3 DEF Waits, Told
<1> QED
  BY <1>6, <1>8, <1>9, <1>10, <1>13 DEF GfwhereInv, LocalityFound

LEMMA LastCommandKeeps ==
  ASSUME GfwhereInv, LastCommand
  PROVE  GfwhereInv'
<1>1. GfShape /\ gf.pc = "list" /\ gf.rest = <<>> /\ gf.count = Len(gf.cmd)
  BY ShapeKnown DEF GfwhereInv, LastCommand
<1>2. /\ gf' = [gf EXCEPT !.pc = "locality"]
      /\ IF gf.count > 0 THEN RunCommand ELSE UNCHANGED where
  BY DEF LastCommand
<1>3. /\ gf'.pc = "locality" /\ gf'.batch = gf.batch /\ gf'.cmd = gf.cmd /\ gf'.count = gf.count
  BY <1>1, <1>2 DEF GfwhereInv, GfwhereTypeOK
<1>4. /\ DOMAIN where' \subseteq File
      /\ \A g \in DOMAIN where' : where'[g] = Replicas[g]
      /\ \A g : Told(g) => Told(g)'
      /\ \A g \in Range(gf.cmd) : Told(g)'
  <2>1. \A g \in DOMAIN where : where[g] = Replicas[g]
    BY DEF GfwhereInv
  <2>2. CASE gf.count > 0
    BY <1>1, <1>2, <2>1, <2>2, CommandTells DEF GfShape
  <2>3. CASE ~(gf.count > 0)
    <3>1. UNCHANGED where
      BY <1>2, <2>3
    <3>2. \A g : Told(g) => Told(g)'
      BY <3>1 DEF Told
    <3>3. gf.cmd = <<>>
      BY <1>1, <2>3 DEF GfShape
    <3>4. Range(gf.cmd) = {}
      BY <3>3, Elements
    <3> QED
      BY <1>1, <2>1, <3>1, <3>2, <3>4 DEF GfShape
  <2> QED
    BY <2>2, <2>3
<1>5. GfwhereTypeOK'
  <2>1. gf' \in [pc : {"trace", "list", "locality", "done"}, batch : Seq(File \cup {NoInput}),
                 seen : Nat, rest : Seq(File), cmd : Seq(File), count : Nat]
    BY <1>2 DEF GfwhereInv, GfwhereTypeOK
  <2> QED
    BY <1>4, <2>1 DEF GfwhereTypeOK
<1>6. Range(gf.rest) = {}
  BY <1>1, Elements
<1>7. \A k \in 1..Len(gf'.batch) : gf'.batch[k] # NoInput => Told(gf.batch[k])'
  <2> SUFFICES ASSUME NEW k \in 1..Len(gf.batch), gf.batch[k] # NoInput
               PROVE  Told(gf.batch[k])'
    BY <1>3
  <2>1. PICK g : g = gf.batch[k]
    OBVIOUS
  <2>2. Waits(g) \/ Told(g)
    BY <1>1, <2>1 DEF GfwhereInv
  <2>3. Told(g)'
    BY <1>4, <1>6, <2>2 DEF Waits
  <2>4. g = gf'.batch[k]
    BY <1>3, <2>1
  <2> QED
    BY <2>3, <2>4 DEF Told
<1> QED
  BY <1>1, <1>3, <1>4, <1>5, <1>7 DEF GfwhereInv, LocalityFound

LEMMA SetLocalityKeeps ==
  ASSUME GfwhereInv, SetLocality
  PROVE  GfwhereInv'
<1>1. GfShape /\ gf.pc = "locality" /\ UNCHANGED where
  BY ShapeKnown DEF GfwhereInv, SetLocality
<1>2. /\ gf' = [gf EXCEPT !.pc = "done"]
      /\ local' = [i \in DOMAIN gf.batch |-> IF gf.batch[i] \in DOMAIN where THEN where[gf.batch[i]]
                                             ELSE {}]
  BY DEF SetLocality
<1>3. GfwhereTypeOK'
  BY <1>1, <1>2 DEF GfwhereInv, GfwhereTypeOK
<1>4. /\ gf'.pc = "done" /\ gf'.batch = gf.batch /\ gf'.cmd = gf.cmd /\ gf'.count = gf.count
  BY <1>1, <1>2 DEF GfwhereInv, GfwhereTypeOK
<1>5. DOMAIN gf.batch = 1..Len(gf.batch)
  BY <1>1 DEF GfShape
<1>6. \A k \in DOMAIN gf.batch : gf.batch[k] # NoInput => local'[k] = Replicas[gf.batch[k]]
  BY <1>1, <1>2, <1>5 DEF GfwhereInv, Told
<1>7. LocalityFound'
  BY <1>4, <1>6 DEF LocalityFound
<1> QED
  BY <1>1, <1>3, <1>4, <1>7 DEF GfwhereInv

LEMMA GfwhereStutter ==
  ASSUME GfwhereInv, UNCHANGED wvars
  PROVE  GfwhereInv'
BY DEF wvars, GfwhereInv, GfwhereTypeOK, LocalityFound, Told, Waits

\* Every file of the list waits for a command, or the result holds its hosts, or it has none.
THEOREM BatchesAreAsked == GfwhereSpec => []GfwhereInv
<1>1. GfwhereInit => GfwhereInv
  BY GfwhereStarts
<1>2. GfwhereInv /\ [GfwhereNext]_wvars => GfwhereInv'
  BY CollectKeeps, OnTraceKeeps, AddPathKeeps, LastCommandKeeps, SetLocalityKeeps, GfwhereStutter
     DEF GfwhereNext
<1> QED
  BY <1>1, <1>2, PTL DEF GfwhereSpec

\* Every task of a batch gets the hosts of its file, wherever the limit of a command's
\* length splits the list (GfarmSSH.gfwhere).
THEOREM EveryLocalityIsFound == GfwhereSpec => []LocalityFound
<1>1. GfwhereInv => LocalityFound
  BY DEF GfwhereInv
<1> QED
  BY <1>1, BatchesAreAsked, PTL
=============================================================================
