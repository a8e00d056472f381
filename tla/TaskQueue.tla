------------------------------ MODULE TaskQueue ------------------------------
(***************************************************************************)
(* TaskQueue (scheduler.rb): the queue the worker threads take tasks from. *)
(* Its lists are guarded by a mutex @m and a condition variable @cv.  pop  *)
(* blocks; push and stop hold the mutex; finish and thread_end do NOT hold *)
(* it when they write @finished or @th_end and signal.                     *)
(*                                                                         *)
(* at[v] is where thread v is:                                             *)
(*   "out"     not in a method of the queue                                *)
(*   "push"    in push, holding @m                                         *)
(*   "test"    in pop, holding @m, at the test of @th_end                  *)
(*   "scan"    in pop, holding @m, at the test of @finished                *)
(*   "wait"    in pop, holding @m, about to call @cv.wait                  *)
(*   "asleep"  in @cv.wait                                                 *)
(*   "woken"   signalled, and waiting for @m                               *)
(*   "fin"     in finish, between the assignment and the signal            *)
(*   "bcast"   in thread_end, between the push and the broadcast           *)
(*   "ended"   its pop returned false, or it died in stop                  *)
(*   "unborn"  a nested worker that is not started yet                     *)
(*                                                                         *)
(* Ruby's Mutex and ConditionVariable are modelled from their use here: a  *)
(* signal wakes the thread that has waited longest, the model any waiter.  *)
(***************************************************************************)
EXTENDS HostQueue, FiniteSets

CONSTANTS Worker,    \* the threads Operator#initialize starts, one per core
          Nested,    \* the extra workers Operator#invoke starts
          Main,      \* the main thread, which never pops
          HostOf,    \* conn.host of each worker
          NoThread

Thread == Worker \cup Nested
Caller == Thread \cup {Main}

ASSUME ThreadAssumption ==
  /\ Worker # {}
  /\ Worker \cap Nested = {}
  /\ Main \notin Thread
  /\ NoThread \notin Caller
  /\ HostOf \in [Thread -> Host]
  /\ \A h \in Host : \E t \in Worker : HostOf[t] = h

VARIABLES q,         \* @q
          finished,  \* @finished
          thEnd,     \* @th_end
          m,         \* @m: the thread that holds it
          at,        \* see above
          n,         \* the local n of pop
          got        \* the task pop returned last to a worker that is "out"

qvars == <<q, finished, thEnd, m, at, n, got>>

None == "none"

Place == {"out", "push", "test", "scan", "wait", "asleep", "woken", "fin",
          "bcast", "ended", "unborn"}

TypeOK ==
  /\ q \in [Host -> Seq(Task)]
  /\ finished \in BOOLEAN
  /\ thEnd \in Seq(Nested)
  /\ m \in Caller \cup {NoThread}
  /\ at \in [Caller -> Place]
  /\ n \in [Thread -> 0..2]
  /\ got \in [Thread -> Task \cup {None}]

Waiters == {t \in Thread : at[t] = "asleep"}

QInit ==
  /\ q = EmptyLists
  /\ finished = FALSE
  /\ thEnd = <<>>
  /\ m = NoThread
  /\ at = [v \in Caller |-> IF v \in Nested THEN "unborn" ELSE "out"]
  /\ n = [t \in Thread |-> 0]
  /\ got = [t \in Thread |-> None]

-----------------------------------------------------------------------------
(* The condition variable.  Both give the new value of at, v having moved   *)
(* to the place p in the same step.                                         *)

Signal(v, p) ==
  IF Waiters = {}
    THEN at' = [at EXCEPT ![v] = p]
    ELSE \E w \in Waiters : at' = [at EXCEPT ![v] = p, ![w] = "woken"]

Broadcast(v, p) ==
  at' = [u \in Caller |-> IF u = v THEN p
                          ELSE IF u \in Waiters THEN "woken" ELSE at[u]]

-----------------------------------------------------------------------------
(* push(tasks): one PushTask for each task, then one signal for all.        *)

PushEnter(v) ==
  /\ at[v] = "out"
  /\ m = NoThread
  /\ m' = v
  /\ at' = [at EXCEPT ![v] = "push"]
  /\ UNCHANGED <<q, finished, thEnd, n, got>>

PushTask(v, j) ==
  /\ at[v] = "push"
  /\ \E S \in Targets(j) : q' = PushTo(q, j, S)
  /\ UNCHANGED <<finished, thEnd, m, at, n, got>>

\* Mutant of PushLeave: no signal.
PushLeaveSilent(v) ==
  /\ at[v] = "push"
  /\ at' = [at EXCEPT ![v] = "out"]
  /\ m' = NoThread
  /\ UNCHANGED <<q, finished, thEnd, n, got>>

PushLeave(v) ==
  /\ at[v] = "push"
  /\ Signal(v, "out")
  /\ m' = NoThread
  /\ UNCHANGED <<q, finished, thEnd, n, got>>

-----------------------------------------------------------------------------
(* pop(host)                                                                *)

\* The lock is taken, on entry or when cv.wait returns.
PopEnter(t) ==
  /\ at[t] \in {"out", "woken"}
  /\ m = NoThread
  /\ m' = t
  /\ n' = IF at[t] = "out" THEN [n EXCEPT ![t] = 0] ELSE n
  /\ got' = [got EXCEPT ![t] = None]
  /\ at' = [at EXCEPT ![t] = "test"]
  /\ UNCHANGED <<q, finished, thEnd>>

PopTest(t) ==
  /\ at[t] = "test"
  /\ IF thEnd # <<>> /\ Head(thEnd) = t
       THEN /\ thEnd' = Tail(thEnd)
            /\ m' = NoThread
            /\ at' = [at EXCEPT ![t] = "ended"]
       ELSE /\ at' = [at EXCEPT ![t] = "scan"]
            /\ UNCHANGED <<thEnd, m>>
  /\ UNCHANGED <<q, finished, n, got>>

\* Mutant of PopFinished: no signal.
PopFinishedSilent(t) ==
  /\ at[t] = "scan"
  /\ finished
  /\ at' = [at EXCEPT ![t] = "ended"]
  /\ m' = NoThread
  /\ UNCHANGED <<q, finished, thEnd, n, got>>

PopFinished(t) ==
  /\ at[t] = "scan"
  /\ finished
  /\ Signal(t, "ended")
  /\ m' = NoThread
  /\ UNCHANGED <<q, finished, thEnd, n, got>>

\* Mutant of PopReturn: the signal is not passed on.
PopReturnSilent(t) ==
  /\ at[t] = "scan"
  /\ ~finished
  /\ q[HostOf[t]] # <<>>
  /\ q' = PopFrom(q, HostOf[t])
  /\ got' = [got EXCEPT ![t] = Head(q[HostOf[t]])]
  /\ at' = [at EXCEPT ![t] = "out"]
  /\ m' = NoThread
  /\ UNCHANGED <<finished, thEnd, n>>

\* A task is returned: of the list of the worker's host or, on the third turn
\* of the loop, of the best other list.
PopReturn(t) ==
  /\ at[t] = "scan"
  /\ ~finished
  /\ \E h \in Host :
       /\ IF q[HostOf[t]] # <<>>
            THEN h = HostOf[t]
            ELSE n[t] > 1 /\ h \in AltHosts(q, HostOf[t])
       /\ q' = PopFrom(q, h)
       /\ got' = [got EXCEPT ![t] = Head(q[h])]
  /\ Signal(t, "out")
  /\ m' = NoThread
  /\ UNCHANGED <<finished, thEnd, n>>

\* There are tasks, but none for this worker yet: another one is tried.
PopSkip(t) ==
  /\ at[t] = "scan"
  /\ ~finished
  /\ ~IsEmpty(q)
  /\ q[HostOf[t]] = <<>>
  /\ ~(n[t] > 1)
  /\ n' = [n EXCEPT ![t] = @ + 1]
  /\ Signal(t, "wait")
  /\ UNCHANGED <<q, finished, thEnd, m, got>>

PopEmpty(t) ==
  /\ at[t] = "scan"
  /\ ~finished
  /\ IsEmpty(q)
  /\ at' = [at EXCEPT ![t] = "wait"]
  /\ UNCHANGED <<q, finished, thEnd, m, n, got>>

PopWait(t) ==
  /\ at[t] = "wait"
  /\ at' = [at EXCEPT ![t] = "asleep"]
  /\ m' = NoThread
  /\ UNCHANGED <<q, finished, thEnd, n, got>>

Pop(t) == \/ PopEnter(t) \/ PopTest(t) \/ PopFinished(t) \/ PopReturn(t)
          \/ PopSkip(t) \/ PopEmpty(t) \/ PopWait(t)

-----------------------------------------------------------------------------
(* finish, called by Operator#finish, without the lock                      *)

FinishSet(v) ==
  /\ at[v] = "out"
  /\ finished' = TRUE
  /\ at' = [at EXCEPT ![v] = "fin"]
  /\ UNCHANGED <<q, thEnd, m, n, got>>

FinishSignal(v) ==
  /\ at[v] = "fin"
  /\ Signal(v, "out")
  /\ UNCHANGED <<q, finished, thEnd, m, n, got>>

\* stop, called by a worker whose task failed, which then dies.
Stop(t) ==
  /\ at[t] = "out"
  /\ m = NoThread
  /\ q' = EmptyLists
  /\ finished' = TRUE
  /\ Signal(t, "ended")
  /\ UNCHANGED <<thEnd, m, n, got>>

-----------------------------------------------------------------------------
(* Nested workers: started by Operator#invoke, told to end by thread_end    *)

Spawn(c) ==
  /\ at[c] = "unborn"
  /\ at' = [at EXCEPT ![c] = "out"]
  /\ UNCHANGED <<q, finished, thEnd, m, n, got>>

ThreadEnd(v, c) ==
  /\ at[v] = "out"
  /\ thEnd' = Append(thEnd, c)
  /\ at' = [at EXCEPT ![v] = "bcast"]
  /\ UNCHANGED <<q, finished, m, n, got>>

ThreadEndBroadcast(v) ==
  /\ at[v] = "bcast"
  /\ Broadcast(v, "out")
  /\ UNCHANGED <<q, finished, thEnd, m, n, got>>

-----------------------------------------------------------------------------
(* The most general flat client: no nested workers.  The main thread pushes *)
(* tasks that are in no list, and finishes; a worker fails or comes back.   *)

Queued(j) == \E h \in Host : In(j, q[h])

MainNext ==
  \/ PushEnter(Main)
  \/ \E j \in Task : ~Queued(j) /\ PushTask(Main, j)
  \/ PushLeave(Main)
  \/ FinishSet(Main)
  \/ FinishSignal(Main)

QNext == MainNext \/ \E t \in Worker : Pop(t) \/ Stop(t)

QSpec == QInit /\ [][QNext]_qvars

-----------------------------------------------------------------------------
(* Properties.                                                              *)

OneList    == \A h, k \in Host : h = k
TwoWorkers == \E t, u \in Worker : t # u

Critical == {"push", "test", "scan", "wait"}
Awake    == {"out", "woken", "test", "scan"}

(* Locking: the mutex is held exactly by the thread that is inside push, or *)
(* inside the loop of pop (@m.synchronize, @cv.wait).                       *)
LockDiscipline == \A v \in Caller : m = v <=> at[v] \in Critical

(* The control state of a queue without nested workers.                     *)
Flat ==
  /\ LockDiscipline
  /\ thEnd = <<>>
  /\ at[Main] \in {"out", "push", "fin"}
  /\ \A c \in Nested : at[c] = "unborn"
  /\ \A t \in Worker : at[t] \notin {"push", "fin", "bcast", "unborn"}

(* A worker leaves only after @finished is set, and then no other worker is *)
(* about to wait any more.                                                  *)
EndedLast ==
  \A u \in Worker : at[u] = "ended" =>
     finished /\ \A t \in Worker : at[t] # "wait"

(* The signals of push and pop lose no task: while a task is queued, it     *)
(* never happens that every worker is waiting on @cv (or about to), although *)
(* a push signals once for many tasks and a worker may go back to sleep     *)
(* because the task is another host's.                                      *)
NotAllAsleep ==
  ~IsEmpty(q) /\ ~finished =>
     \/ \E t \in Worker : at[t] \in Awake
     \/ at[Main] = "push"

(* With one list (SimpleQueue) more is true: a queued task and an idle      *)
(* worker never wait for each other; some worker has been woken and has     *)
(* still to look at the list.                                               *)
NoIdleWorker ==
  OneList /\ ~IsEmpty(q) /\ ~finished /\ Waiters # {} =>
     \/ \E t \in Thread : at[t] \in {"woken", "test", "scan"}
     \/ \E v \in Caller : at[v] = "push"

(* finish reaches every worker: finish signals one thread, and without the  *)
(* lock.  As long as a worker sleeps through it, another one is on its way  *)
(* to see @finished and to pass the signal on.  It takes TwoWorkers.        *)
NoStrandedWorker ==
  finished /\ (\E t \in Worker : at[t] \in {"wait", "asleep"}) =>
     \/ \E t \in Worker : at[t] \in Awake
     \/ at[Main] = "fin"

(* How tasks are stored: a list holds a task at most once, and only a task  *)
(* with several hosts in its locality is in several lists, those of its     *)
(* hosts, from which PopFrom deletes it.                                    *)
NoTwice(s) == \A i, k \in 1..Len(s) : s[i] = s[k] => i = k

Stored ==
  /\ \A h \in Host : NoTwice(q[h])
  /\ \A h, k \in Host, j \in Task :
       In(j, q[h]) /\ In(j, q[k]) => h = k \/ {h, k} \subseteq Locality[j]

(* A task that pop hands to a worker is in no list any more: no other       *)
(* worker, of whichever host, can be handed it too.                         *)
HandedOutOnce ==
  [][\A t \in Worker : got'[t] \notin {got[t], None} =>
        ~\E h \in Host : In(got'[t], q'[h])]_qvars
=============================================================================
