------------------------------ MODULE Operator ------------------------------
(***************************************************************************)
(* Operator (algorithm.rb) and the overrides of Rake that call it          *)
(* (rake_mod.rb): the worker threads, TaskQueue and Tracer put together.   *)
(*                                                                         *)
(* The main thread invokes the roots of Program, one after the other.  An  *)
(* invoke asks the tracer for a batch, pushes it to the queue, waits for   *)
(* as many tasks as the batch holds on its own output queue, and asks      *)
(* again until the tracer returns nil.  A worker pops a task, marks it,    *)
(* runs its action and pushes it to the task's output queue.  An action    *)
(* may itself invoke tasks (Sub): the worker then starts a nested worker   *)
(* on its connection and becomes an invoker until they are done.           *)
(*                                                                         *)
(* pc[v] is where thread v is:                                             *)
(*   "prog"    main: before the next entry of Program                      *)
(*   "trace" "assign" "push" "await"   in the loop of invoke               *)
(*   "end" "bcast" "join"   a worker: thread_end and join of its nested    *)
(*             worker; main: "join" of the workers in finish               *)
(*   "finish" "fin"   main: in finish                                      *)
(*   "pop" "start" "body"   a worker: in thread_loop                       *)
(*   "stop"    a worker: an exception reached standard_exception_handling  *)
(*   "dead"    a worker: its thread has ended                              *)
(*   "exit"    main: the process has exited, and with it every thread      *)
(***************************************************************************)
EXTENDS TaskQueue

CONSTANTS Graphs, Optional, MaxRef,
          WorkerSeq,   \* @workers, in order
          Program,     \* what main invokes: records [root, top]; top says
                       \* that it is a target of the command line
          Sub,         \* Sub[j]: the tasks that the action of j invokes
          CanFail      \* tasks whose action may raise an exception

ASSUME OperatorAssumption ==
  /\ Graphs \subseteq [Task -> Seq(Task)]
  /\ Optional \subseteq Task
  /\ MaxRef \in Nat
  /\ \A t \in Worker : \E i \in 1..Len(WorkerSeq) : WorkerSeq[i] = t
  /\ Program \in Seq([root : Task, top : BOOLEAN])
  /\ Sub \in [Task -> Seq(Task)]
  /\ CanFail \subseteq Task

VARIABLES prereq, invoked, fetched, footprint, current, array, mutex, stack,
          where, ret, batch

T == INSTANCE Tracer

VARIABLES pc,
          k,        \* the index of the loop a thread is in
          outq,     \* output_queue of the invoke in progress
          outOf,    \* task.output_queue: the invoker whose queue it is
          child,    \* the nested worker of a worker that is in invoke
          sub,      \* the invocation of its action a worker is at
          prog,     \* the entry of Program main is at
          failing,  \* main is leaving by an exception
          pending,  \* a SystemExit of a worker is on its way to main
          failed,   \* the workers that died of an exception
          begun,    \* how often the action of a task was begun
          done      \* the tasks whose action was completed

tvars == <<prereq, invoked, fetched, footprint, current, array, mutex, stack,
           where, ret, batch>>
ovars == <<pc, k, outq, outOf, child, sub, prog, failing, pending, failed,
           begun, done>>
vars  == <<qvars, tvars, ovars>>

Init ==
  /\ QInit /\ T!TInit
  /\ pc = [v \in Caller |-> IF v = Main THEN "prog" ELSE "pop"]
  /\ k = [v \in Caller |-> 1]
  /\ outq = [v \in Caller |-> <<>>]
  /\ outOf = [j \in Task |-> NoThread]
  /\ child = [t \in Thread |-> NoThread]
  /\ sub = [t \in Thread |-> 1]
  /\ prog = 1
  /\ failing = FALSE /\ pending = FALSE
  /\ failed = {}
  /\ begun = [j \in Task |-> 0]
  /\ done = {}

Goto(v, p) == pc' = [pc EXCEPT ![v] = p]
Count(v)   == k' = [k EXCEPT ![v] = @ + 1]
Reset(v)   == k' = [k EXCEPT ![v] = 1]

RootOf(v) == IF v = Main THEN Program[prog].root ELSE Sub[got[v]][sub[v]]

\* The array a of the invoke of v, as it is now.
Batch(v) == array[batch[v]]

\* An exception leaves invoke.  A worker comes to standard_exception_handling;
\* main to the ensure of invoke_task, or out of the Rakefile.
Raise(v) ==
  /\ Goto(v, IF v # Main THEN "stop"
             ELSE IF Program[prog].top THEN "finish" ELSE "exit")
  /\ failing' = (failing \/ v = Main)

-----------------------------------------------------------------------------
(* invoke                                                                   *)

\* output_queue = Queue.new: the tasks that still refer to the queue of an
\* earlier invoke of v refer to one that nobody reads.
NewOutputQueue(v) ==
  /\ outq' = [outq EXCEPT ![v] = <<>>]
  /\ outOf' = [j \in Task |-> IF outOf[j] = v THEN NoThread ELSE outOf[j]]

InvokeMain ==
  /\ pc[Main] = "prog"
  /\ prog <= Len(Program)
  /\ NewOutputQueue(Main)
  /\ Goto(Main, "trace")
  /\ UNCHANGED <<qvars, tvars, k, child, sub, prog, failing, pending, failed,
                 begun, done>>

\* The nested worker shares the connection, hence the host.
InvokeNested(t) ==
  /\ pc[t] = "body"
  /\ sub[t] <= Len(Sub[got[t]])
  /\ \E c \in Nested : /\ HostOf[c] = HostOf[t]
                       /\ Spawn(c)
                       /\ child' = [child EXCEPT ![t] = c]
  /\ NewOutputQueue(t)
  /\ Goto(t, "trace")
  /\ UNCHANGED <<tvars, k, sub, prog, failing, pending, failed, begun, done>>

Trace(v) ==
  /\ pc[v] = "trace"
  /\ \/ T!ClearFootprint(v) \/ T!ClearFetched(v) \/ T!Enter(v, RootOf(v))
     \/ T!Search(v)
  /\ UNCHANGED <<qvars, ovars>>

TraceRaise(v) ==
  /\ pc[v] = "trace"
  /\ \E j \in Task : T!VisitCircular(v, j)
  /\ Raise(v)
  /\ UNCHANGED <<qvars, k, outq, outOf, child, sub, prog, pending, failed,
                 begun, done>>

\* nil ends the loop of invoke; main goes on to finish for a target.
TraceReturn(v) ==
  /\ pc[v] = "trace"
  /\ T!Return(v)
  /\ IF ret'[v] = "tasks"
       THEN Goto(v, "assign") /\ UNCHANGED prog
       ELSE IF v # Main
         THEN Goto(v, "end") /\ UNCHANGED prog
         ELSE IF Program[prog].top
           THEN Goto(v, "finish") /\ UNCHANGED prog
           ELSE Goto(v, "prog") /\ prog' = prog + 1
  /\ Reset(v)
  /\ UNCHANGED <<qvars, outq, outOf, child, sub, failing, pending, failed,
                 begun, done>>

\* a.each{|task| task.output_queue = output_queue }
Assign(v) ==
  /\ pc[v] = "assign"
  /\ k[v] <= Len(Batch(v))
  /\ outOf' = [outOf EXCEPT ![Batch(v)[k[v]]] = v]
  /\ Count(v)
  /\ UNCHANGED <<qvars, tvars, pc, outq, child, sub, prog, failing, pending,
                 failed, begun, done>>

\* Mutant of Push: the first task of the batch is pushed each time.
PushFirst(v) ==
  /\ \/ /\ pc[v] = "assign"
        /\ k[v] > Len(Batch(v))
        /\ PushEnter(v)
        /\ Goto(v, "push") /\ Reset(v)
     \/ /\ pc[v] = "push"
        /\ k[v] <= Len(Batch(v))
        /\ PushTask(v, Batch(v)[1])
        /\ Count(v) /\ UNCHANGED pc
     \/ /\ pc[v] = "push"
        /\ k[v] > Len(Batch(v))
        /\ PushLeave(v)
        /\ Goto(v, "await") /\ Reset(v)
  /\ UNCHANGED <<tvars, outq, outOf, child, sub, prog, failing, pending,
                 failed, begun, done>>

\* @input_queue.push(a)
Push(v) ==
  /\ \/ /\ pc[v] = "assign"
        /\ k[v] > Len(Batch(v))
        /\ PushEnter(v)
        /\ Goto(v, "push") /\ Reset(v)
     \/ /\ pc[v] = "push"
        /\ k[v] <= Len(Batch(v))
        /\ PushTask(v, Batch(v)[k[v]])
        /\ Count(v) /\ UNCHANGED pc
     \/ /\ pc[v] = "push"
        /\ k[v] > Len(Batch(v))
        /\ PushLeave(v)
        /\ Goto(v, "await") /\ Reset(v)
  /\ UNCHANGED <<tvars, outq, outOf, child, sub, prog, failing, pending,
                 failed, begun, done>>

\* b = output_queue.pop, which raises an exception if b is not in the batch.
Await(v) ==
  /\ pc[v] = "await"
  /\ k[v] <= Len(Batch(v))
  /\ outq[v] # <<>>
  /\ outq' = [outq EXCEPT ![v] = Tail(@)]
  /\ IF In(Head(outq[v]), Batch(v))
       THEN Count(v) /\ UNCHANGED <<pc, failing>>
       ELSE Raise(v) /\ UNCHANGED k
  /\ UNCHANGED <<qvars, tvars, outOf, child, sub, prog, pending, failed,
                 begun, done>>

\* Mutant of AwaitEnd: the last task of the batch is not waited for.
AwaitEndEarly(v) ==
  /\ pc[v] = "await"
  /\ k[v] >= Len(Batch(v))
  /\ Goto(v, "trace")
  /\ UNCHANGED <<qvars, tvars, k, outq, outOf, child, sub, prog, failing,
                 pending, failed, begun, done>>

AwaitEnd(v) ==
  /\ pc[v] = "await"
  /\ k[v] > Len(Batch(v))
  /\ Goto(v, "trace")
  /\ UNCHANGED <<qvars, tvars, k, outq, outOf, child, sub, prog, failing,
                 pending, failed, begun, done>>

\* thread_end, and the join of the nested worker, which raises the exception
\* that worker died of.
EndNested(t) ==
  /\ \/ pc[t] = "end" /\ ThreadEnd(t, child[t]) /\ Goto(t, "bcast")
     \/ pc[t] = "bcast" /\ ThreadEndBroadcast(t) /\ Goto(t, "join")
  /\ UNCHANGED <<tvars, k, outq, outOf, child, sub, prog, failing, pending,
                 failed, begun, done>>

JoinNested(t) ==
  /\ pc[t] = "join"
  /\ at[child[t]] = "ended"
  /\ child' = [child EXCEPT ![t] = NoThread]
  /\ IF child[t] \in failed
       THEN Raise(t) /\ UNCHANGED sub
       ELSE Goto(t, "body") /\ sub' = [sub EXCEPT ![t] = @ + 1] /\ UNCHANGED failing
  /\ UNCHANGED <<qvars, tvars, k, outq, outOf, prog, pending, failed, begun, done>>

Invoke(v) == Trace(v) \/ TraceRaise(v) \/ TraceReturn(v) \/ Assign(v) \/ Push(v)
             \/ Await(v) \/ AwaitEnd(v)

-----------------------------------------------------------------------------
(* thread_loop and standard_exception_handling                              *)

PopTask(t) ==
  /\ pc[t] = "pop"
  /\ Pop(t)
  /\ Goto(t, CASE at'[t] = "out" -> "start"
               [] at'[t] = "ended" -> "dead"
               [] OTHER -> "pop")
  /\ UNCHANGED <<tvars, k, outq, outOf, child, sub, prog, failing, pending,
                 failed, begun, done>>

\* task.already_invoked = true, and then the action begins.
StartTask(t) ==
  /\ pc[t] = "start"
  /\ T!MarkInvoked(got[t])
  /\ begun' = [begun EXCEPT ![got[t]] = @ + 1]
  /\ sub' = [sub EXCEPT ![t] = 1]
  /\ Goto(t, "body")
  /\ UNCHANGED <<qvars, k, outq, outOf, child, prog, failing, pending, failed,
                 done>>

\* The action is over: task.output_queue.push(task).
EndTask(t) ==
  /\ pc[t] = "body"
  /\ sub[t] > Len(Sub[got[t]])
  /\ done' = done \cup {got[t]}
  /\ outq' = IF outOf[got[t]] = NoThread THEN outq
             ELSE [outq EXCEPT ![outOf[got[t]]] = Append(@, got[t])]
  /\ Goto(t, "pop")
  /\ UNCHANGED <<qvars, tvars, k, outOf, child, sub, prog, failing, pending,
                 failed, begun>>

\* Mutant of FailTask: the task is pushed to the output queue (an ensure).
FailTaskOutput(t) ==
  /\ pc[t] = "body"
  /\ got[t] \in CanFail
  /\ outq' = [outq EXCEPT ![outOf[got[t]]] = Append(@, got[t])]
  /\ Goto(t, "stop")
  /\ UNCHANGED <<qvars, tvars, k, outOf, child, sub, prog, failing, pending,
                 failed, begun, done>>

FailTask(t) ==
  /\ pc[t] = "body"
  /\ got[t] \in CanFail
  /\ Goto(t, "stop")
  /\ UNCHANGED <<qvars, tvars, k, outq, outOf, child, sub, prog, failing,
                 pending, failed, begun, done>>

\* Mutant of StopWorker: the thread dies without exit.
StopWorkerQuietly(t) ==
  /\ pc[t] = "stop"
  /\ Stop(t)
  /\ failed' = failed \cup {t}
  /\ Goto(t, "dead")
  /\ UNCHANGED <<tvars, k, outq, outOf, child, sub, prog, failing, pending,
                 begun, done>>

\* @input_queue.stop, and exit: the thread dies of a SystemExit, which Ruby
\* raises in the main thread as well.
StopWorker(t) ==
  /\ pc[t] = "stop"
  /\ Stop(t)
  /\ failed' = failed \cup {t}
  /\ pending' = TRUE
  /\ Goto(t, "dead")
  /\ UNCHANGED <<tvars, k, outq, outOf, child, sub, prog, failing, begun, done>>

ThreadNext(t) ==
  \/ PopTask(t) \/ StartTask(t) \/ EndTask(t) \/ FailTask(t) \/ StopWorker(t)
  \/ InvokeNested(t) \/ Invoke(t) \/ EndNested(t) \/ JoinNested(t)

-----------------------------------------------------------------------------
(* finish, and the end of the main thread                                   *)

\* Mutant of FinishMain: no signal.
FinishMainSilent ==
  /\ pc[Main] = "finish"
  /\ FinishSet(Main)
  /\ Goto(Main, "join") /\ Reset(Main)
  /\ UNCHANGED <<tvars, outq, outOf, child, sub, prog, failing, pending, failed,
                 begun, done>>

FinishMain ==
  /\ \/ pc[Main] = "finish" /\ FinishSet(Main) /\ Goto(Main, "fin") /\ UNCHANGED k
     \/ pc[Main] = "fin" /\ FinishSignal(Main) /\ Goto(Main, "join") /\ Reset(Main)
  /\ UNCHANGED <<tvars, outq, outOf, child, sub, prog, failing, pending, failed,
                 begun, done>>

\* @workers.each{|t| t.join }: joining one that died of an exception raises it.
JoinMain ==
  /\ pc[Main] = "join"
  /\ IF k[Main] <= Len(WorkerSeq)
       THEN LET w == WorkerSeq[k[Main]] IN
            /\ at[w] = "ended"
            /\ IF w \in failed
                 THEN Goto(Main, "exit") /\ failing' = TRUE /\ UNCHANGED k
                 ELSE Count(Main) /\ UNCHANGED <<pc, failing>>
            /\ UNCHANGED prog
       ELSE /\ IF failing
                 THEN Goto(Main, "exit") /\ UNCHANGED prog
                 ELSE Goto(Main, "prog") /\ prog' = prog + 1
            /\ UNCHANGED <<k, failing>>
  /\ UNCHANGED <<qvars, tvars, outq, outOf, child, sub, pending, failed, begun,
                 done>>

ExitMain ==
  /\ pc[Main] = "prog"
  /\ prog > Len(Program)
  /\ Goto(Main, "exit")
  /\ UNCHANGED <<qvars, tvars, k, outq, outOf, child, sub, prog, failing,
                 pending, failed, begun, done>>

\* The SystemExit of a worker reaches main, wherever it is: in invoke it leads
\* to the ensure of invoke_task, in finish out of it.  Locks are released.
Interrupt ==
  /\ pending
  /\ pending' = FALSE
  /\ failing' = TRUE
  /\ Goto(Main, IF /\ pc[Main] \in {"trace", "assign", "push", "await"}
                   /\ Program[prog].top
                  THEN "finish" ELSE "exit")
  /\ at' = [at EXCEPT ![Main] = "out"]
  /\ m' = IF m = Main THEN NoThread ELSE m
  /\ T!Abort(Main)
  /\ UNCHANGED <<q, finished, thEnd, n, got, k, outq, outOf, child, sub, prog,
                 failed, begun, done>>

MainThread ==
  \/ InvokeMain \/ Invoke(Main) \/ FinishMain \/ JoinMain \/ ExitMain \/ Interrupt

-----------------------------------------------------------------------------
Running == pc[Main] # "exit"

\* The process has exited.
Exited == ~Running /\ UNCHANGED vars

Next ==
  \/ Running /\ (MainThread \/ \E t \in Thread : ThreadNext(t))
  \/ Exited

Fairness ==
  /\ WF_vars(Running /\ MainThread)
  /\ WF_vars(Running /\ Interrupt)
  /\ \A t \in Thread : WF_vars(Running /\ ThreadNext(t))

Spec == Init /\ [][Next]_vars /\ Fairness

-----------------------------------------------------------------------------
(* Properties.                                                              *)

Status(j) ==
  CASE begun[j] = 0 -> IF j \in invoked THEN "done" ELSE "idle"
    [] begun[j] = 1 -> IF j \in done THEN "done" ELSE "running"
    [] OTHER -> "again"

W == INSTANCE Workflow WITH st <- [j \in Task |-> Status(j)]

(* The threads together implement Workflow, as long as no action invokes    *)
(* tasks: no task begins before all its prerequisites are completed,        *)
(* although already_invoked is set before the action runs, and none is      *)
(* executed twice.  With actions that invoke tasks, see BatchOrder.         *)
WorkflowSpec == W!Spec

\* The action of j has begun, for an invoke other than that of v.
BegunElsewhere(j, v) == begun[j] > 0 /\ outOf[j] \in Caller \ {v}

(* Whatever actions invoke: a task begins once, and only when its            *)
(* prerequisites are completed.  The exception is that of the code: a       *)
(* prerequisite that the batch of another invoke still runs is taken for    *)
(* done, already_invoked being set before its action (algorithm.rb:35 and   *)
(* :110); then a task may begin too early.                                  *)
BatchOrder ==
  [][\A j \in Task : begun'[j] > begun[j] =>
       /\ begun[j] = 0
       /\ \A i \in 1 .. Len(prereq[j]) :
            Status(prereq[j][i]) = "done" \/ BegunElsewhere(prereq[j][i], outOf[j])]_vars

(* The queue is used as the specification QSpec of TaskQueue says, so that  *)
(* what holds of QSpec holds of the queue of the Operator.                  *)
QueueSpec == QSpec

(* The check in the loop of invoke never fails: the tasks that come back on *)
(* an output queue are tasks of the batch.                                  *)
OutputInBatch ==
  \A v \in Caller : pc[v] = "await" /\ k[v] <= Len(Batch(v)) /\ outq[v] # <<>> =>
     In(Head(outq[v]), Batch(v))

(* An invoke returns normally, to the main thread or to the action of a     *)
(* task, only when the task it invokes is completed, with all it depends on; *)
(* that a task failed never looks like it.  The exception of a nested invoke *)
(* is that of BatchOrder: what another invoke still runs is taken for done.  *)
InvokeComplete ==
  /\ pc[Main] = "finish" /\ ~failing =>
       \A j \in T!Reachable(RootOf(Main)) : Status(j) = "done"
  /\ \A t \in Thread : pc[t] = "end" =>
       \A j \in T!Reachable(RootOf(t)) : Status(j) = "done" \/ BegunElsewhere(j, t)

(* "@finished # no task in queue" (TaskQueue#pop): the queue is finished    *)
(* only when nothing is left in it, for a worker that sees @finished drops  *)
(* what is queued.                                                          *)
FinishedEmpty == finished => IsEmpty(q)

(* Pwrake exits, whether all tasks succeed or one fails; if actions invoke  *)
(* tasks, it need not (hazards of thread_end and stop).                     *)
ExitsUnnested == <>(pc[Main] = "exit" \/ \E t \in Thread : child[t] # NoThread)

(* Pwrake exits, whether all tasks succeed or one fails.                    *)
Exits == <>(pc[Main] = "exit")
=============================================================================
