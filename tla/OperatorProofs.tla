--------------------------- MODULE OperatorProofs ---------------------------
(***************************************************************************)
(* Theorems about the Operator as a whole, for the workflows whose actions *)
(* invoke no tasks themselves: any graph of tasks, any program, hosts and  *)
(* localities, any number of workers, and any tasks that fail.  From its   *)
(* invariant follows that a run implements Workflow, that an invoke        *)
(* returns only when what it invokes is completed, and that what is proved *)
(* of the queue holds of the Operator's queue.                             *)
(***************************************************************************)
EXTENDS Operator, TaskQueueProofs, FiniteSetTheorems

\* Tracer with its theorems.
TP == INSTANCE TracerProofs

\* No action invokes tasks: there are no nested workers.
NoNesting == \A j \in Task : Sub[j] = <<>>

-----------------------------------------------------------------------------
(* The inductive invariant.                                                 *)

WorkerPlace == {"pop", "start", "body", "stop", "dead"}
InvokePlace == {"trace", "assign", "push", "await"}
MainPlace   == InvokePlace \cup {"prog", "finish", "fin", "join", "exit"}

OperatorTypeOK ==
  /\ pc \in [Caller -> WorkerPlace \cup MainPlace]
  /\ k \in [Caller -> Nat \ {0}]
  /\ outq \in [Caller -> Seq(Task)]
  /\ outOf \in [Task -> Caller \cup {NoThread}]
  /\ sub \in [Thread -> Nat \ {0}]
  /\ prog \in Nat \ {0}
  /\ failing \in BOOLEAN /\ pending \in BOOLEAN
  /\ failed \subseteq Worker
  /\ begun \in [Task -> Nat]
  /\ done \subseteq Task

\* The worker t has begun the action of the task it has, and did not complete it;
\* or it is about to begin.
Begun(t) == pc[t] \in {"body", "stop"} \/ t \in failed
Busy(t)  == pc[t] = "start" \/ Begun(t)

Control ==
  /\ \A t \in Worker :
       /\ pc[t] \in WorkerPlace
       /\ Busy(t) => got[t] \in Task
       /\ t \in failed => pc[t] = "dead"
  /\ \A c \in Nested : pc[c] = "pop"
  /\ pc[Main] \in MainPlace
  /\ pc[Main] \in InvokePlace \cup {"finish"} => prog <= Len(Program)
  /\ pc[Main] # "trace" => where[Main] = "out"
  /\ pc[Main] \in {"assign", "push", "await"} => batch[Main] = current
  /\ failing => pc[Main] \in {"finish", "fin", "join", "exit"}

\* A task is with a worker that is about to mark and begin it.
Held(j) == \E t \in Worker : pc[t] = "start" /\ got[t] = j

\* A task is on its way from push to the end of its action, or its action failed.
Open(j) == Queued(j) \/ Held(j) \/ (begun[j] > 0 /\ j \notin done)

Before(j) == \A i \in 1..Len(prereq[j]) : Status(prereq[j][i]) = "done"

\* The life of a task: fetched, queued, with one worker, marked and begun, done.
Life ==
  /\ \A j \in Task :
       /\ begun[j] \in {0, 1}
       /\ begun[j] = 1 => j \in invoked
       /\ j \in invoked => j \in fetched
       /\ j \in done => begun[j] = 1
       /\ Queued(j) \/ Held(j) => j \in fetched /\ j \notin invoked /\ Before(j)
  /\ \A t \in Worker :
       /\ pc[t] = "start" => ~Queued(got[t])
       /\ Begun(t) => begun[got[t]] = 1 /\ got[t] \notin done
  /\ \A t, u \in Worker : Busy(t) /\ Busy(u) /\ got[t] = got[u] => t = u

\* Where main is settled, no task is open: the next batch is only searched for
\* when the last one is over.
Settled ==
  \/ pc[Main] \in {"prog", "trace", "assign"}
  \/ pc[Main] \in {"finish", "fin", "join"} /\ ~failing

Quiet == Settled => \A j \in Task : ~Open(j)

\* What main knows of the array it collects, or of the batch it has.
Collected ==
  pc[Main] = "trace" /\ where[Main] \in {"ready", "search"} =>
    \A i \in 1..Len(array[current]) : array[current][i] \notin invoked

\* The i-th task of the batch is still to be pushed.
ToPush(i) == pc[Main] = "assign" \/ (pc[Main] = "push" /\ i >= k[Main])

Untouched ==
  \A i \in 1..Len(Batch(Main)) : ToPush(i) =>
     /\ Batch(Main)[i] \notin invoked
     /\ ~Open(Batch(Main)[i])
     /\ Before(Batch(Main)[i])

\* The i-th task of the batch has main's output queue.
Assigned(i) == \/ pc[Main] = "assign" /\ i < k[Main]
               \/ pc[Main] \in {"push", "await"}

Routed == \A i \in 1..Len(Batch(Main)) : Assigned(i) => outOf[Batch(Main)[i]] = Main

\* The open tasks are the ones of the batch that were pushed.
Pushed(i) == pc[Main] = "push" => i < k[Main]

Outstanding ==
  pc[Main] \in {"push", "await"} =>
    \A j \in Task : Open(j) => \E i \in 1..Len(Batch(Main)) : Batch(Main)[i] = j /\ Pushed(i)

\* What is done of the batch has been counted, or is in the output queue.
DoneOf(b) == {i \in 1..Len(b) : b[i] \in done}
Counted   == IF pc[Main] = "await" THEN k[Main] - 1 ELSE 0

Returning ==
  /\ pc[Main] \in {"trace", "assign"} => outq[Main] = <<>>
  /\ pc[Main] \in {"push", "await"} =>
       /\ \A i \in 1..Len(outq[Main]) : In(outq[Main][i], Batch(Main))
       /\ Cardinality(DoneOf(Batch(Main))) = Counted + Len(outq[Main])

\* What an invoke that is over, or searches, knows of its root.
Rooted ==
  /\ pc[Main] = "trace" /\ where[Main] = "search" => TP!RootSought(RootOf(Main))
  /\ pc[Main] = "finish" /\ ~failing => RootOf(Main) \in invoked

QueueInv  == TypeOK /\ Flat /\ Stored
SearchInv == TP!TracerInv /\ TP!ReadyWhenFetched /\ TP!Accounted
PhaseInv  == /\ Quiet /\ Collected /\ Untouched /\ Routed /\ Outstanding
             /\ Returning /\ Rooted

OperatorInv == QueueInv /\ SearchInv /\ OperatorTypeOK /\ Control /\ Life /\ PhaseInv

-----------------------------------------------------------------------------
(* The steps.                                                               *)

MainStep ==
  \/ InvokeMain \/ Trace(Main) \/ TraceRaise(Main) \/ TraceReturn(Main)
  \/ Assign(Main) \/ Push(Main) \/ Await(Main) \/ AwaitEnd(Main)
  \/ FinishMain \/ JoinMain \/ ExitMain \/ Interrupt

WorkerStep(t) ==
  PopTask(t) \/ StartTask(t) \/ EndTask(t) \/ FailTask(t) \/ StopWorker(t)

\* Only main invokes, and only workers pop.
LEMMA FlatSteps ==
  ASSUME NoNesting, TypeOK, Flat, OperatorTypeOK, Control, [Next]_vars
  PROVE  UNCHANGED vars \/ MainStep \/ \E t \in Worker : WorkerStep(t)
<1>1. CASE UNCHANGED vars
  BY <1>1
<1>2. CASE MainThread
  BY <1>2 DEF MainThread, MainStep, Invoke
<1>3. ASSUME NEW t \in Worker, ThreadNext(t) PROVE WorkerStep(t)
  <2>1. pc[t] \in WorkerPlace
    BY DEF Control
  <2>2. ~Invoke(t) /\ ~EndNested(t) /\ ~JoinNested(t)
    BY <2>1 DEF Invoke, Trace, TraceRaise, TraceReturn, Assign, Push, Await,
                AwaitEnd, EndNested, JoinNested, WorkerPlace
  <2>3. ASSUME InvokeNested(t) PROVE FALSE
    <3>1. got[t] \in Task /\ sub[t] \in Nat \ {0} /\ sub[t] <= Len(Sub[got[t]])
      BY <2>3 DEF InvokeNested, Control, Busy, Begun, OperatorTypeOK, Thread
    <3>2. Len(Sub[got[t]]) = 0
      BY <3>1 DEF NoNesting
    <3> QED
      BY <3>1, <3>2
  <2> QED
    BY <1>3, <2>2, <2>3 DEF ThreadNext, WorkerStep
<1>4. ASSUME NEW c \in Nested, ThreadNext(c) PROVE FALSE
  <2>1. pc[c] = "pop" /\ at[c] = "unborn"
    BY DEF Control, Flat
  <2>2. ~Pop(c)
    BY <2>1 DEF Pop, PopEnter, PopTest, PopFinished, PopReturn, PopSkip, PopEmpty, PopWait
  <2> QED
    BY <1>4, <2>1, <2>2
       DEF ThreadNext, PopTask, StartTask, EndTask, FailTask, StopWorker, InvokeNested,
           Invoke, Trace, TraceRaise, TraceReturn, Assign, Push, Await, AwaitEnd,
           EndNested, JoinNested
<1> QED
  BY <1>1, <1>2, <1>3, <1>4 DEF Next, Exited, Thread

-----------------------------------------------------------------------------
(* The tracer.                                                              *)

\* The actions that Operator takes of Tracer are the ones the theorems are about.
LEMMA TracerActions ==
  ASSUME NEW v \in Caller
  PROVE  /\ T!ClearFootprint(v) => TP!ClearFootprint(v)
         /\ T!ClearFetched(v) => TP!ClearFetched(v)
         /\ \A root \in Task : T!Enter(v, root) => TP!Enter(v, root)
         /\ T!Search(v) => TP!Search(v)
         /\ \A j \in Task : T!VisitCircular(v, j) => TP!VisitCircular(v, j)
         /\ T!Return(v) => TP!Return(v)
         /\ T!Abort(v) => TP!Abort(v)
         /\ \A j \in Task : T!MarkInvoked(j) => TP!MarkInvoked(j)
<1>1. T!ClearFootprint(v) => TP!ClearFootprint(v)
  BY DEF T!ClearFootprint, TP!ClearFootprint
<1>2. T!ClearFetched(v) => TP!ClearFetched(v)
  BY DEF T!ClearFetched, TP!ClearFetched, T!Fresh, TP!Fresh, T!Ref, TP!Ref
<1>3. \A root \in Task : T!Enter(v, root) => TP!Enter(v, root)
  BY DEF T!Enter, TP!Enter, T!NoTask, TP!NoTask
<1>4. T!Search(v) => TP!Search(v)
  BY DEF T!Search, TP!Search, T!VisitInvoked, TP!VisitInvoked, T!VisitTraced,
         TP!VisitTraced, T!VisitNew, TP!VisitNew, T!Postpone, TP!Postpone, T!Fetch,
         TP!Fetch, T!Skip, TP!Skip, T!Calling, TP!Calling, T!Visited, TP!Visited,
         T!Top, TP!Top, T!Chain, TP!Chain, T!Caught, TP!Caught, T!Returned, TP!Returned
<1>5. \A j \in Task : T!VisitCircular(v, j) => TP!VisitCircular(v, j)
  BY DEF T!VisitCircular, TP!VisitCircular, T!Calling, TP!Calling, T!Top, TP!Top,
         T!Chain, TP!Chain, T!Leave, TP!Leave
<1>6. T!Return(v) => TP!Return(v)
  BY DEF T!Return, TP!Return, T!Leave, TP!Leave, T!Top, TP!Top
<1>7. T!Abort(v) => TP!Abort(v)
  BY DEF T!Abort, TP!Abort
<1>8. \A j \in Task : T!MarkInvoked(j) => TP!MarkInvoked(j)
  BY DEF T!MarkInvoked, TP!MarkInvoked
<1> QED
  BY <1>1, <1>2, <1>3, <1>4, <1>5, <1>6, <1>7, <1>8

\* What main invokes is a task.
LEMMA RootIsTask ==
  ASSUME OperatorTypeOK, Control, pc[Main] \in InvokePlace \cup {"finish"}
  PROVE  RootOf(Main) \in Task /\ Program[prog].top \in BOOLEAN
<1>1. prog \in 1..Len(Program)
  BY DEF OperatorTypeOK, Control
<1>2. Program[prog] \in [root : Task, top : BOOLEAN]
  <2> DEFINE R == [root : Task, top : BOOLEAN]
  <2>1. Program \in Seq(R)
    BY OperatorAssumption
  <2> HIDE DEF R
  <2>2. Program[prog] \in R
    BY <1>1, <2>1
  <2> QED
    BY <2>2 DEF R
<1> QED
  BY <1>2 DEF RootOf

\* The threads together use the tracer as TracerSpec says.
LEMMA TracerUse ==
  ASSUME OperatorTypeOK, Control,
         UNCHANGED vars \/ MainStep \/ \E t \in Worker : WorkerStep(t)
  PROVE  [TP!TracerNext]_tvars
<1>0. Main \in Caller
  BY DEF Caller
<1>1. CASE UNCHANGED vars
  BY <1>1 DEF vars
<1>2. CASE InvokeMain \/ Assign(Main) \/ Push(Main) \/ Await(Main) \/ AwaitEnd(Main)
           \/ FinishMain \/ JoinMain \/ ExitMain
  BY <1>2 DEF InvokeMain, Assign, Push, Await, AwaitEnd, FinishMain, JoinMain, ExitMain
<1>3. CASE Trace(Main)
  <2>1. RootOf(Main) \in Task
    BY <1>3, RootIsTask DEF Trace, InvokePlace
  <2> QED
    BY <1>0, <1>3, <2>1, TracerActions DEF Trace, TP!TracerNext
<1>4. CASE TraceRaise(Main) \/ TraceReturn(Main)
  BY <1>0, <1>4, TracerActions DEF TraceRaise, TraceReturn, TP!TracerNext
<1>5. CASE Interrupt
  BY <1>0, <1>5, TracerActions DEF Interrupt, TP!TracerNext
<1>6. ASSUME NEW t \in Worker, WorkerStep(t) PROVE [TP!TracerNext]_tvars
  <2>1. CASE StartTask(t)
    <3>1. got[t] \in Task
      BY <2>1 DEF StartTask, Control, Busy
    <3> QED
      BY <1>0, <2>1, <3>1, TracerActions DEF StartTask, TP!TracerNext
  <2>2. CASE PopTask(t) \/ EndTask(t) \/ FailTask(t) \/ StopWorker(t)
    BY <2>2 DEF PopTask, EndTask, FailTask, StopWorker
  <2> QED
    BY <1>6, <2>1, <2>2 DEF WorkerStep
<1> QED
  BY <1>1, <1>2, <1>3, <1>4, <1>5, <1>6 DEF MainStep

LEMMA SearchInvStep ==
  ASSUME SearchInv, [TP!TracerNext]_tvars
  PROVE  SearchInv'
<1>1. [TP!TracerNext]_(TP!tvars)
  BY DEF tvars, TP!tvars
<1>2. TP!TracerInv'
  BY <1>1, TP!TracerStep, OperatorAssumption, ThreadAssumption DEF SearchInv
<1>3. TP!ReadyWhenFetched'
  BY <1>1, TP!ReadyStep, OperatorAssumption, ThreadAssumption DEF SearchInv
<1>4. TP!Accounted'
  BY <1>1, TP!AccountedStep, OperatorAssumption, ThreadAssumption DEF SearchInv
<1> QED
  BY <1>2, <1>3, <1>4 DEF SearchInv

-----------------------------------------------------------------------------
(* The queue.                                                               *)

\* Except for an exception that reaches main, the queue is used as QSpec says.
LEMMA QueueUse ==
  ASSUME OperatorTypeOK, Control, Untouched, SearchInv,
         UNCHANGED vars \/ MainStep \/ \E t \in Worker : WorkerStep(t)
  PROVE  [QNext]_qvars \/ Interrupt
<1>1. CASE UNCHANGED vars
  BY <1>1 DEF vars
<1>2. CASE InvokeMain \/ Trace(Main) \/ TraceRaise(Main) \/ TraceReturn(Main)
           \/ Assign(Main) \/ Await(Main) \/ AwaitEnd(Main) \/ JoinMain \/ ExitMain
  BY <1>2 DEF InvokeMain, Trace, TraceRaise, TraceReturn, Assign, Await, AwaitEnd,
              JoinMain, ExitMain
<1>3. CASE Push(Main)
  <2>1. CASE PushEnter(Main) \/ PushLeave(Main)
    BY <2>1 DEF QNext, MainNext
  <2>2. CASE /\ pc[Main] = "push" /\ k[Main] <= Len(Batch(Main))
             /\ PushTask(Main, Batch(Main)[k[Main]])
    <3> DEFINE b == Batch(Main)
    <3>1. b \in Seq(Task)
      BY DEF SearchInv, TP!TracerInv, TP!TracerTypeOK, Batch, Caller
    <3>2. k[Main] \in Nat \ {0}
      BY DEF OperatorTypeOK, Caller
    <3>3. k[Main] \in 1..Len(b)
      BY <2>2, <3>1, <3>2
    <3>4. b[k[Main]] \in Task /\ ~Queued(b[k[Main]])
      BY <2>2, <3>1, <3>2, <3>3 DEF Untouched, ToPush, Open
    <3> QED
      BY <2>2, <3>4 DEF QNext, MainNext
  <2> QED
    BY <1>3, <2>1, <2>2 DEF Push
<1>4. CASE FinishMain
  BY <1>4 DEF FinishMain, QNext, MainNext
<1>5. ASSUME NEW t \in Worker, WorkerStep(t) PROVE [QNext]_qvars
  BY <1>5 DEF WorkerStep, PopTask, StartTask, EndTask, FailTask, StopWorker, QNext
<1> QED
  BY <1>1, <1>2, <1>3, <1>4, <1>5 DEF MainStep

LEMMA QueueInvStep ==
  ASSUME QueueInv, [QNext]_qvars \/ Interrupt
  PROVE  QueueInv'
<1>1. CASE [QNext]_qvars
  BY <1>1, TypeStep, FlatStep, StoredStep DEF QueueInv
<1>2. CASE Interrupt
  <2>1. /\ at' = [at EXCEPT ![Main] = "out"]
        /\ m' = IF m = Main THEN NoThread ELSE m
        /\ UNCHANGED <<q, finished, thEnd, n, got>>
    BY <1>2 DEF Interrupt
  <2>2. TypeOK'
    BY <2>1 DEF QueueInv, TypeOK, Place
  <2>3. Main \in Caller /\ Main \notin Worker /\ Main \notin Nested /\ NoThread \notin Caller
    BY ThreadAssumption DEF Thread, Caller
  <2>4. at'[Main] = "out" /\ \A u \in Caller : u # Main => at'[u] = at[u]
    BY <2>1, <2>3 DEF QueueInv, TypeOK
  <2>5. LockDiscipline'
    BY <2>1, <2>3, <2>4 DEF QueueInv, Flat, LockDiscipline, Critical
  <2>6. Flat'
    BY <2>1, <2>3, <2>4, <2>5 DEF QueueInv, Flat, Thread, Caller
  <2>7. Stored'
    BY <2>1 DEF QueueInv, Stored
  <2> QED
    BY <2>2, <2>6, <2>7 DEF QueueInv
<1> QED
  BY <1>1, <1>2

\* pop returns the first task of a list, or goes on or ends with the lists as they
\* were.
LEMMA PopResult ==
  ASSUME TypeOK, NEW t \in Worker, Pop(t)
  PROVE  \/ /\ at'[t] = "out"
            /\ \E h \in Host : /\ q[h] # <<>> /\ q' = PopFrom(q, h)
                               /\ got' = [got EXCEPT ![t] = Head(q[h])]
         \/ /\ at'[t] # "out" /\ q' = q
            /\ \A u \in Worker \ {t} : got'[u] = got[u]
<1>0. t \in Caller /\ at \in [Caller -> Place] /\ got \in [Thread -> Task \cup {None}]
  BY DEF Caller, Thread, TypeOK
<1>1. CASE PopReturn(t)
  <2>1. at'[t] = "out"
    BY <1>0, <1>1, SignalEffect DEF PopReturn, Place
  <2>2. \E h \in Host : /\ q[h] # <<>> /\ q' = PopFrom(q, h)
                        /\ got' = [got EXCEPT ![t] = Head(q[h])]
    BY <1>1 DEF PopReturn, AltHosts
  <2> QED
    BY <2>1, <2>2
<1>2. CASE PopEnter(t)
  BY <1>0, <1>2 DEF PopEnter, Thread
<1>3. CASE PopFinished(t)
  <2>1. at'[t] = "ended"
    BY <1>0, <1>3, SignalEffect DEF PopFinished, Place
  <2> QED
    BY <1>3, <2>1 DEF PopFinished
<1>4. CASE PopSkip(t)
  <2>1. at'[t] = "wait"
    BY <1>0, <1>4, SignalEffect DEF PopSkip, Place
  <2> QED
    BY <1>4, <2>1 DEF PopSkip
<1>5. CASE PopTest(t) \/ PopEmpty(t) \/ PopWait(t)
  BY <1>0, <1>5 DEF PopTest, PopEmpty, PopWait
<1> QED
  BY <1>1, <1>2, <1>3, <1>4, <1>5 DEF Pop

-----------------------------------------------------------------------------
(* Where the threads are.                                                   *)

\* Main is not a worker, and what a step of one thread does to pc.
LEMMA Gone ==
  ASSUME OperatorTypeOK, NEW v \in Caller, NEW p, Goto(v, p)
  PROVE  pc'[v] = p /\ \A u \in Caller \ {v} : pc'[u] = pc[u]
BY DEF OperatorTypeOK, Goto

LEMMA Threads ==
  /\ Main \in Caller /\ Main \notin Worker /\ Main \notin Nested
  /\ \A t \in Worker : t \in Thread /\ t \in Caller /\ t # Main /\ t \notin Nested
  /\ \A c \in Nested : c \in Thread /\ c \in Caller /\ c # Main
  /\ NoThread \notin Caller
BY ThreadAssumption DEF Thread, Caller

\* What a worker leaves alone.
LEMMA WorkerFrame ==
  ASSUME OperatorTypeOK, NEW t \in Worker, WorkerStep(t)
  PROVE  /\ pc' \in [Caller -> WorkerPlace \cup MainPlace]
         /\ pc'[t] \in WorkerPlace
         /\ \A u \in Caller \ {t} : pc'[u] = pc[u]
         /\ UNCHANGED <<k, prog, failing, outOf>>
         /\ UNCHANGED <<prereq, fetched, footprint, current, array, mutex, stack,
                        where, ret, batch>>
         /\ invoked \subseteq invoked'
<1>1. PICK p \in WorkerPlace : Goto(t, p)
  BY DEF WorkerStep, PopTask, StartTask, EndTask, FailTask, StopWorker, WorkerPlace
<1>2. t \in Caller
  BY Threads
<1>3. /\ pc' \in [Caller -> WorkerPlace \cup MainPlace]
      /\ pc'[t] \in WorkerPlace
      /\ \A u \in Caller \ {t} : pc'[u] = pc[u]
  BY <1>1, <1>2 DEF OperatorTypeOK, Goto
<1>4. UNCHANGED <<k, prog, failing, outOf>>
  BY DEF WorkerStep, PopTask, StartTask, EndTask, FailTask, StopWorker
<1>5. /\ UNCHANGED <<prereq, fetched, footprint, current, array, mutex, stack,
                     where, ret, batch>>
      /\ invoked \subseteq invoked'
  BY DEF WorkerStep, PopTask, StartTask, EndTask, FailTask, StopWorker,
         T!MarkInvoked, tvars
<1> QED
  BY <1>3, <1>4, <1>5

LEMMA TypesOfWorkerStep ==
  ASSUME OperatorTypeOK, TypeOK, Control, NEW t \in Worker, WorkerStep(t)
  PROVE  OperatorTypeOK'
<1>0. t \in Thread /\ t \in Caller /\ t # Main
  BY Threads
<1>1. /\ pc' \in [Caller -> WorkerPlace \cup MainPlace]
      /\ UNCHANGED <<k, prog, failing, outOf>>
  BY WorkerFrame
<1>2. CASE PopTask(t) \/ FailTask(t)
  BY <1>1, <1>2 DEF PopTask, FailTask, OperatorTypeOK
<1>3. CASE StartTask(t)
  <2>1. got[t] \in Task
    BY <1>3 DEF StartTask, Control, Busy
  <2>2. begun' \in [Task -> Nat] /\ sub' \in [Thread -> Nat \ {0}]
    BY <1>0, <1>3, <2>1 DEF StartTask, OperatorTypeOK
  <2> QED
    BY <1>1, <1>3, <2>2 DEF StartTask, OperatorTypeOK
<1>4. CASE EndTask(t)
  <2>1. got[t] \in Task
    BY <1>4 DEF EndTask, Control, Busy, Begun
  <2>2. outq' \in [Caller -> Seq(Task)]
    <3>1. CASE outOf[got[t]] = NoThread
      BY <1>4, <3>1 DEF EndTask, OperatorTypeOK
    <3>2. CASE outOf[got[t]] # NoThread
      <4>1. outOf[got[t]] \in Caller /\ outq \in [Caller -> Seq(Task)]
        BY <2>1, <3>2 DEF OperatorTypeOK
      <4>2. outq' = [outq EXCEPT ![outOf[got[t]]] = Append(@, got[t])]
        BY <1>4, <3>2 DEF EndTask
      <4> QED
        BY <2>1, <4>1, <4>2
    <3> QED
      BY <3>1, <3>2
  <2> QED
    BY <1>1, <1>4, <2>1, <2>2 DEF EndTask, OperatorTypeOK
<1>5. CASE StopWorker(t)
  BY <1>1, <1>5 DEF StopWorker, OperatorTypeOK
<1> QED
  BY <1>2, <1>3, <1>4, <1>5 DEF WorkerStep

LEMMA ControlOfWorkerStep ==
  ASSUME OperatorTypeOK, TypeOK, Control, NEW t \in Worker, WorkerStep(t)
  PROVE  Control'
<1>0. t \in Thread /\ t \in Caller /\ t # Main /\ Main \in Caller
  BY Threads
<1>1. /\ pc'[t] \in WorkerPlace
      /\ \A u \in Caller \ {t} : pc'[u] = pc[u]
      /\ UNCHANGED <<prog, failing, where, batch, current>>
  BY WorkerFrame
<1>2. pc'[Main] = pc[Main] /\ \A c \in Nested : pc'[c] = pc[c]
  BY <1>0, <1>1, Threads
<1>3. ASSUME NEW u \in Worker \ {t}
      PROVE  pc'[u] = pc[u] /\ (u \in failed' <=> u \in failed) /\ got'[u] = got[u]
  <2>1. pc'[u] = pc[u]
    BY <1>1, Threads
  <2>2. u \in failed' <=> u \in failed
    BY DEF WorkerStep, PopTask, StartTask, EndTask, FailTask, StopWorker
  <2>3. got'[u] = got[u]
    <3>1. CASE PopTask(t)
      BY <3>1, PopResult, Threads DEF PopTask, TypeOK
    <3>2. CASE StartTask(t) \/ EndTask(t) \/ FailTask(t) \/ StopWorker(t)
      BY <3>2 DEF StartTask, EndTask, FailTask, StopWorker, Stop, qvars
    <3> QED
      BY <3>1, <3>2 DEF WorkerStep
  <2> QED
    BY <2>1, <2>2, <2>3
<1>4. /\ Busy(t)' => got'[t] \in Task
      /\ t \in failed' => pc'[t] = "dead"
  <2>1. CASE PopTask(t)
    <3>1. failed' = failed /\ t \notin failed
      BY <2>1 DEF PopTask, Control
    <3>2. pc'[t] = "start" => at'[t] = "out"
      BY <1>0, <2>1 DEF PopTask, Goto, OperatorTypeOK
    <3>3. pc'[t] \in {"start", "dead", "pop"}
      BY <1>0, <2>1 DEF PopTask, Goto, OperatorTypeOK
    <3>4. at'[t] = "out" => got'[t] \in Task
      <4>1. ASSUME NEW h \in Host, q[h] # <<>> PROVE Head(q[h]) \in Task
        BY <4>1 DEF TypeOK
      <4> QED
        BY <1>0, <2>1, <4>1, PopResult DEF PopTask, TypeOK
    <3> QED
      BY <3>1, <3>2, <3>3, <3>4 DEF Busy, Begun
  <2>2. CASE StartTask(t)
    BY <1>0, <1>1, <2>2 DEF StartTask, Control, Busy, Begun, qvars
  <2>3. CASE EndTask(t)
    BY <1>0, <1>1, <2>3, Gone DEF EndTask, Control, Busy, Begun, qvars
  <2>4. CASE FailTask(t)
    BY <1>0, <1>1, <2>4 DEF FailTask, Control, Busy, Begun, qvars
  <2>5. CASE StopWorker(t)
    BY <1>0, <1>1, <2>5, Gone DEF StopWorker, Stop, Control, Busy, Begun
  <2> QED
    BY <2>1, <2>2, <2>3, <2>4, <2>5 DEF WorkerStep
<1>5. \A u \in Worker : /\ pc'[u] \in WorkerPlace
                        /\ Busy(u)' => got'[u] \in Task
                        /\ u \in failed' => pc'[u] = "dead"
  BY <1>1, <1>3, <1>4 DEF Control, Busy, Begun
<1> QED
  BY <1>1, <1>2, <1>5 DEF Control

\* What main leaves alone.
LEMMA MainFrame ==
  ASSUME OperatorTypeOK, Control, MainStep
  PROVE  /\ pc' \in [Caller -> WorkerPlace \cup MainPlace]
         /\ pc'[Main] \in MainPlace
         /\ \A u \in Thread : pc'[u] = pc[u]
         /\ UNCHANGED <<got, sub, failed, begun, done>>
         /\ prereq' = prereq
<1>1. \E p \in MainPlace : Goto(Main, p)
  <2>1. CASE pc' = pc
    BY <2>1, Threads DEF Goto, OperatorTypeOK, Control
  <2>2. CASE ~(pc' = pc)
    BY <2>2 DEF MainStep, InvokeMain, Trace, TraceRaise, TraceReturn, Assign, Push, Await,
                AwaitEnd, FinishMain, JoinMain, ExitMain, Interrupt, Raise, MainPlace,
                InvokePlace, ovars
  <2> QED
    BY <2>1, <2>2
<1>2. PICK p \in MainPlace : Goto(Main, p)
  BY <1>1
<1>3. /\ pc' \in [Caller -> WorkerPlace \cup MainPlace]
      /\ pc'[Main] \in MainPlace
      /\ \A u \in Caller \ {Main} : pc'[u] = pc[u]
  BY <1>2, Threads DEF Goto, OperatorTypeOK
<1>4. \A u \in Thread : u \in Caller \ {Main}
  BY Threads DEF Thread
<1>5. UNCHANGED <<got, sub, failed, begun, done>>
  BY DEF MainStep, InvokeMain, Trace, TraceRaise, TraceReturn, Assign, Push, Await,
         AwaitEnd, FinishMain, JoinMain, ExitMain, Interrupt, ovars, qvars,
         PushEnter, PushTask, PushLeave, FinishSet, FinishSignal
<1>6. prereq' = prereq
  BY DEF MainStep, InvokeMain, Trace, TraceRaise, TraceReturn, Assign, Push, Await,
         AwaitEnd, FinishMain, JoinMain, ExitMain, Interrupt, tvars,
         T!ClearFootprint, T!ClearFetched, T!Enter, T!Search, T!VisitInvoked,
         T!VisitTraced, T!VisitNew, T!Postpone, T!Fetch, T!Skip, T!VisitCircular,
         T!Return, T!Abort
<1> QED
  BY <1>3, <1>4, <1>5, <1>6

LEMMA CounterType ==
  ASSUME OperatorTypeOK, Count(Main) \/ Reset(Main)
  PROVE  k' \in [Caller -> Nat \ {0}]
<1>1. k \in [Caller -> Nat \ {0}] /\ Main \in Caller
  BY Threads DEF OperatorTypeOK
<1>2. k[Main] + 1 \in Nat \ {0} /\ 1 \in Nat \ {0}
  BY <1>1
<1> QED
  BY <1>1, <1>2 DEF Count, Reset

LEMMA TypesOfMainStep ==
  ASSUME OperatorTypeOK, Control, SearchInv, MainStep
  PROVE  OperatorTypeOK'
<1>0. Main \in Caller
  BY Threads
<1>1. /\ pc' \in [Caller -> WorkerPlace \cup MainPlace]
      /\ UNCHANGED <<got, sub, failed, begun, done>>
  BY MainFrame
<1>2. CASE InvokeMain
  <2>1. /\ outq' \in [Caller -> Seq(Task)]
        /\ outOf' \in [Task -> Caller \cup {NoThread}]
    <3>1. /\ outq' = [outq EXCEPT ![Main] = <<>>]
          /\ outOf' = [j \in Task |-> IF outOf[j] = Main THEN NoThread ELSE outOf[j]]
      BY <1>2 DEF InvokeMain, NewOutputQueue
    <3>2. \A j \in Task : outOf[j] \in Caller \cup {NoThread}
      BY DEF OperatorTypeOK
    <3>3. outOf' \in [Task -> Caller \cup {NoThread}]
      BY <3>1, <3>2
    <3>4. outq' \in [Caller -> Seq(Task)]
      <4>1. outq \in [Caller -> Seq(Task)] /\ <<>> \in Seq(Task)
        BY DEF OperatorTypeOK
      <4>2. outq' = [outq EXCEPT ![Main] = <<>>]
        BY <3>1
      <4> QED
        BY <4>1, <4>2
    <3> QED
      BY <3>3, <3>4
  <2> QED
    BY <1>1, <1>2, <2>1 DEF InvokeMain, OperatorTypeOK
<1>3. CASE Trace(Main)
  BY <1>3 DEF Trace, ovars, OperatorTypeOK
<1>4. CASE TraceRaise(Main)
  BY <1>1, <1>4 DEF TraceRaise, Raise, OperatorTypeOK
<1>5. CASE TraceReturn(Main)
  <2>1. prog' \in Nat \ {0}
    BY <1>5 DEF TraceReturn, OperatorTypeOK
  <2>2. k' \in [Caller -> Nat \ {0}]
    BY <1>5, CounterType DEF TraceReturn
  <2> QED
    BY <1>1, <1>5, <2>1, <2>2 DEF TraceReturn, OperatorTypeOK
<1>6. CASE Assign(Main)
  <2>1. k' \in [Caller -> Nat \ {0}]
    BY <1>6, CounterType DEF Assign
  <2>2. outOf' \in [Task -> Caller \cup {NoThread}]
    BY <1>0, <1>6 DEF Assign, OperatorTypeOK
  <2> QED
    BY <1>1, <1>6, <2>1, <2>2 DEF Assign, OperatorTypeOK
<1>7. CASE Push(Main)
  <2>1. k' \in [Caller -> Nat \ {0}]
    BY <1>7, CounterType DEF Push, OperatorTypeOK
  <2> QED
    BY <1>1, <1>7, <2>1 DEF Push, OperatorTypeOK
<1>8. CASE Await(Main)
  <2>1. k' \in [Caller -> Nat \ {0}]
    BY <1>8, CounterType DEF Await, OperatorTypeOK
  <2>2. outq' \in [Caller -> Seq(Task)]
    <3>1. outq[Main] \in Seq(Task) /\ outq[Main] # <<>>
      BY <1>0, <1>8 DEF Await, OperatorTypeOK
    <3>2. Tail(outq[Main]) \in Seq(Task)
      BY <3>1, HeadTailProperties
    <3> QED
      BY <1>8, <3>2 DEF Await, OperatorTypeOK
  <2>3. failing' \in BOOLEAN
    BY <1>8 DEF Await, Raise, OperatorTypeOK
  <2> QED
    BY <1>1, <1>8, <2>1, <2>2, <2>3 DEF Await, OperatorTypeOK
<1>9. CASE AwaitEnd(Main) \/ ExitMain \/ Interrupt
  BY <1>1, <1>9 DEF AwaitEnd, ExitMain, Interrupt, OperatorTypeOK
<1>10. CASE FinishMain
  <2>1. k' \in [Caller -> Nat \ {0}]
    BY <1>10, CounterType DEF FinishMain, OperatorTypeOK
  <2> QED
    BY <1>1, <1>10, <2>1 DEF FinishMain, OperatorTypeOK
<1>11. CASE JoinMain
  <2>1. k' \in [Caller -> Nat \ {0}]
    BY <1>11, CounterType DEF JoinMain, OperatorTypeOK
  <2>2. failing' \in BOOLEAN
    BY <1>11 DEF JoinMain, OperatorTypeOK
  <2>3. prog' = prog \/ prog' = prog + 1
    BY <1>11 DEF JoinMain
  <2>4. prog' \in Nat \ {0}
    BY <2>3 DEF OperatorTypeOK
  <2> QED
    BY <1>1, <1>11, <2>1, <2>2, <2>4 DEF JoinMain, OperatorTypeOK
<1> QED
  BY <1>2, <1>3, <1>4, <1>5, <1>6, <1>7, <1>8, <1>9, <1>10, <1>11 DEF MainStep

LEMMA ControlOfMainStep ==
  ASSUME OperatorTypeOK, Control, SearchInv, MainStep
  PROVE  Control'
<1>0. Main \in Caller /\ \A t \in Worker : t \in Thread
  BY Threads
<1>1. /\ pc'[Main] \in MainPlace
      /\ \A u \in Thread : pc'[u] = pc[u]
      /\ UNCHANGED <<got, failed>>
  BY MainFrame
<1>2. \A c \in Nested : c \in Thread
  BY Threads
<1>3. /\ \A t \in Worker : /\ pc'[t] \in WorkerPlace
                           /\ Busy(t)' => got'[t] \in Task
                           /\ t \in failed' => pc'[t] = "dead"
      /\ \A c \in Nested : pc'[c] = "pop"
      /\ pc'[Main] \in MainPlace
  BY <1>0, <1>1, <1>2 DEF Control, Busy, Begun
<1> DEFINE Mine ==
      /\ pc[Main] \in InvokePlace \cup {"finish"} => prog <= Len(Program)
      /\ pc[Main] # "trace" => where[Main] = "out"
      /\ pc[Main] \in {"assign", "push", "await"} => batch[Main] = current
      /\ failing => pc[Main] \in {"finish", "fin", "join", "exit"}
<1>4. Mine
  BY DEF Control
<1>5. where \in [Caller -> {"out", "clear", "ready", "search"}] /\ batch \in [Caller -> TP!Ref]
  BY DEF SearchInv, TP!TracerInv, TP!TracerTypeOK
<1>6. ASSUME Trace(Main) PROVE Mine'
  BY <1>4, <1>6 DEF Trace, ovars, InvokePlace
<1>7. ASSUME TraceRaise(Main) PROVE Mine'
  <2>1. where'[Main] = "out"
    BY <1>0, <1>5, <1>7 DEF TraceRaise, T!VisitCircular, T!Leave
  <2>2. pc'[Main] \in {"finish", "exit"} /\ UNCHANGED prog /\ pc[Main] = "trace"
    BY <1>0, <1>7, Gone DEF TraceRaise, Raise
  <2> QED
    BY <1>4, <2>1, <2>2 DEF InvokePlace
<1>8. ASSUME TraceReturn(Main) PROVE Mine'
  <2>1. where'[Main] = "out" /\ current' = current
    BY <1>0, <1>5, <1>8 DEF TraceReturn, T!Return, T!Leave
  <2>2. ret'[Main] = "tasks" => batch'[Main] = current
    BY <1>0, <1>5, <1>8 DEF TraceReturn, T!Return, T!Leave, SearchInv, TP!TracerInv, TP!TracerTypeOK
  <2>3. /\ pc'[Main] \in {"assign", "finish", "prog"} /\ pc[Main] = "trace"
        /\ pc'[Main] = "assign" => ret'[Main] = "tasks"
        /\ pc'[Main] # "prog" => UNCHANGED prog
    BY <1>0, <1>8, Gone DEF TraceReturn
  <2>4. failing' = failing
    BY <1>8 DEF TraceReturn
  <2> QED
    BY <1>4, <2>1, <2>2, <2>3, <2>4 DEF InvokePlace
<1>9. ASSUME InvokeMain PROVE Mine'
  BY <1>0, <1>4, <1>9, Gone DEF InvokeMain, tvars, InvokePlace
<1>10. ASSUME Assign(Main) PROVE Mine'
  BY <1>4, <1>10 DEF Assign, tvars
<1>11. ASSUME Push(Main) PROVE Mine'
  <2>1. pc'[Main] \in {"push", "await"} /\ pc[Main] \in {"assign", "push"}
    BY <1>0, <1>11, Gone DEF Push
  <2> QED
    BY <1>4, <1>11, <2>1 DEF Push, tvars, InvokePlace
<1>12. ASSUME Await(Main) PROVE Mine'
  <2>1. \/ pc'[Main] = "await" /\ UNCHANGED failing
        \/ pc'[Main] \in {"finish", "exit"}
    BY <1>0, <1>12, Gone DEF Await, Raise
  <2> QED
    BY <1>4, <1>12, <2>1 DEF Await, tvars, InvokePlace
<1>13. ASSUME AwaitEnd(Main) PROVE Mine'
  BY <1>0, <1>4, <1>13, Gone DEF AwaitEnd, tvars, InvokePlace
<1>14. ASSUME FinishMain PROVE Mine'
  <2>1. pc'[Main] \in {"fin", "join"} /\ pc[Main] \in {"finish", "fin"}
    BY <1>0, <1>14, Gone DEF FinishMain
  <2> QED
    BY <1>4, <1>14, <2>1 DEF FinishMain, tvars, InvokePlace
<1>15. ASSUME JoinMain PROVE Mine'
  <2>1. /\ pc[Main] = "join" /\ pc'[Main] \in {"join", "exit", "prog"}
        /\ pc'[Main] = "prog" => ~failing'
    BY <1>0, <1>15, Gone DEF JoinMain
  <2> QED
    BY <1>4, <1>15, <2>1 DEF JoinMain, tvars, InvokePlace
<1>16. ASSUME ExitMain PROVE Mine'
  BY <1>0, <1>4, <1>16, Gone DEF ExitMain, tvars, InvokePlace
<1>17. ASSUME Interrupt PROVE Mine'
  <2>1. where'[Main] = "out"
    BY <1>0, <1>5, <1>17 DEF Interrupt, T!Abort
  <2>2. /\ pc'[Main] \in {"finish", "exit"}
        /\ pc'[Main] = "finish" => pc[Main] \in InvokePlace
    BY <1>0, <1>17, Gone DEF Interrupt, InvokePlace
  <2> QED
    BY <1>4, <1>17, <2>1, <2>2 DEF Interrupt, InvokePlace
<1>18. Mine'
  BY <1>6, <1>7, <1>8, <1>9, <1>10, <1>11, <1>12, <1>13, <1>14, <1>15, <1>16, <1>17
     DEF MainStep
<1> QED
  BY <1>3, <1>18 DEF Control

-----------------------------------------------------------------------------
(* The life of the tasks.                                                   *)

\* A task that is done stays so, whatever is marked or completed.
LEMMA StatusKept ==
  ASSUME NEW j \in Task, Status(j) = "done", begun'[j] = begun[j],
         done \subseteq done', invoked \subseteq invoked'
  PROVE  Status(j)' = "done"
BY DEF Status

LEMMA BeforeKept ==
  ASSUME prereq \in [Task -> Seq(Task)], prereq' = prereq,
         \A j \in Task : Status(j) = "done" => Status(j)' = "done"
  PROVE  \A j \in Task : Before(j) => Before(j)'
<1> SUFFICES ASSUME NEW j \in Task, Before(j), NEW i \in 1..Len(prereq[j])
             PROVE  Status(prereq[j][i])' = "done"
  BY DEF Before
<1>1. prereq[j][i] \in Task
  OBVIOUS
<1> QED
  BY <1>1 DEF Before

\* Steps that begin and complete nothing, give no worker a task, and queue only
\* tasks that are fetched, ready and with nobody.
LEMMA LifeKept ==
  ASSUME Life, prereq \in [Task -> Seq(Task)], prereq' = prereq, begun' = begun,
         done' = done, invoked \subseteq invoked', fetched \subseteq fetched',
         \A j \in Task : j \in invoked' =>
            j \in fetched' /\ (j \in invoked \/ j \notin fetched),
         \A j \in Task : Queued(j)' =>
            \/ Queued(j)
            \/ j \in fetched /\ j \notin invoked /\ Before(j) /\ ~Held(j),
         \A t \in Worker : /\ pc'[t] = "start" => pc[t] = "start"
                           /\ Begun(t)' => Begun(t)
                           /\ Busy(t)' => got[t] \in Task /\ got'[t] = got[t]
  PROVE  Life'
<1>1. \A j \in Task : Before(j) => Before(j)'
  BY StatusKept, BeforeKept
<1>2. \A j \in Task : Held(j)' => Held(j)
  BY DEF Held, Busy
<1>3. ASSUME NEW j \in Task
      PROVE  /\ begun'[j] \in {0, 1}
             /\ begun'[j] = 1 => j \in invoked'
             /\ j \in invoked' => j \in fetched'
             /\ j \in done' => begun'[j] = 1
             /\ Queued(j)' \/ Held(j)' => j \in fetched' /\ j \notin invoked' /\ Before(j)'
  BY <1>1, <1>2 DEF Life
<1>4. ASSUME NEW t \in Worker
      PROVE  /\ pc'[t] = "start" => ~Queued(got[t])'
             /\ Begun(t)' => begun'[got'[t]] = 1 /\ got'[t] \notin done'
  <2>1. ASSUME pc'[t] = "start" PROVE ~Queued(got[t])'
    <3>1. pc[t] = "start" /\ got[t] \in Task /\ got'[t] = got[t]
      BY <2>1 DEF Busy
    <3>2. ~Queued(got[t]) /\ Held(got[t])
      BY <3>1 DEF Life, Held
    <3>3. ~\E h \in Host : In(got[t], q'[h])
      BY <3>1, <3>2 DEF Queued
    <3> QED
      BY <3>1, <3>3 DEF Queued
  <2>2. ASSUME Begun(t)' PROVE begun'[got'[t]] = 1 /\ got'[t] \notin done'
    BY <2>2 DEF Life, Busy
  <2> QED
    BY <2>1, <2>2
<1>5. \A t, u \in Worker : Busy(t)' /\ Busy(u)' /\ got'[t] = got'[u] => t = u
  <2>1. \A t \in Worker : Busy(t)' => Busy(t) /\ got'[t] = got[t]
    BY DEF Busy
  <2> QED
    BY <2>1 DEF Life
<1> QED
  BY <1>3, <1>4, <1>5 DEF Life

\* What the tracer's sets become in a step of main.
LEMMA MainMarks ==
  ASSUME OperatorTypeOK, Control, SearchInv, Life, MainStep
  PROVE  /\ invoked \subseteq invoked' /\ fetched \subseteq fetched'
         /\ \A j \in Task : j \in invoked' =>
              j \in fetched' /\ (j \in invoked \/ j \notin fetched)
<1>1. \A j \in Task : j \in invoked => j \in fetched
  BY DEF Life
<1>2. CASE invoked' = invoked /\ fetched \subseteq fetched'
  BY <1>1, <1>2
<1>3. ASSUME TP!Search(Main)
      PROVE  \/ invoked' = invoked /\ fetched \subseteq fetched'
             \/ /\ invoked' = invoked \cup {TP!Top.task}
                /\ fetched' = fetched \cup {TP!Top.task}
                /\ TP!Visited(Main) /\ TP!Top.all
  BY <1>3 DEF TP!Search, TP!VisitInvoked, TP!VisitTraced, TP!VisitNew, TP!Postpone,
              TP!Fetch, TP!Skip
<1>4. CASE TP!Search(Main)
  <2>1. CASE /\ invoked' = invoked \cup {TP!Top.task}
             /\ fetched' = fetched \cup {TP!Top.task}
             /\ TP!Visited(Main) /\ TP!Top.all
    <3>1. TP!Top.task \notin fetched
      BY <2>1, TP!FirstTime, Threads, OperatorAssumption, ThreadAssumption DEF SearchInv
    <3> QED
      BY <1>1, <2>1, <3>1
  <2> QED
    BY <1>2, <1>3, <1>4, <2>1
<1>5. CASE ~TP!Search(Main)
  <2>1. ~T!Search(Main)
    BY <1>5, TracerActions, Threads
  <2>2. invoked' = invoked /\ fetched' = fetched
    BY <2>1 DEF MainStep, InvokeMain, Trace, TraceRaise, TraceReturn, Assign, Push, Await,
         AwaitEnd, FinishMain, JoinMain, ExitMain, Interrupt, tvars,
         T!ClearFootprint, T!ClearFetched, T!Enter, T!VisitCircular, T!Return, T!Abort
  <2> QED
    BY <1>2, <2>2
<1> QED
  BY <1>4, <1>5

\* The batch of main is a sequence of tasks in @fetched, without repetitions.
LEMMA BatchIsFetched ==
  ASSUME SearchInv
  PROVE  /\ Batch(Main) \in Seq(Task)
         /\ NoTwice(Batch(Main))
         /\ \A i \in 1..Len(Batch(Main)) : Batch(Main)[i] \in Task /\ Batch(Main)[i] \in fetched
<1>1. batch[Main] \in TP!Ref /\ array \in [TP!Ref -> Seq(Task)]
  BY Threads DEF SearchInv, TP!TracerInv, TP!TracerTypeOK
<1>2. Batch(Main) \in Seq(Task)
  BY <1>1 DEF Batch
<1>3. NoTwice(Batch(Main))
  BY <1>1 DEF Batch, NoTwice, SearchInv, TP!Accounted, TP!FetchedOnce
<1>4. \A i \in 1..Len(Batch(Main)) : Batch(Main)[i] \in fetched
  BY <1>1 DEF Batch, SearchInv, TP!Accounted
<1> QED
  BY <1>2, <1>3, <1>4

\* A step of main queues the task of the batch it is at, or nothing.
LEMMA MainQueues ==
  ASSUME QueueInv, OperatorTypeOK, Control, SearchInv, PhaseInv, MainStep
  PROVE  \/ q' = q
         \/ /\ pc[Main] = "push" /\ pc'[Main] = "push"
            /\ k[Main] \in 1..Len(Batch(Main)) /\ k' = [k EXCEPT ![Main] = @ + 1]
            /\ ToPush(k[Main])
            /\ Stored'
            /\ \A h \in Host : \A x : In(x, q'[h]) => In(x, q[h]) \/ x = Batch(Main)[k[Main]]
            /\ UNCHANGED <<tvars, outq, outOf, prog, failing>>
<1>1. CASE /\ pc[Main] = "push" /\ k[Main] <= Len(Batch(Main))
           /\ PushTask(Main, Batch(Main)[k[Main]]) /\ Count(Main) /\ UNCHANGED pc
           /\ UNCHANGED <<tvars, outq, outOf, prog, failing>>
  <2> DEFINE b == Batch(Main)
             j == b[k[Main]]
  <2>1. k[Main] \in 1..Len(b) /\ j \in Task
    BY <1>1, BatchIsFetched, Threads DEF OperatorTypeOK
  <2>2. ToPush(k[Main])
    BY <1>1, <2>1 DEF ToPush
  <2>3. ~Queued(j)
    BY <2>1, <2>2 DEF PhaseInv, Untouched, Open
  <2>4. PICK S \in Targets(j) : q' = PushTo(q, j, S)
    BY <1>1 DEF PushTask
  <2>5. /\ Stored'
        /\ \A h \in Host : \A x : In(x, q'[h]) => In(x, q[h]) \/ x = j
    <3> HIDE DEF j
    <3> QED
      BY <2>1, <2>3, <2>4, PushStored DEF QueueInv, TypeOK
  <2> QED
    BY <1>1, <2>1, <2>2, <2>5 DEF Count
<1>2. CASE ~Push(Main)
  BY <1>2 DEF MainStep, InvokeMain, Trace, TraceRaise, TraceReturn, Assign, Await,
              AwaitEnd, FinishMain, JoinMain, ExitMain, Interrupt, qvars,
              FinishSet, FinishSignal
<1>3. CASE Push(Main)
  BY <1>1, <1>3 DEF Push, PushEnter, PushLeave
<1> QED
  BY <1>2, <1>3

LEMMA LifeOfMainStep ==
  ASSUME QueueInv, OperatorTypeOK, Control, SearchInv, Life, PhaseInv, MainStep
  PROVE  Life'
<1>1. /\ \A t \in Worker : pc'[t] = pc[t]
      /\ UNCHANGED <<got, failed, begun, done>> /\ prereq' = prereq
  BY MainFrame, Threads
<1>2. prereq \in [Task -> Seq(Task)]
  BY DEF SearchInv, TP!TracerInv, TP!TracerTypeOK
<1>3. \A j \in Task : Queued(j)' =>
         \/ Queued(j)
         \/ j \in fetched /\ j \notin invoked /\ Before(j) /\ ~Held(j)
  <2> SUFFICES ASSUME NEW j \in Task, Queued(j)', ~Queued(j)
               PROVE  j \in fetched /\ j \notin invoked /\ Before(j) /\ ~Held(j)
    OBVIOUS
  <2>1. q' # q
    BY DEF Queued
  <2>2. /\ k[Main] \in 1..Len(Batch(Main)) /\ ToPush(k[Main])
        /\ j = Batch(Main)[k[Main]]
    BY <2>1, MainQueues DEF Queued
  <2> QED
    BY <2>2, BatchIsFetched DEF PhaseInv, Untouched, Open
<1>4. \A t \in Worker : /\ pc'[t] = "start" => pc[t] = "start"
                        /\ Begun(t)' => Begun(t)
                        /\ Busy(t)' => got[t] \in Task /\ got'[t] = got[t]
  BY <1>1 DEF Begun, Busy, Control
<1> QED
  BY <1>1, <1>2, <1>3, <1>4, MainMarks, LifeKept

\* Begin and end of a task, and what a worker is given.
LEMMA LifeOfWorkerStep ==
  ASSUME QueueInv, OperatorTypeOK, Control, SearchInv, Life,
         NEW t \in Worker, WorkerStep(t)
  PROVE  Life'
<1>0. t \in Thread /\ t \in Caller /\ prereq \in [Task -> Seq(Task)]
      /\ \A u \in Worker : u \in Caller
  BY Threads DEF SearchInv, TP!TracerInv, TP!TracerTypeOK
<1>1. /\ \A u \in Caller \ {t} : pc'[u] = pc[u]
      /\ prereq' = prereq /\ fetched' = fetched
      /\ invoked \subseteq invoked'
  BY WorkerFrame
<1>2. CASE FailTask(t) \/ StopWorker(t)
  <2>1. UNCHANGED <<begun, done, invoked, got>> /\ Begun(t)
    BY <1>2 DEF FailTask, StopWorker, Stop, tvars, qvars, Begun
  <2>2. \A j \in Task : Queued(j)' => Queued(j)
    <3>1. q' = q \/ \A h \in Host : q'[h] = <<>>
      BY <1>2 DEF FailTask, StopWorker, Stop, qvars, EmptyLists
    <3> QED
      BY <3>1 DEF Queued, In
  <2>3. \A u \in Worker \ {t} : u \in failed' <=> u \in failed
    BY <1>2 DEF FailTask, StopWorker
  <2>4. pc'[t] # "start"
    BY <1>0, <1>2, Gone DEF FailTask, StopWorker
  <2>5. \A u \in Worker : /\ pc'[u] = "start" => pc[u] = "start"
                          /\ Begun(u)' => Begun(u)
                          /\ Busy(u)' => got[u] \in Task /\ got'[u] = got[u]
    BY <1>0, <1>1, <2>1, <2>3, <2>4 DEF Begun, Busy, Control
  <2> QED
    BY <1>0, <1>1, <2>1, <2>2, <2>5, LifeKept DEF Life
<1>3. CASE PopTask(t) /\ at'[t] # "out"
  <2>1. /\ UNCHANGED <<begun, done, invoked, failed>> /\ t \notin failed
        /\ \A j \in Task : Queued(j)' => Queued(j)
        /\ \A u \in Worker \ {t} : got'[u] = got[u]
    BY <1>3, PopResult DEF PopTask, tvars, Control, Queued, QueueInv
  <2>2. pc'[t] \in {"pop", "dead"}
    BY <1>0, <1>3, Gone DEF PopTask
  <2>3. \A u \in Worker : /\ pc'[u] = "start" => pc[u] = "start"
                          /\ Begun(u)' => Begun(u)
                          /\ Busy(u)' => got[u] \in Task /\ got'[u] = got[u]
    BY <1>0, <1>1, <2>1, <2>2 DEF Begun, Busy, Control
  <2> QED
    BY <1>0, <1>1, <2>1, <2>3, LifeKept DEF Life
<1>4. CASE PopTask(t) /\ at'[t] = "out"
  <2>1. PICK h \in Host : /\ q[h] # <<>> /\ q' = PopFrom(q, h)
                          /\ got' = [got EXCEPT ![t] = Head(q[h])]
    BY <1>4, PopResult DEF PopTask, QueueInv
  <2>2a. Head(q[h]) \in Task
    BY <2>1 DEF QueueInv, TypeOK
  <2>2. PICK j \in Task : j = Head(q[h])
    BY <2>2a
  <2>3. /\ In(j, q[h])
        /\ \A i \in Host : ~In(j, q'[i])
        /\ \A i \in Host : \A x : In(x, q'[i]) => In(x, q[i])
    BY <2>1, <2>2, PopStored DEF QueueInv, TypeOK
  <2>4. got'[t] = j /\ \A u \in Worker \ {t} : got'[u] = got[u]
    BY <1>0, <2>1, <2>2, Threads DEF QueueInv, TypeOK
  <2>5. /\ pc'[t] = "start" /\ t \notin failed
        /\ UNCHANGED <<begun, done, invoked, failed>>
    BY <1>0, <1>4, Gone DEF PopTask, tvars, Control
  <2>6. Queued(j) /\ ~Queued(j)' /\ \A i \in Task : Queued(i)' => Queued(i)
    BY <2>1, <2>3 DEF Queued
  <2>7. j \in fetched /\ j \notin invoked /\ Before(j) /\ begun[j] # 1
    BY <2>2, <2>6 DEF Life
  <2>8. \A u \in Worker \ {t} : Busy(u) => got[u] # j
    BY <2>6, <2>7 DEF Life, Busy
  <2>9. \A i \in Task : Before(i) => Before(i)'
    BY <1>0, <1>1, <2>5, StatusKept, BeforeKept
  <2>10. \A i \in Task : Held(i)' => Held(i) \/ i = j
    BY <1>0, <1>1, <2>4 DEF Held
  <2>11. \A u \in Worker : Begun(u)' => u # t /\ Begun(u) /\ got'[u] = got[u]
    BY <1>0, <1>1, <2>4, <2>5 DEF Begun
  <2>12. \A u \in Worker : Busy(u)' =>
           \/ u = t /\ got'[u] = j
           \/ u # t /\ Busy(u) /\ got'[u] = got[u] /\ got[u] # j
    BY <1>0, <1>1, <2>4, <2>8, <2>11 DEF Busy
  <2>13. ASSUME NEW i \in Task
         PROVE  /\ begun'[i] \in {0, 1}
                /\ begun'[i] = 1 => i \in invoked'
                /\ i \in invoked' => i \in fetched'
                /\ i \in done' => begun'[i] = 1
                /\ Queued(i)' \/ Held(i)' => i \in fetched' /\ i \notin invoked' /\ Before(i)'
    BY <1>1, <2>5, <2>6, <2>7, <2>9, <2>10 DEF Life
  <2>14. ASSUME NEW u \in Worker
         PROVE  /\ pc'[u] = "start" => ~Queued(got[u])'
                /\ Begun(u)' => begun'[got'[u]] = 1 /\ got'[u] \notin done'
    <3>1. ASSUME pc'[u] = "start" PROVE ~Queued(got[u])'
      <4>1. CASE u = t
        <5>1. ~\E i \in Host : In(got'[u], q'[i])
          BY <2>3, <2>4, <4>1
        <5> QED
          BY <5>1 DEF Queued
      <4>2. CASE u # t
        <5>1. pc[u] = "start" /\ got'[u] = got[u]
          BY <1>0, <1>1, <2>4, <3>1, <4>2
        <5>2. ~Queued(got[u])
          BY <5>1 DEF Life
        <5>3. ~\E i \in Host : In(got'[u], q'[i])
          BY <2>3, <5>1, <5>2 DEF Queued
        <5> QED
          BY <5>3 DEF Queued
      <4> QED
        BY <4>1, <4>2
    <3>2. ASSUME Begun(u)' PROVE begun'[got'[u]] = 1 /\ got'[u] \notin done'
      BY <2>5, <2>11, <3>2 DEF Life
    <3> QED
      BY <3>1, <3>2
  <2>15. \A u, w \in Worker : Busy(u)' /\ Busy(w)' /\ got'[u] = got'[w] => u = w
    BY <2>12 DEF Life
  <2> QED
    BY <2>13, <2>14, <2>15 DEF Life
<1>5. CASE StartTask(t)
  <2> DEFINE j == got[t]
  <2>1. /\ pc[t] = "start" /\ j \in Task /\ Held(j) /\ ~Queued(j)
        /\ j \in fetched /\ j \notin invoked /\ t \notin failed
    <3>1. pc[t] = "start" /\ j \in Task /\ t \notin failed
      BY <1>5 DEF StartTask, Control, Busy
    <3> QED
      BY <3>1 DEF Life, Held
  <2>2. /\ invoked' = invoked \cup {j} /\ got' = got /\ q' = q
        /\ UNCHANGED <<done, failed>>
        /\ begun' = [begun EXCEPT ![j] = @ + 1]
    BY <1>5 DEF StartTask, T!MarkInvoked, qvars
  <2>3. begun[j] = 0 /\ j \notin done
    BY <2>1 DEF Life
  <2>4. begun'[j] = 1 /\ \A i \in Task : i # j => begun'[i] = begun[i]
    BY <2>1, <2>2, <2>3 DEF OperatorTypeOK
  <2>5. pc'[t] = "body" /\ \A u \in Worker \ {t} : pc'[u] = pc[u]
    BY <1>0, <1>1, <1>5, Gone DEF StartTask
  <2> HIDE DEF j
  <2>6. \A i \in Task : Status(i) = "done" => Status(i)' = "done"
    <3>1. Status(j) # "done"
      BY <2>1, <2>3 DEF Status
    <3> QED
      BY <2>2, <2>4, <3>1, StatusKept
  <2>7. \A i \in Task : Before(i) => Before(i)'
    BY <1>0, <1>1, <2>6, BeforeKept
  <2>8. \A u \in Worker \ {t} : Busy(u) => got[u] # j
    BY <2>1 DEF Life, Busy, j
  <2>9. \A i \in Task : (Queued(i)' => Queued(i)) /\ (Held(i)' => Held(i) /\ i # j)
    BY <2>2, <2>5, <2>8 DEF Queued, Held, Busy
  <2>10. \A u \in Worker : Begun(u)' => u = t \/ Begun(u)
    BY <2>2, <2>5 DEF Begun
  <2>11. \A u \in Worker : Busy(u)' => Busy(u)
    BY <2>1, <2>2, <2>5 DEF Busy, Begun
  <2>12. ASSUME NEW i \in Task
         PROVE  /\ begun'[i] \in {0, 1}
                /\ begun'[i] = 1 => i \in invoked'
                /\ i \in invoked' => i \in fetched'
                /\ i \in done' => begun'[i] = 1
                /\ Queued(i)' \/ Held(i)' => i \in fetched' /\ i \notin invoked' /\ Before(i)'
    <3>1. Queued(j) => FALSE
      BY <2>1 DEF j
    <3> QED
      BY <1>1, <2>1, <2>2, <2>3, <2>4, <2>7, <2>9, <3>1 DEF Life
  <2>13. ASSUME NEW u \in Worker
         PROVE  /\ pc'[u] = "start" => ~Queued(got[u])'
                /\ Begun(u)' => begun'[got'[u]] = 1 /\ got'[u] \notin done'
    <3>1. pc'[u] = "start" => ~Queued(got[u])
      BY <2>5 DEF Life
    <3>2. Queued(got[u])' <=> Queued(got[u])
      BY <2>2 DEF Queued
    <3>3. ASSUME Begun(u)' PROVE begun'[got'[u]] = 1 /\ got'[u] \notin done'
      <4>1. CASE u = t
        BY <2>2, <2>3, <2>4, <4>1 DEF j
      <4>2. CASE u # t
        <5>1. Begun(u) /\ got[u] \in Task /\ got[u] # j
          BY <2>8, <2>10, <3>3, <4>2 DEF Busy, Control
        <5> QED
          BY <2>2, <2>4, <5>1 DEF Life
      <4> QED
        BY <4>1, <4>2
    <3> QED
      BY <3>1, <3>2, <3>3
  <2>14. \A u, w \in Worker : Busy(u)' /\ Busy(w)' /\ got'[u] = got'[w] => u = w
    BY <2>2, <2>11 DEF Life
  <2> QED
    BY <2>12, <2>13, <2>14 DEF Life
<1>6. CASE EndTask(t)
  <2> DEFINE j == got[t]
  <2>1. /\ Begun(t) /\ j \in Task /\ begun[j] = 1 /\ j \notin done /\ t \notin failed
    <3>1. pc[t] = "body" /\ j \in Task /\ t \notin failed
      BY <1>6 DEF EndTask, Control, Busy, Begun
    <3> QED
      BY <3>1 DEF Life, Begun
  <2>2. /\ done' = done \cup {j} /\ got' = got /\ q' = q
        /\ UNCHANGED <<begun, failed, invoked>>
    BY <1>6 DEF EndTask, qvars, tvars
  <2>3. pc'[t] = "pop" /\ \A u \in Worker \ {t} : pc'[u] = pc[u]
    BY <1>0, <1>1, <1>6, Gone DEF EndTask
  <2> HIDE DEF j
  <2>4. \A i \in Task : Before(i) => Before(i)'
    BY <1>0, <1>1, <2>2, StatusKept, BeforeKept
  <2>5. \A u \in Worker : Busy(u)' => u # t /\ Busy(u) /\ got[u] # j
    BY <2>1, <2>2, <2>3 DEF Life, Busy, Begun, j
  <2>6. \A u \in Worker : Begun(u)' => Begun(u) /\ got[u] # j
    BY <2>2, <2>3, <2>5 DEF Busy, Begun
  <2>7. \A i \in Task : (Queued(i)' => Queued(i)) /\ (Held(i)' => Held(i))
    BY <2>2, <2>3 DEF Queued, Held
  <2>8. ASSUME NEW i \in Task
        PROVE  /\ begun'[i] \in {0, 1}
               /\ begun'[i] = 1 => i \in invoked'
               /\ i \in invoked' => i \in fetched'
               /\ i \in done' => begun'[i] = 1
               /\ Queued(i)' \/ Held(i)' => i \in fetched' /\ i \notin invoked' /\ Before(i)'
    BY <1>1, <2>1, <2>2, <2>4, <2>7 DEF Life
  <2>9. ASSUME NEW u \in Worker
        PROVE  /\ pc'[u] = "start" => ~Queued(got[u])'
               /\ Begun(u)' => begun'[got'[u]] = 1 /\ got'[u] \notin done'
    <3>1. pc'[u] = "start" => ~Queued(got[u])
      BY <2>3 DEF Life
    <3>2. Queued(got[u])' <=> Queued(got[u])
      BY <2>2 DEF Queued
    <3>3. Begun(u)' => begun'[got'[u]] = 1 /\ got'[u] \notin done'
      BY <2>2, <2>6 DEF Life
    <3> QED
      BY <3>1, <3>2, <3>3
  <2>10. \A u, w \in Worker : Busy(u)' /\ Busy(w)' /\ got'[u] = got'[w] => u = w
    BY <2>2, <2>5 DEF Life
  <2> QED
    BY <2>8, <2>9, <2>10 DEF Life
<1> QED
  BY <1>2, <1>3, <1>4, <1>5, <1>6 DEF WorkerStep

-----------------------------------------------------------------------------
(* What main knows, while workers move.                                     *)

\* Workers open nothing, and mark only what is open.
LEMMA WorkerOpens ==
  ASSUME QueueInv, OperatorTypeOK, Control, SearchInv, Life,
         NEW t \in Worker, WorkerStep(t)
  PROVE  /\ \A j \in Task : Open(j)' => Open(j)
         /\ \A j \in Task : j \in invoked' => j \in invoked \/ Open(j)
         /\ \A j \in Task : Before(j) => Before(j)'
<1>0. t \in Thread /\ t \in Caller /\ prereq \in [Task -> Seq(Task)]
      /\ \A u \in Worker : u \in Caller
  BY Threads DEF SearchInv, TP!TracerInv, TP!TracerTypeOK
<1>1. /\ \A u \in Caller \ {t} : pc'[u] = pc[u]
      /\ prereq' = prereq
  BY WorkerFrame
<1>2. CASE FailTask(t) \/ StopWorker(t) \/ EndTask(t)
  <2>1. UNCHANGED <<begun, invoked, got>> /\ done \subseteq done'
    BY <1>2 DEF FailTask, StopWorker, Stop, EndTask, tvars, qvars
  <2>2. \A j \in Task : Queued(j)' => Queued(j)
    <3>1. q' = q \/ \A h \in Host : q'[h] = <<>>
      BY <1>2 DEF FailTask, StopWorker, Stop, EndTask, qvars, EmptyLists
    <3> QED
      BY <3>1 DEF Queued, In
  <2>3. pc'[t] # "start"
    BY <1>0, <1>2, Gone DEF FailTask, StopWorker, EndTask
  <2>4. \A j \in Task : Held(j)' => Held(j)
    BY <1>0, <1>1, <2>1, <2>3 DEF Held
  <2>5. \A j \in Task : Before(j) => Before(j)'
    BY <1>0, <1>1, <2>1, StatusKept, BeforeKept
  <2> QED
    BY <2>1, <2>2, <2>4, <2>5 DEF Open
<1>3. CASE PopTask(t) /\ at'[t] # "out"
  <2>1. /\ UNCHANGED <<begun, done, invoked>>
        /\ \A j \in Task : Queued(j)' => Queued(j)
        /\ \A u \in Worker \ {t} : got'[u] = got[u]
    BY <1>3, PopResult DEF PopTask, tvars, Queued, QueueInv
  <2>2. pc'[t] # "start"
    BY <1>0, <1>3, Gone DEF PopTask
  <2>3. \A j \in Task : Held(j)' => Held(j)
    BY <1>0, <1>1, <2>1, <2>2 DEF Held
  <2>4. \A j \in Task : Before(j) => Before(j)'
    BY <1>0, <1>1, <2>1, StatusKept, BeforeKept
  <2> QED
    BY <2>1, <2>3, <2>4 DEF Open
<1>4. CASE PopTask(t) /\ at'[t] = "out"
  <2>1. PICK h \in Host : /\ q[h] # <<>> /\ q' = PopFrom(q, h)
                          /\ got' = [got EXCEPT ![t] = Head(q[h])]
    BY <1>4, PopResult DEF PopTask, QueueInv
  <2>2. /\ In(Head(q[h]), q[h])
        /\ \A i \in Host : \A x : In(x, q'[i]) => In(x, q[i])
    BY <2>1, PopStored DEF QueueInv, TypeOK
  <2>3. got'[t] = Head(q[h]) /\ \A u \in Worker \ {t} : got'[u] = got[u]
    BY <1>0, <2>1, Threads DEF QueueInv, TypeOK
  <2>4. UNCHANGED <<begun, done, invoked>>
    BY <1>4 DEF PopTask, tvars
  <2>5. \A j \in Task : Queued(j)' => Queued(j)
    BY <2>2 DEF Queued
  <2>6. \A j \in Task : Held(j)' => Held(j) \/ Queued(j)
    BY <1>0, <1>1, <2>2, <2>3 DEF Held, Queued
  <2>7. \A j \in Task : Before(j) => Before(j)'
    BY <1>0, <1>1, <2>4, StatusKept, BeforeKept
  <2> QED
    BY <2>4, <2>5, <2>6, <2>7 DEF Open
<1>5. CASE StartTask(t)
  <2>1. /\ pc[t] = "start" /\ got[t] \in Task
        /\ invoked' = invoked \cup {got[t]} /\ got' = got /\ q' = q /\ done' = done
        /\ begun' = [begun EXCEPT ![got[t]] = @ + 1]
    BY <1>5 DEF StartTask, T!MarkInvoked, qvars, Control, Busy
  <2>2. Held(got[t])
    BY <2>1 DEF Held
  <2>3. got[t] \notin invoked /\ begun[got[t]] = 0 /\ got[t] \notin done
    BY <2>1, <2>2 DEF Life
  <2>4. \A i \in Task : i # got[t] => begun'[i] = begun[i]
    BY <2>1 DEF OperatorTypeOK
  <2>5. pc'[t] = "body"
    BY <1>0, <1>5, Gone DEF StartTask
  <2>6. \A i \in Task : Queued(i)' => Queued(i)
    BY <2>1 DEF Queued
  <2>7. \A i \in Task : Held(i)' => Held(i)
    BY <1>0, <1>1, <2>1, <2>5 DEF Held
  <2>8. Status(got[t]) # "done"
    BY <2>1, <2>3 DEF Status
  <2>9. \A i \in Task : Before(i) => Before(i)'
    BY <1>0, <1>1, <2>1, <2>4, <2>8, StatusKept, BeforeKept
  <2> QED
    BY <2>1, <2>2, <2>4, <2>6, <2>7, <2>9 DEF Open
<1> QED
  BY <1>2, <1>3, <1>4, <1>5 DEF WorkerStep

LEMMA DoneOfFinite ==
  ASSUME NEW b \in Seq(Task)
  PROVE  /\ IsFiniteSet(DoneOf(b)) /\ Cardinality(DoneOf(b)) <= Len(b)
         /\ Cardinality(DoneOf(b)) \in Nat
         /\ Cardinality(DoneOf(b)) = Len(b) => DoneOf(b) = 1..Len(b)
<1>0. Len(b) \in Nat /\ Len(b) \in Int /\ 1 \in Int
  OBVIOUS
<1>1. IsFiniteSet(1..Len(b)) /\ Cardinality(1..Len(b)) = Len(b)
  <2>1. /\ IsFiniteSet(1..Len(b))
        /\ Cardinality(1..Len(b)) = IF 1 > Len(b) THEN 0 ELSE Len(b) - 1 + 1
    BY <1>0, FS_Interval, Zenon
  <2> QED
    BY <1>0, <2>1
<1>2. DoneOf(b) \subseteq 1..Len(b)
  BY DEF DoneOf
<1> QED
  BY <1>1, <1>2, FS_Subset, FS_CardinalityType

\* A completed task comes back on the output queue of main.
LEMMA ReturningAtEnd ==
  ASSUME OperatorTypeOK, Control, SearchInv, Life, PhaseInv, NEW t \in Worker, EndTask(t)
  PROVE  Returning'
<1>1. /\ pc[t] = "body" /\ got[t] \in Task /\ got[t] \notin done /\ Open(got[t])
  BY DEF EndTask, Control, Life, Busy, Begun, Open
<1>2. PICK j \in Task : j = got[t]
  BY <1>1
<1>3. /\ done' = done \cup {j}
      /\ outq' = IF outOf[j] = NoThread THEN outq
                 ELSE [outq EXCEPT ![outOf[j]] = Append(@, j)]
      /\ UNCHANGED <<k, array, batch>>
  BY <1>2 DEF EndTask, tvars
<1>4. pc'[Main] = pc[Main] /\ Main \in Caller /\ Main # NoThread
  BY WorkerFrame, Threads DEF WorkerStep
<1>5. pc[Main] \notin {"trace", "assign"}
  BY <1>1 DEF PhaseInv, Quiet, Settled
<1>6. CASE pc[Main] \notin {"push", "await"}
  BY <1>4, <1>5, <1>6 DEF Returning
<1>7. CASE pc[Main] \in {"push", "await"}
  <2> DEFINE b == Batch(Main)
  <2>1. b \in Seq(Task) /\ NoTwice(b)
    BY BatchIsFetched
  <2>2. PICK i \in 1..Len(b) : b[i] = j
    BY <1>1, <1>2, <1>7 DEF PhaseInv, Outstanding
  <2>3. outOf[j] = Main
    BY <1>7, <2>2 DEF PhaseInv, Routed, Assigned
  <2>4. outq[Main] \in Seq(Task) /\ outq'[Main] = Append(outq[Main], j)
    BY <1>3, <1>4, <2>3 DEF OperatorTypeOK
  <2>5. b' = b /\ Counted' = Counted
    BY <1>3, <1>4 DEF Batch, Counted
  <2> HIDE DEF b
  <2>6. /\ Len(outq'[Main]) = Len(outq[Main]) + 1
        /\ \A l \in 1..Len(outq'[Main]) : In(outq'[Main][l], b)
    <3>1. \A l \in 1..Len(outq[Main]) : In(outq[Main][l], b)
      BY <1>7 DEF PhaseInv, Returning, b
    <3>2. In(j, b)
      BY <2>2 DEF In
    <3>3. \A l \in 1..Len(outq'[Main]) :
            outq'[Main][l] = IF l = Len(outq[Main]) + 1 THEN j ELSE outq[Main][l]
      BY <2>4
    <3> QED
      BY <2>4, <3>1, <3>2, <3>3
  <2>7. DoneOf(b)' = DoneOf(b) \cup {i} /\ i \notin DoneOf(b)
    <3>1. \A l \in 1..Len(b) : b[l] = j => l = i
      BY <2>1, <2>2 DEF NoTwice
    <3>2. j \notin done
      BY <1>1, <1>2
    <3> QED
      BY <1>3, <2>2, <2>5, <3>1, <3>2 DEF DoneOf
  <2>8. Cardinality(DoneOf(b)') = Cardinality(DoneOf(b)) + 1
    BY <2>1, <2>7, DoneOfFinite, FS_AddElement
  <2>9. Cardinality(DoneOf(b)) = Counted + Len(outq[Main])
    BY <1>7 DEF PhaseInv, Returning, b
  <2>10. Counted \in Nat
    BY <1>4 DEF Counted, OperatorTypeOK
  <2>11. Cardinality(DoneOf(b)') = Counted' + Len(outq'[Main])
    BY <2>4, <2>5, <2>6, <2>8, <2>9, <2>10
  <2>12. \A l \in 1..Len(outq'[Main]) : In(outq'[Main][l], b')
    BY <2>5, <2>6
  <2> QED
    BY <1>4, <1>5, <2>11, <2>12 DEF Returning, b
<1> QED
  BY <1>6, <1>7

LEMMA PhaseOfWorkerStep ==
  ASSUME QueueInv, OperatorTypeOK, Control, SearchInv, Life, PhaseInv,
         NEW t \in Worker, WorkerStep(t)
  PROVE  PhaseInv'
<1>1. /\ pc'[Main] = pc[Main]
      /\ UNCHANGED <<k, prog, failing, outOf, prereq, current, array, stack, where, batch>>
      /\ invoked \subseteq invoked'
  BY WorkerFrame, Threads
<1>2. /\ \A j \in Task : Open(j)' => Open(j)
      /\ \A j \in Task : j \in invoked' => j \in invoked \/ Open(j)
      /\ \A j \in Task : Before(j) => Before(j)'
  BY WorkerOpens
<1>3. /\ Batch(Main)' = Batch(Main)
      /\ \A i \in 1..Len(Batch(Main)) : Batch(Main)[i] \in Task
  BY <1>1, BatchIsFetched DEF Batch
<1>4. Settled' <=> Settled
  BY <1>1 DEF Settled
<1>5. Quiet'
  BY <1>2, <1>4 DEF PhaseInv, Quiet
<1>6. Collected'
  <2> SUFFICES ASSUME pc[Main] = "trace", where[Main] \in {"ready", "search"},
                      NEW i \in 1..Len(array[current])
               PROVE  array[current][i] \notin invoked'
    BY <1>1 DEF Collected
  <2>1. array[current] \in Seq(Task)
    BY DEF SearchInv, TP!TracerInv, TP!TracerTypeOK
  <2>2. array[current][i] \in Task
    BY <2>1
  <2> QED
    BY <1>2, <2>2 DEF PhaseInv, Collected, Quiet, Settled
<1>7. Untouched'
  <2>1. \A i \in 1..Len(Batch(Main)) : ToPush(i)' => ToPush(i)
    BY <1>1 DEF ToPush
  <2> QED
    BY <1>2, <1>3, <2>1 DEF PhaseInv, Untouched
<1>8. Routed'
  BY <1>1, <1>3 DEF PhaseInv, Routed, Assigned
<1>9. Outstanding'
  BY <1>1, <1>2, <1>3 DEF PhaseInv, Outstanding, Pushed
<1>10. Returning'
  <2>1. CASE EndTask(t)
    BY <2>1, ReturningAtEnd
  <2>2. CASE ~EndTask(t)
    <3>1. UNCHANGED <<done, outq>>
      BY <2>2 DEF WorkerStep, PopTask, StartTask, FailTask, StopWorker
    <3>2. DoneOf(Batch(Main))' = DoneOf(Batch(Main))
      BY <1>3, <3>1 DEF DoneOf
    <3> QED
      BY <1>1, <1>3, <3>1, <3>2 DEF PhaseInv, Returning, Counted
  <2> QED
    BY <2>1, <2>2
<1>11. Rooted'
  BY <1>1 DEF PhaseInv, Rooted, RootOf, TP!RootSought, TP!Elements
<1> QED
  BY <1>5, <1>6, <1>7, <1>8, <1>9, <1>10, <1>11 DEF PhaseInv

-----------------------------------------------------------------------------
(* What main knows, in its own steps.                                       *)

\* Main opens the task it pushes, and no other.
LEMMA MainOpens ==
  ASSUME QueueInv, OperatorTypeOK, Control, SearchInv, Life, PhaseInv, MainStep
  PROVE  /\ \A j \in Task : Open(j)' =>
              \/ Open(j)
              \/ q' # q /\ j = Batch(Main)[k[Main]]
         /\ \A j \in Task : Before(j) => Before(j)'
<1>1. /\ \A t \in Worker : pc'[t] = pc[t]
      /\ UNCHANGED <<got, begun, done>> /\ prereq' = prereq
  BY MainFrame, Threads
<1>2. \A j \in Task : Held(j)' => Held(j)
  BY <1>1 DEF Held
<1>3. ASSUME NEW j \in Task, Queued(j)' PROVE Queued(j) \/ (q' # q /\ j = Batch(Main)[k[Main]])
  <2>1. CASE q' = q
    BY <1>3, <2>1 DEF Queued
  <2>2. CASE q' # q
    BY <1>3, <2>2, MainQueues DEF Queued
  <2> QED
    BY <2>1, <2>2
<1>4. prereq \in [Task -> Seq(Task)]
  BY DEF SearchInv, TP!TracerInv, TP!TracerTypeOK
<1>5. \A j \in Task : Before(j) => Before(j)'
  BY <1>1, <1>4, MainMarks, StatusKept, BeforeKept
<1> QED
  BY <1>1, <1>2, <1>3, <1>5 DEF Open

\* When nothing is open, the invoked tasks are done.
LEMMA SettledDone ==
  ASSUME Life, Quiet, Settled, NEW j \in Task, j \in invoked
  PROVE  Status(j) = "done"
<1>1. ~Open(j) /\ begun[j] \in {0, 1}
  BY DEF Quiet, Life
<1> QED
  BY <1>1 DEF Open, Status

LEMMA PhaseOfInvoke ==
  ASSUME QueueInv, OperatorTypeOK, Control, SearchInv, Life, PhaseInv, InvokeMain
  PROVE  PhaseInv'
<1>1. MainStep /\ Main \in Caller
  BY Threads DEF MainStep
<1>2. pc[Main] = "prog" /\ pc'[Main] = "trace" /\ UNCHANGED <<q, where, failing>>
  BY <1>1, Gone DEF InvokeMain, qvars, tvars
<1>3. where'[Main] = "out"
  BY <1>2 DEF Control
<1>4. outq'[Main] = <<>>
  BY <1>1 DEF InvokeMain, NewOutputQueue, OperatorTypeOK
<1>5. Quiet'
  BY <1>1, <1>2, MainOpens DEF PhaseInv, Quiet, Settled
<1> QED
  BY <1>2, <1>3, <1>4, <1>5
     DEF PhaseInv, Collected, Untouched, ToPush, Routed, Assigned, Outstanding,
         Returning, Rooted

\* What a search hands out or skips was not invoked before.
LEMMA CollectedInSearch ==
  ASSUME SearchInv, Life, Collected, pc[Main] = "trace", pc' = pc, TP!Search(Main)
  PROVE  Collected'
<1> DEFINE a == array[current]
<1>1. /\ a \in Seq(Task) /\ current \in TP!Ref /\ array \in [TP!Ref -> Seq(Task)]
      /\ \A i \in 1..Len(a) : a[i] \in fetched
  BY DEF SearchInv, TP!TracerInv, TP!TracerTypeOK, TP!Accounted
<1>2. /\ where[Main] = "search" /\ where' = where /\ current' = current
  BY DEF TP!Search, TP!VisitInvoked, TP!VisitTraced, TP!VisitNew, TP!Postpone,
         TP!Fetch, TP!Skip, TP!Calling, TP!Visited
<1>3. \A i \in 1..Len(a) : a[i] \notin invoked
  BY <1>2 DEF Collected
<1>4. CASE invoked' = invoked /\ array' = array
  BY <1>2, <1>3, <1>4 DEF Collected
<1>5. CASE TP!Fetch(Main)
  <2>1. TP!Top.task \in Task /\ TP!Top.task \notin fetched
    BY <1>5, TP!FirstTime, Threads, OperatorAssumption, ThreadAssumption
       DEF SearchInv, TP!Fetch
  <2>2. PICK j \in Task : j = TP!Top.task
    BY <2>1
  <2>3. j \notin invoked /\ invoked' = invoked
    BY <1>5, <2>1, <2>2 DEF Life, TP!Fetch
  <2>4. array'[current] = Append(a, j)
    BY <1>1, <1>5, <2>2 DEF TP!Fetch
  <2> HIDE DEF a
  <2>5. \A i \in 1..Len(Append(a, j)) : Append(a, j)[i] \notin invoked
    BY <1>1, <1>3, <2>3
  <2> QED
    BY <1>2, <2>3, <2>4, <2>5 DEF Collected
<1>6. CASE TP!Skip(Main)
  <2>1. TP!Top.task \notin fetched
    BY <1>6, TP!FirstTime, Threads, OperatorAssumption, ThreadAssumption
       DEF SearchInv, TP!Skip
  <2>2. invoked' = invoked \cup {TP!Top.task} /\ array' = array
    BY <1>6 DEF TP!Skip
  <2>3. \A i \in 1..Len(a) : a[i] \notin invoked'
    BY <1>1, <1>3, <2>1, <2>2
  <2> QED
    BY <1>2, <2>2, <2>3 DEF Collected
<1>7. (invoked' = invoked /\ array' = array) \/ TP!Fetch(Main) \/ TP!Skip(Main)
  BY DEF TP!Search, TP!VisitInvoked, TP!VisitTraced, TP!VisitNew, TP!Postpone
<1> QED
  BY <1>4, <1>5, <1>6, <1>7

LEMMA PhaseOfTrace ==
  ASSUME QueueInv, OperatorTypeOK, Control, SearchInv, Life, PhaseInv, Trace(Main)
  PROVE  PhaseInv'
<1>1. MainStep /\ Main \in Caller
  BY Threads DEF MainStep
<1>2. /\ pc[Main] = "trace" /\ pc' = pc
      /\ UNCHANGED <<q, failing, k, outq, outOf, prog, done>>
  BY DEF Trace, ovars, qvars
<1>3. Quiet'
  BY <1>1, <1>2, MainOpens DEF PhaseInv, Quiet, Settled
<1>4. Untouched' /\ Routed' /\ Outstanding' /\ Returning'
  BY <1>2 DEF PhaseInv, Untouched, ToPush, Routed, Assigned, Outstanding, Returning
<1>5. RootOf(Main) \in Task /\ RootOf(Main)' = RootOf(Main)
  BY <1>2, RootIsTask DEF InvokePlace, RootOf
<1>6. where \in [Caller -> {"out", "clear", "ready", "search"}]
      /\ current \in TP!Ref /\ array \in [TP!Ref -> Seq(Task)]
  BY DEF SearchInv, TP!TracerInv, TP!TracerTypeOK
<1>7. CASE T!ClearFootprint(Main)
  <2>1. where'[Main] = "clear"
    BY <1>1, <1>6, <1>7 DEF T!ClearFootprint
  <2> QED
    BY <1>2, <1>3, <1>4, <2>1 DEF PhaseInv, Collected, Rooted
<1>8. CASE T!ClearFetched(Main)
  <2>1. where'[Main] = "ready"
    BY <1>1, <1>6, <1>8 DEF T!ClearFetched
  <2>2. array'[current'] = <<>>
    BY <1>6, <1>8 DEF T!ClearFetched, T!Ref, TP!Ref
  <2>3. Collected'
    BY <2>2 DEF Collected
  <2> QED
    BY <1>2, <1>3, <1>4, <2>1, <2>3 DEF PhaseInv, Rooted
<1>9. CASE T!Enter(Main, RootOf(Main))
  <2> DEFINE r == RootOf(Main)
  <2>1. /\ where[Main] = "ready" /\ where'[Main] = "search"
        /\ UNCHANGED <<current, array, invoked>>
    BY <1>1, <1>6, <1>9 DEF T!Enter
  <2>2. Collected'
    BY <1>2, <2>1 DEF PhaseInv, Collected
  <2>3. stack' = <<[task |-> T!NoTask, todo |-> <<r>>, all |-> TRUE]>>
    BY <1>9 DEF T!Enter
  <2>4. stack'[1].todo = <<r>>
    BY <2>3
  <2>5. r \in TP!Elements(<<r>>)
    BY DEF TP!Elements
  <2>6. r \in TP!Elements(stack[1].todo)'
    BY <2>4, <2>5 DEF TP!Elements
  <2>7. TP!RootSought(r)'
    BY <1>5, <2>6 DEF TP!RootSought
  <2> QED
    BY <1>2, <1>3, <1>4, <2>2, <2>7 DEF PhaseInv, Rooted
<1>10. CASE T!Search(Main)
  <2>1. TP!Search(Main)
    BY <1>1, <1>10, TracerActions
  <2>2. Collected'
    BY <1>2, <2>1, CollectedInSearch DEF PhaseInv
  <2>3. where[Main] = "search" /\ where' = where
    BY <2>1 DEF TP!Search, TP!VisitInvoked, TP!VisitTraced, TP!VisitNew, TP!Postpone,
                TP!Fetch, TP!Skip, TP!Calling, TP!Visited
  <2>4. PICK r \in Task : r = RootOf(Main)
    BY <1>5
  <2>5. TP!RootSought(r)
    BY <1>2, <2>3, <2>4 DEF PhaseInv, Rooted
  <2>6. TP!RootSought(r)'
    BY <1>1, <2>1, <2>3, <2>5, TP!RootKept, OperatorAssumption, ThreadAssumption
       DEF SearchInv
  <2>7. r = RootOf(Main)'
    BY <1>5, <2>4
  <2>8. TP!RootSought(RootOf(Main))'
    BY <2>6, <2>7 DEF TP!RootSought
  <2> QED
    BY <1>2, <1>3, <1>4, <2>2, <2>8 DEF PhaseInv, Rooted
<1> QED
  BY <1>7, <1>8, <1>9, <1>10 DEF Trace

LEMMA PhaseOfReturn ==
  ASSUME QueueInv, OperatorTypeOK, Control, SearchInv, Life, PhaseInv, TraceReturn(Main)
  PROVE  PhaseInv'
<1>1. MainStep /\ Main \in Caller
  BY Threads DEF MainStep
<1>2. /\ pc[Main] = "trace" /\ pc'[Main] \in {"assign", "finish", "prog"}
      /\ pc'[Main] # "prog" => UNCHANGED prog
      /\ pc'[Main] = "assign" <=> ret'[Main] = "tasks"
      /\ UNCHANGED <<q, failing, outq, outOf, done>>
  BY <1>1, Gone DEF TraceReturn, qvars
<1>3. ~failing
  BY <1>2 DEF Control
<1>4. /\ where[Main] = "search" /\ Len(stack) = 1 /\ TP!Top.todo = <<>>
      /\ ret' = [ret EXCEPT ![Main] = IF TP!Top.all THEN "nil" ELSE "tasks"]
      /\ batch' = IF TP!Top.all THEN batch ELSE [batch EXCEPT ![Main] = current]
      /\ UNCHANGED <<current, array, invoked, prereq>>
  BY DEF TraceReturn, T!Return, T!Leave, T!Top, TP!Top
<1>5. /\ ret'[Main] = "tasks" => batch'[Main] = current
      /\ ret'[Main] # "tasks" => TP!Top.all
  BY <1>1, <1>4 DEF SearchInv, TP!TracerInv, TP!TracerTypeOK
<1>6. Quiet'
  BY <1>1, <1>2, MainOpens DEF PhaseInv, Quiet, Settled
<1>7. k'[Main] = 1
  BY <1>1 DEF TraceReturn, Reset, OperatorTypeOK
<1>8. Untouched'
  <2> SUFFICES ASSUME pc'[Main] = "assign", NEW i \in 1..Len(Batch(Main)')
               PROVE  /\ Batch(Main)'[i] \notin invoked'
                      /\ ~Open(Batch(Main)[i])'
                      /\ Before(Batch(Main)[i])'
    BY <1>2 DEF Untouched, ToPush
  <2>1. Batch(Main)' = array[current]
    BY <1>2, <1>4, <1>5 DEF Batch
  <2>2. /\ array[current] \in Seq(Task)
        /\ \A l \in 1..Len(array[current]) : array[current][l] \in fetched
    BY DEF SearchInv, TP!TracerInv, TP!TracerTypeOK, TP!Accounted
  <2>3. PICK j \in Task : j = array[current][i]
    BY <2>1, <2>2
  <2>4. j \notin invoked /\ j \in fetched
    BY <1>2, <1>4, <2>1, <2>2, <2>3 DEF PhaseInv, Collected
  <2>5. ~Open(j)'
    BY <1>2, <1>6 DEF Quiet, Settled
  <2>6. Before(j)
    <3>1. \A l \in 1..Len(prereq[j]) : prereq[j][l] \in invoked
      BY <2>4 DEF SearchInv, TP!ReadyWhenFetched, TP!Elements
    <3>2. \A l \in 1..Len(prereq[j]) : prereq[j][l] \in Task
      <4>1. prereq[j] \in Seq(Task)
        BY DEF SearchInv, TP!TracerInv, TP!TracerTypeOK
      <4> QED
        BY <4>1
    <3>3. Settled /\ Quiet
      BY <1>2 DEF PhaseInv, Settled
    <3> QED
      BY <3>1, <3>2, <3>3, SettledDone DEF Before
  <2>7. Before(j)'
    BY <1>1, <2>6, MainOpens
  <2>8. Batch(Main)'[i] = j
    BY <2>1, <2>3
  <2>9. ~Open(Batch(Main)[i])' /\ Before(Batch(Main)[i])'
    BY <2>5, <2>7, <2>8 DEF Open, Queued, Held, Before, Batch
  <2> QED
    BY <1>4, <2>4, <2>8, <2>9
<1>9. Routed'
  BY <1>2, <1>7 DEF Routed, Assigned
<1>10. Collected' /\ Outstanding' /\ Returning'
  BY <1>2 DEF PhaseInv, Collected, Outstanding, Returning
<1>11. Rooted'
  <2> SUFFICES ASSUME pc'[Main] = "finish" PROVE RootOf(Main)' \in invoked'
    BY <1>2 DEF Rooted
  <2>1. TP!Top.all /\ TP!RootSought(RootOf(Main))
    BY <1>2, <1>4, <1>5 DEF PhaseInv, Rooted
  <2>2. stack[1].all /\ TP!Elements(stack[1].todo) = {}
    BY <1>4, <2>1 DEF TP!Top, TP!Elements
  <2>3. RootOf(Main) \in invoked
    BY <2>1, <2>2 DEF TP!RootSought
  <2> QED
    BY <1>2, <1>4, <2>3 DEF RootOf
<1> QED
  BY <1>6, <1>8, <1>9, <1>10, <1>11 DEF PhaseInv

LEMMA PhaseOfAssign ==
  ASSUME QueueInv, OperatorTypeOK, Control, SearchInv, Life, PhaseInv, Assign(Main)
  PROVE  PhaseInv'
<1> DEFINE b == Batch(Main)
           i == k[Main]
<1>1. MainStep /\ Main \in Caller
  BY Threads DEF MainStep
<1>2. /\ pc[Main] = "assign" /\ pc' = pc /\ i <= Len(b)
      /\ outOf' = [outOf EXCEPT ![b[i]] = Main] /\ k' = [k EXCEPT ![Main] = @ + 1]
      /\ UNCHANGED <<q, tvars, failing, outq, prog, done>>
  BY DEF Assign, Count, qvars
<1>3. b' = b /\ invoked' = invoked
  BY <1>2 DEF Batch, tvars
<1>4. Quiet'
  BY <1>1, <1>2, MainOpens DEF PhaseInv, Quiet, Settled
<1>5. k[Main] \in Nat \ {0} /\ k'[Main] = k[Main] + 1
  BY <1>1, <1>2 DEF OperatorTypeOK
<1>6. \A l \in 1..Len(b) : b[l] \in Task
  BY BatchIsFetched
<1>7. Untouched'
  <2>1. \A l \in 1..Len(b) : /\ b[l] \notin invoked /\ ~Open(b[l]) /\ Before(b[l])
    BY <1>2 DEF PhaseInv, Untouched, ToPush
  <2>2. \A j \in Task : Open(j)' => Open(j)
    BY <1>1, <1>2, MainOpens
  <2>3. \A j \in Task : Before(j) => Before(j)'
    BY <1>1, MainOpens
  <2>4. \A l \in 1..Len(b) : /\ b[l] \notin invoked' /\ ~Open(b[l])' /\ Before(b[l])'
    <3>1. \A l \in 1..Len(b) : b'[l] = b[l]
      BY <1>3
    <3> HIDE DEF b
    <3>2. ASSUME NEW l \in 1..Len(b), NEW j \in Task, j = b[l]
          PROVE  /\ b[l] \notin invoked' /\ ~Open(b[l])' /\ Before(b[l])'
      <4>1. j \notin invoked' /\ ~Open(j)' /\ Before(j)'
        BY <1>3, <2>1, <2>2, <2>3, <3>2
      <4>2. b[l]' = j
        BY <3>1, <3>2
      <4> QED
        BY <3>2, <4>1, <4>2 DEF Open, Queued, Held, Before
    <3> QED
      BY <1>6, <3>2
  <2> QED
    BY <1>3, <2>4 DEF Untouched
<1>8. Routed'
  <2> SUFFICES ASSUME NEW l \in 1..Len(b), l < k[Main] + 1 PROVE outOf'[b[l]] = Main
    BY <1>2, <1>3, <1>5 DEF Routed, Assigned
  <2>1. b[l] \in Task
    BY <1>6
  <2>2. CASE b[l] = b[i]
    BY <1>2, <2>1, <2>2 DEF OperatorTypeOK
  <2>3. CASE b[l] # b[i]
    <3>1. l < k[Main]
      BY <1>5, <2>3
    <3>2. outOf[b[l]] = Main
      BY <1>2, <3>1 DEF PhaseInv, Routed, Assigned
    <3> QED
      BY <1>2, <2>1, <2>3, <3>2 DEF OperatorTypeOK
  <2> QED
    BY <2>2, <2>3
<1> QED
  BY <1>2, <1>4, <1>7, <1>8 DEF PhaseInv, Collected, Outstanding, Returning, Rooted

LEMMA PhaseOfPush ==
  ASSUME QueueInv, OperatorTypeOK, Control, SearchInv, Life, PhaseInv, Push(Main)
  PROVE  PhaseInv'
<1> DEFINE b == Batch(Main)
<1>1. MainStep /\ Main \in Caller
  BY Threads DEF MainStep
<1>2. UNCHANGED <<tvars, failing, outq, outOf, prog, done>>
  BY DEF Push
<1>3. b' = b /\ invoked' = invoked
  BY <1>2 DEF Batch, tvars
<1>4. /\ pc[Main] \in {"assign", "push"} /\ pc'[Main] \in {"push", "await"}
      /\ k[Main] \in Nat \ {0}
  BY <1>1, Gone DEF Push, OperatorTypeOK
<1>5. b \in Seq(Task) /\ NoTwice(b) /\ Len(b) \in Nat /\ \A i \in 1..Len(b) : b[i] \in Task
  BY BatchIsFetched
<1>6. DoneOf(b)' = DoneOf(b)
  BY <1>2, <1>3 DEF DoneOf
<1>7. /\ \A j \in Task : Open(j)' => Open(j) \/ (q' # q /\ j = b[k[Main]])
      /\ \A j \in Task : Before(j) => Before(j)'
  BY <1>1, MainOpens
<1>8. Quiet' /\ Collected' /\ Rooted'
  BY <1>4 DEF Quiet, Settled, Collected, Rooted
\* A task of the batch that was to be pushed, and still is, is as it was.
<1>9. ASSUME \A i \in 1..Len(b) : ToPush(i)' => ToPush(i) /\ (q' # q => i # k[Main]),
             q' # q => k[Main] \in 1..Len(b)
      PROVE  Untouched'
  <2> SUFFICES ASSUME NEW i \in 1..Len(b), ToPush(i)'
               PROVE  /\ b'[i] \notin invoked' /\ ~Open(b[i])' /\ Before(b[i])'
    BY <1>3 DEF Untouched
  <2>1. PICK j \in Task : j = b[i]
    BY <1>5
  <2>2. /\ j \notin invoked /\ ~Open(j) /\ Before(j)
    BY <1>9, <2>1 DEF PhaseInv, Untouched
  <2>3. q' # q => j # b[k[Main]]
    <3> HIDE DEF b
    <3> QED
      BY <1>5, <1>9, <2>1 DEF NoTwice
  <2>4. j \notin invoked' /\ ~Open(j)' /\ Before(j)'
    BY <1>3, <1>7, <2>2, <2>3
  <2>5. b'[i] = j
    BY <1>3, <2>1
  <2> QED
    BY <2>4, <2>5 DEF Open, Queued, Held, Before
<1>10. CASE pc[Main] = "assign"
  <2>1. /\ k[Main] > Len(b) /\ pc'[Main] = "push" /\ k'[Main] = 1 /\ q' = q
    BY <1>1, <1>10, Gone DEF Push, PushEnter, Reset, OperatorTypeOK
  <2>2. Untouched'
    BY <1>9, <1>10, <2>1 DEF ToPush
  <2>3. Routed'
    <3>1. \A i \in 1..Len(b) : i < k[Main]
      BY <1>4, <1>5, <2>1
    <3>2. \A i \in 1..Len(b) : outOf[b[i]] = Main
      BY <1>10, <3>1 DEF PhaseInv, Routed, Assigned
    <3> QED
      BY <1>2, <1>3, <3>2 DEF Routed
  <2>4. Outstanding'
    BY <1>7, <1>10, <2>1 DEF PhaseInv, Quiet, Settled, Outstanding
  <2>5. Returning'
    <3>1. outq'[Main] = <<>>
      BY <1>2, <1>10 DEF PhaseInv, Returning
    <3>2. \A i \in 1..Len(b) : b[i] \notin done
      BY <1>5, <1>10 DEF PhaseInv, Untouched, ToPush, Life
    <3>3. DoneOf(b)' = {}
      BY <1>6, <3>2 DEF DoneOf
    <3>4. Cardinality(DoneOf(b)') = 0
      BY <3>3, FS_EmptySet
    <3>5. Counted' = 0
      BY <2>1 DEF Counted
    <3> QED
      BY <2>1, <3>1, <3>4, <3>5 DEF Returning
  <2> QED
    BY <1>8, <2>2, <2>3, <2>4, <2>5 DEF PhaseInv
<1>11. CASE pc[Main] = "push" /\ pc'[Main] = "push"
  <2>1. /\ k[Main] <= Len(b) /\ k'[Main] = k[Main] + 1
    BY <1>1, <1>11, Gone DEF Push, Count, OperatorTypeOK
  <2>2. k[Main] \in 1..Len(b)
    BY <1>4, <1>5, <2>1
  <2>3. Untouched'
    <3>1. \A i \in 1..Len(b) : ToPush(i)' => ToPush(i) /\ i # k[Main]
      BY <1>4, <1>11, <2>1 DEF ToPush
    <3> QED
      BY <1>9, <2>2, <3>1
  <2>4. Routed'
    BY <1>2, <1>3, <1>11 DEF PhaseInv, Routed, Assigned
  <2>5. Outstanding'
    <3> SUFFICES ASSUME NEW j \in Task, Open(j)'
                 PROVE  \E i \in 1..Len(b) : b[i] = j /\ i < k[Main] + 1
      BY <1>3, <1>11, <2>1 DEF Outstanding, Pushed
    <3>1. CASE Open(j)
      <4>1. PICK i \in 1..Len(b) : b[i] = j /\ i < k[Main]
        BY <1>11, <3>1 DEF PhaseInv, Outstanding, Pushed
      <4> QED
        BY <1>4, <4>1
    <3>2. CASE j = b[k[Main]]
      BY <1>4, <2>2, <3>2
    <3> QED
      BY <1>7, <3>1, <3>2
  <2>6. Returning'
    BY <1>2, <1>3, <1>6, <1>11 DEF PhaseInv, Returning, Counted
  <2> QED
    BY <1>8, <2>3, <2>4, <2>5, <2>6 DEF PhaseInv
<1>12. CASE pc[Main] = "push" /\ pc'[Main] = "await"
  <2>1. /\ k[Main] > Len(b) /\ k'[Main] = 1 /\ q' = q
    BY <1>1, <1>12, Gone DEF Push, PushLeave, Reset, OperatorTypeOK
  <2>2. Untouched'
    BY <1>12 DEF Untouched, ToPush
  <2>3. Routed'
    BY <1>2, <1>3, <1>12 DEF PhaseInv, Routed, Assigned
  <2>4. Outstanding'
    BY <1>3, <1>7, <1>12, <2>1 DEF PhaseInv, Outstanding, Pushed
  <2>5. Returning'
    <3>1. Counted = 0 /\ Counted' = 0
      BY <1>12, <2>1 DEF Counted
    <3> QED
      BY <1>2, <1>3, <1>6, <1>12, <3>1 DEF PhaseInv, Returning
  <2> QED
    BY <1>8, <2>2, <2>3, <2>4, <2>5 DEF PhaseInv
<1> QED
  BY <1>1, <1>4, <1>10, <1>11, <1>12, Gone DEF Push

LEMMA PhaseOfAwait ==
  ASSUME QueueInv, OperatorTypeOK, Control, SearchInv, Life, PhaseInv, Await(Main)
  PROVE  PhaseInv'
<1> DEFINE b == Batch(Main)
           o == outq[Main]
<1>1. MainStep /\ Main \in Caller
  BY Threads DEF MainStep
<1>2. /\ pc[Main] = "await" /\ o # <<>> /\ o \in Seq(Task)
      /\ outq' = [outq EXCEPT ![Main] = Tail(@)]
      /\ UNCHANGED <<q, tvars, outOf, prog, done>>
  BY <1>1 DEF Await, qvars, OperatorTypeOK
<1>3. b' = b
  BY <1>2 DEF Batch, tvars
<1>4. In(Head(o), b)
  <2>1. \A i \in 1..Len(o) : In(o[i], b)
    BY <1>2 DEF PhaseInv, Returning
  <2>2. 1 \in 1..Len(o) /\ Head(o) = o[1]
    BY <1>2
  <2> QED
    BY <2>1, <2>2
<1>5. /\ k'[Main] = k[Main] + 1 /\ k[Main] \in Nat \ {0}
      /\ UNCHANGED <<pc, failing>>
  BY <1>1, <1>4 DEF Await, Count, OperatorTypeOK
<1>6. outq'[Main] = Tail(o)
  BY <1>1, <1>2 DEF OperatorTypeOK
<1>7. Returning'
  <2>1. DoneOf(b)' = DoneOf(b)
    BY <1>2, <1>3 DEF DoneOf
  <2>2. Cardinality(DoneOf(b)) = Counted + Len(o)
    BY <1>2 DEF PhaseInv, Returning
  <2>3. Counted = k[Main] - 1 /\ Counted' = k[Main] + 1 - 1
    BY <1>2, <1>5 DEF Counted
  <2>4. /\ Len(Tail(o)) = Len(o) - 1 /\ Len(o) \in Nat \ {0}
        /\ \A i \in 1..Len(Tail(o)) : Tail(o)[i] = o[i + 1] /\ i + 1 \in 1..Len(o)
    BY <1>2
  <2>5. \A i \in 1..Len(Tail(o)) : In(Tail(o)[i], b)
    BY <1>2, <2>4 DEF PhaseInv, Returning
  <2> HIDE DEF b, o
  <2>6. Cardinality(DoneOf(b)') = Counted' + Len(outq'[Main])
    BY <1>5, <1>6, <2>1, <2>2, <2>3, <2>4
  <2>7. \A i \in 1..Len(outq'[Main]) : In(outq'[Main][i], b')
    BY <1>3, <1>6, <2>5
  <2> QED
    BY <1>2, <1>5, <2>6, <2>7 DEF Returning, b
<1>8. Outstanding'
  BY <1>1, <1>2, <1>3, <1>5, MainOpens DEF PhaseInv, Outstanding, Pushed
<1>9. Routed'
  BY <1>2, <1>3, <1>5 DEF PhaseInv, Routed, Assigned
<1> QED
  BY <1>2, <1>5, <1>7, <1>8, <1>9
     DEF PhaseInv, Quiet, Settled, Collected, Untouched, ToPush, Rooted

\* The batch is over when as many tasks as it holds have come back.
LEMMA PhaseOfAwaitEnd ==
  ASSUME QueueInv, OperatorTypeOK, Control, SearchInv, Life, PhaseInv, AwaitEnd(Main)
  PROVE  PhaseInv'
<1> DEFINE b == Batch(Main)
<1>1. MainStep /\ Main \in Caller
  BY Threads DEF MainStep
<1>2. /\ pc[Main] = "await" /\ pc'[Main] = "trace" /\ k[Main] > Len(b)
      /\ UNCHANGED <<q, tvars, outq, failing>>
  BY <1>1, Gone DEF AwaitEnd, qvars
<1>3. where'[Main] = "out"
  BY <1>2 DEF Control, tvars
<1>4. /\ b \in Seq(Task) /\ Len(b) \in Nat /\ k[Main] \in Nat /\ Len(outq[Main]) \in Nat
      /\ outq[Main] \in Seq(Task)
  BY <1>1, BatchIsFetched DEF OperatorTypeOK
<1>5. Cardinality(DoneOf(b)) = k[Main] - 1 + Len(outq[Main])
  BY <1>2 DEF PhaseInv, Returning, Counted
<1>6. Len(outq[Main]) = 0 /\ DoneOf(b) = 1..Len(b)
  <2> HIDE DEF b
  <2>1. Cardinality(DoneOf(b)) <= Len(b) /\ Cardinality(DoneOf(b)) \in Nat
    BY <1>4, DoneOfFinite
  <2>2. Len(outq[Main]) = 0 /\ Cardinality(DoneOf(b)) = Len(b)
    BY <1>2, <1>4, <1>5, <2>1
  <2> QED
    BY <1>4, <2>2, DoneOfFinite
<1>7. \A j \in Task : ~Open(j)
  <2> SUFFICES ASSUME NEW j \in Task, Open(j) PROVE FALSE
    OBVIOUS
  <2>1. PICK i \in 1..Len(b) : b[i] = j
    BY <1>2 DEF PhaseInv, Outstanding
  <2>2. j \in done
    BY <1>6, <2>1 DEF DoneOf
  <2>3. begun[j] = 1 /\ j \in invoked
    BY <2>2 DEF Life
  <2> QED
    BY <2>2, <2>3 DEF Open, Life
<1>8. Quiet'
  BY <1>1, <1>2, <1>7, MainOpens DEF Quiet
<1>9. outq'[Main] = <<>>
  BY <1>2, <1>4, <1>6
<1> QED
  BY <1>2, <1>3, <1>8, <1>9
     DEF PhaseInv, Collected, Untouched, ToPush, Routed, Assigned, Outstanding,
         Returning, Rooted

\* Outside of the loop of invoke main is settled or failing.
LEMMA PhaseOfEnding ==
  ASSUME QueueInv, OperatorTypeOK, Control, SearchInv, Life, PhaseInv,
         TraceRaise(Main) \/ FinishMain \/ JoinMain \/ ExitMain \/ Interrupt
  PROVE  PhaseInv'
<1>1. MainStep /\ Main \in Caller
  BY Threads DEF MainStep
<1>2. q' = q
  BY DEF TraceRaise, FinishMain, JoinMain, ExitMain, Interrupt, qvars, FinishSet,
         FinishSignal
<1>3. /\ pc'[Main] \in {"prog", "finish", "fin", "join", "exit"}
      /\ Settled' => Settled
      /\ pc'[Main] = "finish" => failing'
  <2>1. CASE TraceRaise(Main)
    <3>1. /\ failing' = TRUE
          /\ \E p \in {"finish", "exit"} : Goto(Main, p)
      BY <2>1 DEF TraceRaise, Raise
    <3> QED
      BY <1>1, <3>1, Gone DEF Settled
  <2>4. CASE Interrupt
    <3>1. /\ failing' = TRUE
          /\ \E p \in {"finish", "exit"} : Goto(Main, p)
      BY <2>4 DEF Interrupt
    <3> QED
      BY <1>1, <3>1, Gone DEF Settled
  <2>2. CASE FinishMain \/ ExitMain
    BY <1>1, <2>2, Gone DEF FinishMain, ExitMain, Settled
  <2>3. CASE JoinMain
    BY <1>1, <2>3, Gone DEF JoinMain, Settled
  <2> QED
    BY <2>1, <2>2, <2>3, <2>4
<1>4. Quiet'
  BY <1>1, <1>2, <1>3, MainOpens DEF PhaseInv, Quiet
<1> QED
  BY <1>3, <1>4
     DEF PhaseInv, Collected, Untouched, ToPush, Routed, Assigned, Outstanding,
         Returning, Rooted

-----------------------------------------------------------------------------
(* The invariant holds of every step.                                       *)

LEMMA OperatorInit ==
  ASSUME NoNesting, Init
  PROVE  OperatorInv
<1> USE DEF Init
<1>1. QueueInv
  BY TypeInit, FlatInit, StoredInit DEF QueueInv
<1>2. TP!TInit
  BY DEF T!TInit, TP!TInit, T!Ref, TP!Ref
<1>3. SearchInv
  BY <1>2, TP!TracerInit, TP!ReadyInit, TP!AccountedInit, OperatorAssumption,
     ThreadAssumption DEF SearchInv
<1>4. OperatorTypeOK
  <2>1. pc \in [Caller -> WorkerPlace \cup MainPlace]
    BY DEF WorkerPlace, MainPlace
  <2>2. outq \in [Caller -> Seq(Task)] /\ outOf \in [Task -> Caller \cup {NoThread}]
    OBVIOUS
  <2>3. k \in [Caller -> Nat \ {0}] /\ sub \in [Thread -> Nat \ {0}] /\ prog \in Nat \ {0}
    OBVIOUS
  <2>4. /\ failing \in BOOLEAN /\ pending \in BOOLEAN
        /\ failed \subseteq Worker /\ begun \in [Task -> Nat] /\ done \subseteq Task
    OBVIOUS
  <2> QED
    BY <2>1, <2>2, <2>3, <2>4 DEF OperatorTypeOK
<1>5. /\ pc[Main] = "prog" /\ \A t \in Thread : pc[t] = "pop"
  BY Threads DEF Thread
<1>6. where[Main] = "out" /\ invoked = {} /\ prereq \in [Task -> Seq(Task)]
  BY Threads, OperatorAssumption DEF T!TInit
<1>7. Control
  BY <1>5, <1>6, Threads DEF Control, Busy, Begun, WorkerPlace, MainPlace, InvokePlace
<1>8. \A j \in Task : ~Queued(j) /\ ~Held(j) /\ ~Open(j)
  <2>1. /\ \A h \in Host : q[h] = <<>>
        /\ \A j \in Task : begun[j] = 0
    BY DEF QInit, EmptyLists
  <2> HIDE DEF Init
  <2>2. ASSUME NEW j \in Task, NEW h \in Host, NEW i \in 1..Len(q[h]) PROVE FALSE
    <3>1. q[h] = <<>> /\ Len(<<>>) = 0
      BY <2>1
    <3> QED
      BY <3>1
  <2>3. \A j \in Task : ~Held(j)
    BY <1>5, Threads DEF Held
  <2>4. \A j \in Task : ~(begun[j] > 0)
    <3> SUFFICES ASSUME NEW j \in Task PROVE ~(begun[j] > 0)
      OBVIOUS
    <3>1. begun[j] = 0
      BY <2>1
    <3> QED
      BY <3>1
  <2> QED
    BY <2>2, <2>3, <2>4 DEF Open, Queued, In
<1>9. Life
  BY <1>5, <1>6, <1>8, Threads DEF Life, Busy, Begun
<1>10. PhaseInv
  BY <1>5, <1>8 DEF PhaseInv, Quiet, Collected, Untouched, ToPush, Routed, Assigned,
                    Outstanding, Returning, Rooted
<1> QED
  BY <1>1, <1>3, <1>4, <1>7, <1>9, <1>10 DEF OperatorInv

\* What the parts of the invariant about Operator's own variables are of a step
\* that changes nothing.
LEMMA OperatorStutter ==
  ASSUME OperatorTypeOK, Control, Life, PhaseInv, UNCHANGED vars
  PROVE  OperatorTypeOK' /\ Control' /\ Life' /\ PhaseInv'
<1> USE DEF vars, qvars, tvars, ovars
<1>1. OperatorTypeOK'
  BY DEF OperatorTypeOK
<1>2. Control'
  BY DEF Control, Busy, Begun
<1>3. /\ \A x : /\ Queued(x)' <=> Queued(x)
                /\ Held(x)' <=> Held(x)
                /\ Open(x)' <=> Open(x)
                /\ Before(x)' <=> Before(x)
      /\ Batch(Main)' = Batch(Main)
  BY DEF Queued, Held, Open, Before, Status, Batch
<1>4. Life'
  BY <1>3 DEF Life, Busy, Begun
<1>5. PhaseInv'
  <2>1. Quiet' /\ Collected' /\ Untouched'
    BY <1>3 DEF PhaseInv, Quiet, Settled, Collected, Untouched, ToPush
  <2>2. Routed' /\ Outstanding'
    BY <1>3 DEF PhaseInv, Routed, Assigned, Outstanding, Pushed
  <2>3. Returning' /\ Rooted'
    BY <1>3 DEF PhaseInv, Returning, DoneOf, Counted, Rooted, RootOf, TP!RootSought
  <2> QED
    BY <2>1, <2>2, <2>3 DEF PhaseInv
<1> QED
  BY <1>1, <1>2, <1>4, <1>5

LEMMA OperatorStep ==
  ASSUME NoNesting, OperatorInv, [Next]_vars
  PROVE  OperatorInv'
<1> USE DEF OperatorInv
<1>1. UNCHANGED vars \/ MainStep \/ \E t \in Worker : WorkerStep(t)
  BY FlatSteps DEF QueueInv
<1>2. SearchInv'
  BY <1>1, TracerUse, SearchInvStep
<1>3. QueueInv'
  BY <1>1, QueueUse, QueueInvStep DEF PhaseInv
<1>4. CASE UNCHANGED vars
  BY <1>2, <1>3, <1>4, OperatorStutter
<1>5. CASE MainStep
  <2>1. OperatorTypeOK' /\ Control' /\ Life'
    BY <1>5, TypesOfMainStep, ControlOfMainStep, LifeOfMainStep
  <2>2. PhaseInv'
    BY <1>5, PhaseOfInvoke, PhaseOfTrace, PhaseOfReturn, PhaseOfAssign, PhaseOfPush,
       PhaseOfAwait, PhaseOfAwaitEnd, PhaseOfEnding DEF MainStep
  <2> QED
    BY <1>2, <1>3, <2>1, <2>2
<1>6. ASSUME NEW t \in Worker, WorkerStep(t) PROVE OperatorInv'
  <2>1. OperatorTypeOK' /\ Control'
    BY <1>6, TypesOfWorkerStep, ControlOfWorkerStep DEF QueueInv
  <2>2. Life'
    BY <1>6, LifeOfWorkerStep
  <2>3. PhaseInv'
    BY <1>6, PhaseOfWorkerStep
  <2> QED
    BY <1>2, <1>3, <2>1, <2>2, <2>3
<1> QED
  BY <1>1, <1>4, <1>5, <1>6

(* The state of the threads, of the queue and of the tracer fit together at  *)
(* every moment of a run without nested workers, whatever fails: a task is   *)
(* queued only when it is fetched and all it needs is completed, one worker  *)
(* has it, what main waits for is what it pushed and has not come back, and  *)
(* nothing is open while main searches (Operator#invoke, thread_loop).       *)
THEOREM OperatorInvariant ==
  ASSUME NoNesting
  PROVE  Spec => []OperatorInv
<1>1. Init => OperatorInv
  BY OperatorInit
<1>2. OperatorInv /\ [Next]_vars => OperatorInv'
  BY OperatorStep
<1> QED
  BY <1>1, <1>2, PTL DEF Spec

-----------------------------------------------------------------------------
(* Workflow.                                                                *)

\* The status of all tasks, which Workflow calls st.
St == [j \in Task |-> Status(j)]

\* A step of one task, the others being left alone.
LEMMA OneStatus ==
  ASSUME NEW j \in Task, NEW s, Status(j)' = s,
         \A i \in Task \ {j} : Status(i)' = Status(i)
  PROVE  St' = [St EXCEPT ![j] = s]
BY DEF St

\* A worker marks a task and begins its action.
LEMMA Starts ==
  ASSUME OperatorInv, NEW t \in Worker, StartTask(t)
  PROVE  W!Start(got[t])
<1> USE DEF OperatorInv
<1>1. pc[t] = "start" /\ got[t] \in Task
  BY DEF StartTask, Control, Busy
<1>2. PICK j \in Task : j = got[t]
  BY <1>1
<1>3. Held(j)
  BY <1>1, <1>2 DEF Held
<1>4. j \notin invoked /\ Before(j) /\ begun[j] = 0 /\ j \notin done
  BY <1>2, <1>3 DEF Life
<1>5. /\ begun' = [begun EXCEPT ![j] = @ + 1] /\ done' = done
      /\ invoked' = invoked \cup {j} /\ prereq' = prereq
      /\ begun \in [Task -> Nat]
  BY <1>2 DEF StartTask, T!MarkInvoked, OperatorTypeOK
<1>6. Status(j) = "idle" /\ Status(j)' = "running"
  BY <1>2, <1>4, <1>5 DEF Status
<1>7. \A i \in Task \ {j} : Status(i)' = Status(i)
  BY <1>5 DEF Status
<1>8. St' = [St EXCEPT ![j] = "running"]
  BY <1>2, <1>6, <1>7, OneStatus
<1>9. \A i \in 1..Len(prereq[j]) : prereq[j][i] \in Task
  BY <1>2 DEF SearchInv, TP!TracerInv, TP!TracerTypeOK
<1>10. W!Ready(j)
  BY <1>4, <1>9 DEF W!Ready, Before
<1> QED
  BY <1>2, <1>5, <1>6, <1>8, <1>10 DEF W!Start, St

\* The action of a task is over.
LEMMA Finishes ==
  ASSUME OperatorInv, NEW t \in Worker, EndTask(t)
  PROVE  W!Finish(got[t])
<1> USE DEF OperatorInv
<1>1. Begun(t) /\ got[t] \in Task
  BY DEF EndTask, Control, Busy, Begun
<1>2. PICK j \in Task : j = got[t]
  BY <1>1
<1>3. begun[j] = 1 /\ j \notin done
  BY <1>1, <1>2 DEF Life
<1>4. /\ done' = done \cup {j} /\ UNCHANGED <<begun, invoked, prereq>>
  BY <1>2 DEF EndTask, tvars
<1>5. Status(j) = "running" /\ Status(j)' = "done"
  BY <1>3, <1>4 DEF Status
<1>6. \A i \in Task \ {j} : Status(i)' = Status(i)
  BY <1>4 DEF Status
<1>7. St' = [St EXCEPT ![j] = "done"]
  BY <1>2, <1>5, <1>6, OneStatus
<1> QED
  BY <1>2, <1>4, <1>5, <1>7 DEF W!Finish, St

\* find_task marks a task that needs not run.  Nothing runs meanwhile.
LEMMA Omits ==
  ASSUME OperatorInv, Trace(Main), TP!Skip(Main)
  PROVE  W!Omit(TP!Top.task)
<1> USE DEF OperatorInv
<1>1. TP!Visited(Main) /\ TP!Top.all
  BY DEF TP!Skip
<1>2. TP!Top.task \in Task /\ TP!Top.task \notin fetched
      /\ TP!Elements(prereq[TP!Top.task]) \subseteq invoked
  BY <1>1, TP!FirstTime, Threads, OperatorAssumption, ThreadAssumption DEF SearchInv
<1>3. PICK j \in Task : j = TP!Top.task
  BY <1>2
<1>4. /\ j \in Optional /\ j \notin fetched /\ TP!Elements(prereq[j]) \subseteq invoked
      /\ invoked' = invoked \cup {j} /\ prereq' = prereq
  BY <1>2, <1>3 DEF TP!Skip
<1>5. UNCHANGED <<begun, done>> /\ pc[Main] = "trace"
  BY DEF Trace, ovars
<1>6. j \notin invoked /\ begun[j] = 0 /\ j \notin done
  BY <1>4 DEF Life
<1>7. Status(j) = "idle" /\ Status(j)' = "done"
  BY <1>4, <1>5, <1>6 DEF Status
<1>8. \A i \in Task \ {j} : Status(i)' = Status(i)
  BY <1>4, <1>5 DEF Status
<1>9. St' = [St EXCEPT ![j] = "done"]
  BY <1>3, <1>7, <1>8, OneStatus
<1>10. \A i \in 1..Len(prereq[j]) : prereq[j][i] \in Task /\ prereq[j][i] \in invoked
  BY <1>4 DEF SearchInv, TP!TracerInv, TP!TracerTypeOK, TP!Elements
<1>11. \A i \in 1..Len(prereq[j]) : Status(prereq[j][i]) = "done"
  BY <1>5, <1>10, SettledDone DEF Settled, PhaseInv
<1>12. W!Ready(j)
  BY <1>10, <1>11 DEF W!Ready
<1> QED
  BY <1>3, <1>4, <1>7, <1>9, <1>12 DEF W!Omit, St

\* The other steps are not steps of a task.
LEMMA Rests ==
  ASSUME OperatorInv, UNCHANGED <<begun, done, invoked, prereq>>
  PROVE  UNCHANGED <<prereq, St>>
BY DEF St, Status

LEMMA WorkflowStep ==
  ASSUME NoNesting, OperatorInv, [Next]_vars
  PROVE  [W!Next]_<<prereq, St>>
<1> USE DEF OperatorInv
<1>1. UNCHANGED vars \/ MainStep \/ \E t \in Worker : WorkerStep(t)
  BY FlatSteps DEF QueueInv
<1>2. CASE UNCHANGED vars
  BY <1>2, Rests DEF vars, tvars, ovars
<1>3. CASE MainStep
  <2>1. UNCHANGED <<begun, done, prereq>>
    BY <1>3, MainFrame
  <2>2. CASE invoked' = invoked
    BY <2>1, <2>2, Rests
  <2>3. CASE invoked' # invoked
    <3>1. Trace(Main) /\ T!Search(Main)
      BY <1>3, <2>3
         DEF MainStep, InvokeMain, Trace, TraceRaise, TraceReturn, Assign, Push, Await,
             AwaitEnd, FinishMain, JoinMain, ExitMain, Interrupt, tvars,
             T!ClearFootprint, T!ClearFetched, T!Enter, T!VisitCircular, T!Return, T!Abort
    <3>2. TP!Search(Main)
      BY <3>1, TracerActions, Threads
    <3>3. TP!Skip(Main)
      BY <2>3, <3>2 DEF TP!Search, TP!VisitInvoked, TP!VisitTraced, TP!VisitNew,
                        TP!Postpone, TP!Fetch
    <3>4. TP!Top.task \in Task
      BY <3>3, TP!FirstTime, Threads, OperatorAssumption, ThreadAssumption
         DEF SearchInv, TP!Skip
    <3> QED
      BY <3>1, <3>3, <3>4, Omits DEF W!Next
  <2> QED
    BY <2>2, <2>3
<1>4. ASSUME NEW t \in Worker, WorkerStep(t) PROVE [W!Next]_<<prereq, St>>
  <2>1. CASE StartTask(t)
    <3>1. got[t] \in Task
      BY <2>1 DEF StartTask, Control, Busy
    <3> QED
      BY <2>1, <3>1, Starts DEF W!Next
  <2>2. CASE EndTask(t)
    <3>1. got[t] \in Task
      BY <2>2 DEF EndTask, Control, Busy, Begun
    <3> QED
      BY <2>2, <3>1, Finishes DEF W!Next
  <2>3. CASE PopTask(t) \/ FailTask(t) \/ StopWorker(t)
    BY <2>3, Rests DEF PopTask, FailTask, StopWorker, tvars
  <2> QED
    BY <1>4, <2>1, <2>2, <2>3 DEF WorkerStep
<1> QED
  BY <1>1, <1>2, <1>3, <1>4

(* The threads, the queue and the tracer together implement Workflow, for   *)
(* any graph of tasks, any number of workers and hosts, and whatever fails: *)
(* no action begins before the actions of all its prerequisites are over,   *)
(* though already_invoked is set before an action runs (thread_loop), and   *)
(* none is run twice.                                                       *)
THEOREM ImplementsWorkflow ==
  ASSUME NoNesting
  PROVE  Spec => WorkflowSpec
<1>1. Init => W!Init
  BY DEF Init, T!TInit, W!Init, Status
<1>2. OperatorInv /\ [Next]_vars => [W!Next]_<<prereq, St>>
  BY WorkflowStep
<1>3. <<prereq, St>> = <<prereq, [j \in Task |-> Status(j)]>>
  BY DEF St
<1> QED
  BY <1>1, <1>2, <1>3, OperatorInvariant, PTL DEF Spec, WorkflowSpec, W!Spec, St

-----------------------------------------------------------------------------
(* What invoke returns.                                                     *)

\* A closed set that holds j holds all that j depends on.
LEMMA ReachableIn ==
  ASSUME NEW j \in Task, NEW S \in SUBSET Task, j \in S,
         \A i \in S : T!Elements(prereq[i]) \subseteq S
  PROVE  T!Reachable(j) \subseteq S
BY DEF T!Reachable

(* InvokeComplete: when Operator#invoke returns nil to invoke_task of the    *)
(* command line, and no exception is on its way, the target and everything  *)
(* it depends on is completed; a failed task never passes for a done one.   *)
THEOREM InvokeIsComplete ==
  ASSUME NoNesting
  PROVE  Spec => []InvokeComplete
<1>1. OperatorInv => InvokeComplete
  <2> SUFFICES ASSUME OperatorInv PROVE InvokeComplete
    OBVIOUS
  <2> USE DEF OperatorInv
  <2>1. ASSUME NEW t \in Thread, pc[t] = "end" PROVE FALSE
    BY <2>1 DEF Control, WorkerPlace, Thread
  <2>2. ASSUME pc[Main] = "finish", ~failing, NEW j \in T!Reachable(RootOf(Main))
        PROVE  Status(j) = "done"
    <3>1. RootOf(Main) \in Task /\ RootOf(Main) \in invoked
      BY <2>2, RootIsTask DEF PhaseInv, Rooted
    <3>2. invoked \in SUBSET Task
      BY DEF SearchInv, TP!TracerInv, TP!TracerTypeOK
    <3>3. \A i \in invoked : T!Elements(prereq[i]) \subseteq invoked
      BY <3>2 DEF Life, SearchInv, TP!ReadyWhenFetched, TP!Elements, T!Elements
    <3>4. j \in invoked /\ j \in Task
      BY <2>2, <3>1, <3>2, <3>3, ReachableIn
    <3> QED
      BY <2>2, <3>4, SettledDone DEF Settled, PhaseInv
  <2> QED
    BY <2>1, <2>2 DEF InvokeComplete
<1> QED
  BY <1>1, OperatorInvariant, PTL

(* OutputInBatch: the check in the loop of Operator#invoke never raises its *)
(* exception.                                                               *)
THEOREM OutputIsInBatch ==
  ASSUME NoNesting
  PROVE  Spec => []OutputInBatch
<1>1. OperatorInv => OutputInBatch
  <2> SUFFICES ASSUME OperatorInv, NEW v \in Caller, pc[v] = "await", outq[v] # <<>>
               PROVE  In(Head(outq[v]), Batch(v))
    BY DEF OutputInBatch
  <2> USE DEF OperatorInv
  <2>1. v = Main
    BY DEF Control, WorkerPlace, Caller, Thread
  <2>2. outq[Main] \in Seq(Task)
    BY Threads DEF OperatorTypeOK
  <2>3. 1 \in 1..Len(outq[Main]) /\ Head(outq[Main]) = outq[Main][1]
    BY <2>1, <2>2
  <2> QED
    BY <2>1, <2>3 DEF PhaseInv, Returning
<1> QED
  BY <1>1, OperatorInvariant, PTL

-----------------------------------------------------------------------------
(* The queue.                                                               *)

\* Nothing fails: no worker stops, and nothing is raised in main.
Unfailing == ~pending /\ \A t \in Worker : pc[t] # "stop"

LEMMA UnfailingStep ==
  ASSUME NoNesting, CanFail = {}, OperatorInv, Unfailing, [Next]_vars
  PROVE  Unfailing' /\ [QNext]_qvars
<1> USE DEF OperatorInv
<1>1. UNCHANGED vars \/ MainStep \/ \E t \in Worker : WorkerStep(t)
  BY FlatSteps DEF QueueInv
<1>2. ~Interrupt
  BY DEF Interrupt, Unfailing
<1>3. [QNext]_qvars
  BY <1>1, <1>2, QueueUse DEF PhaseInv
<1>4. CASE UNCHANGED vars
  BY <1>4 DEF Unfailing, vars, ovars
<1>5. CASE MainStep
  <2>1. pending' = pending
    BY <1>2, <1>5
       DEF MainStep, InvokeMain, Trace, TraceRaise, TraceReturn, Assign, Push, Await,
           AwaitEnd, FinishMain, JoinMain, ExitMain, ovars
  <2>2. \A t \in Worker : pc'[t] = pc[t]
    BY <1>5, MainFrame, Threads
  <2> QED
    BY <1>3, <2>1, <2>2 DEF Unfailing
<1>6. ASSUME NEW t \in Worker, WorkerStep(t) PROVE Unfailing'
  <2>1. ~FailTask(t) /\ ~StopWorker(t)
    BY DEF FailTask, StopWorker, Unfailing
  <2>2. pending' = pending /\ \E p \in {"pop", "start", "body", "dead"} : Goto(t, p)
    BY <1>6, <2>1 DEF WorkerStep, PopTask, StartTask, EndTask
  <2>3. \A u \in Worker : pc'[u] \in {"pop", "start", "body", "dead", pc[u]}
    BY <2>2, Gone, Threads
  <2> QED
    BY <2>2, <2>3 DEF Unfailing
<1> QED
  BY <1>1, <1>3, <1>4, <1>5, <1>6

(* QueueSpec: while no task fails the Operator uses the queue as TaskQueue   *)
(* assumes of its client: it never pushes a task that is in a list already, *)
(* push and finish are called by main and pop by workers only.              *)
THEOREM QueueIsUsedWell ==
  ASSUME NoNesting, CanFail = {}
  PROVE  Spec => QueueSpec
<1>1. Init => QInit /\ Unfailing
  BY Threads DEF Init, Unfailing
<1>2. OperatorInv /\ Unfailing /\ [Next]_vars => Unfailing' /\ [QNext]_qvars
  BY UnfailingStep
<1> QED
  BY <1>1, <1>2, OperatorInvariant, PTL DEF Spec, QueueSpec, QSpec

\* What keeps tasks from being forgotten; a SystemExit is on its way to main only
\* after a worker has stopped the queue.
Waking == EndedLast /\ NotAllAsleep /\ IdleInv /\ (pending => finished)

LEMMA FinishedKept ==
  ASSUME UNCHANGED vars \/ MainStep \/ \E t \in Worker : WorkerStep(t),
         pending => finished
  PROVE  /\ finished => finished'
         /\ pending' => finished'
<1>1. CASE UNCHANGED vars
  BY <1>1 DEF vars, qvars, ovars
<1>2. CASE MainStep
  <2>1. (finished => finished') /\ (pending' => pending)
    BY <1>2
       DEF MainStep, InvokeMain, Trace, TraceRaise, TraceReturn, Assign, Push, Await,
           AwaitEnd, FinishMain, JoinMain, ExitMain, Interrupt, qvars, ovars,
           PushEnter, PushTask, PushLeave, FinishSet, FinishSignal
  <2> QED
    BY <2>1
<1>3. ASSUME NEW t \in Worker, WorkerStep(t)
      PROVE  (finished => finished') /\ (pending' => finished')
  <2>1. CASE StopWorker(t)
    BY <2>1 DEF StopWorker, Stop
  <2>2. CASE PopTask(t)
    BY <2>2 DEF PopTask, Pop, PopEnter, PopTest, PopFinished, PopReturn, PopSkip,
                PopEmpty, PopWait
  <2>3. CASE StartTask(t) \/ EndTask(t) \/ FailTask(t)
    BY <2>3 DEF StartTask, EndTask, FailTask, qvars
  <2> QED
    BY <1>3, <2>1, <2>2, <2>3 DEF WorkerStep
<1> QED
  BY <1>1, <1>2, <1>3

LEMMA WakingStep ==
  ASSUME NoNesting, OperatorInv, Waking, [Next]_vars
  PROVE  Waking'
<1>1. UNCHANGED vars \/ MainStep \/ \E t \in Worker : WorkerStep(t)
  BY FlatSteps DEF OperatorInv, QueueInv
<1>2. [QNext]_qvars \/ Interrupt
  BY <1>1, QueueUse DEF OperatorInv, PhaseInv
<1>3. (finished => finished') /\ (pending' => finished')
  BY <1>1, FinishedKept DEF Waking
<1>4. CASE [QNext]_qvars
  BY <1>3, <1>4, EndedLastStep, NotAllAsleepStep, IdleStep
     DEF Waking, OperatorInv, QueueInv
<1>5. CASE Interrupt
  <2>1. /\ finished' /\ q' = q
        /\ at' = [at EXCEPT ![Main] = "out"]
    BY <1>3, <1>5 DEF Interrupt, Waking
  <2>2. \A t \in Worker : at'[t] = at[t]
    BY <2>1, Threads DEF OperatorInv, QueueInv, TypeOK
  <2>3. EndedLast' /\ NotAllAsleep'
    BY <2>1, <2>2, <1>5 DEF Waking, EndedLast, NotAllAsleep, Interrupt
  <2>4. IdleInv'
    BY <2>1, <2>2 DEF Waking, IdleInv, IsEmpty
  <2> QED
    BY <1>3, <2>3, <2>4 DEF Waking
<1> QED
  BY <1>2, <1>4, <1>5

(* The signals of the queue lose no task in a run of pwrake either, whatever *)
(* fails: while a task is queued and nothing has stopped the queue, the     *)
(* workers never all sleep on @cv; and with SimpleQueue none sleeps at all  *)
(* unless another one is about to look (TaskQueue#push, #pop).              *)
THEOREM NoTaskForgotten ==
  ASSUME NoNesting
  PROVE  Spec => [](NotAllAsleep /\ NoIdleWorker)
<1>1. Init => Waking
  BY WakingInit DEF Init, Waking
<1>2. OperatorInv /\ Waking /\ [Next]_vars => Waking'
  BY WakingStep
<1>3. Waking => NotAllAsleep /\ NoIdleWorker
  BY IdleEnough DEF Waking
<1> QED
  BY <1>1, <1>2, <1>3, OperatorInvariant, PTL DEF Spec

(* HandedOutOnce, whatever fails: a task that pop hands to a worker is in no *)
(* list of a host any more, even if an exception cuts a push of main short.  *)
THEOREM PoppedOnce ==
  ASSUME NoNesting
  PROVE  Spec => HandedOutOnce
<1>1. OperatorInv /\ [Next]_vars =>
        [\A t \in Worker : got'[t] \notin {got[t], None} =>
           ~\E h \in Host : In(got'[t], q'[h])]_qvars
  <2> SUFFICES ASSUME OperatorInv, [Next]_vars
               PROVE  [\A t \in Worker : got'[t] \notin {got[t], None} =>
                         ~\E h \in Host : In(got'[t], q'[h])]_qvars
    OBVIOUS
  <2>1. [QNext]_qvars \/ Interrupt
    BY FlatSteps, QueueUse DEF OperatorInv, QueueInv, PhaseInv
  <2>2. CASE [QNext]_qvars
    BY <2>2, StoredStep DEF OperatorInv, QueueInv
  <2>3. CASE Interrupt
    BY <2>3 DEF Interrupt
  <2> QED
    BY <2>1, <2>2, <2>3
<1> QED
  BY <1>1, OperatorInvariant, PTL DEF Spec, HandedOutOnce
=============================================================================
