------------------------------- MODULE Tracer -------------------------------
(***************************************************************************)
(* Tracer (algorithm.rb): available_task(root) searches the prerequisites  *)
(* of root, depth first, for the tasks that can run next.  The search runs *)
(* under @mutex, in small steps: workers set already_invoked meanwhile,    *)
(* and another invoker may replace @footprint and @fetched_tasks, which is *)
(* done BEFORE @mutex is taken.                                            *)
(*                                                                         *)
(* where[v] is where thread v is in available_task:                        *)
(*   "out"      not in it                                                  *)
(*   "clear"    @footprint is replaced, @fetched_tasks is not yet          *)
(*   "ready"    both are, and the thread waits for @mutex                  *)
(*   "search"   in find_task                                               *)
(*                                                                         *)
(* A call of find_task is a frame of stack: todo holds the prerequisites   *)
(* still to return from, all is all_invoked.  The bottom frame stands for  *)
(* available_task, with the root as its only prerequisite.                 *)
(***************************************************************************)
EXTENDS Naturals, Sequences

CONSTANTS Task,
          Caller,     \* the threads that may invoke
          NoThread,
          Graphs,     \* the functions prereq is drawn from
          Optional,   \* tasks whose needed? may be false
          MaxRef      \* arrays are 0..MaxRef; enough for all that are live

ASSUME TracerAssumption ==
  /\ NoThread \notin Caller
  /\ Graphs \subseteq [Task -> Seq(Task)]
  /\ Optional \subseteq Task
  /\ MaxRef \in Nat

VARIABLES prereq,     \* task.prerequisites
          invoked,    \* the tasks with already_invoked set
          fetched,    \* @fetched
          footprint,  \* @footprint
          current,    \* @fetched_tasks: the identity of an array
          array,      \* the contents of the arrays
          mutex,      \* @mutex
          stack,      \* the calls of find_task in progress
          where,      \* see above
          ret,        \* how available_task returned last to each thread:
                      \* "none" (not yet), "nil", "tasks", or "raised" when
                      \* find_task failed on a circular dependency
          batch       \* the array it returned if that is "tasks"

tvars == <<prereq, invoked, fetched, footprint, current, array, mutex, stack,
           where, ret, batch>>

Ref    == 0..MaxRef
NoTask == "available_task"

Frame == [task : Task \cup {NoTask}, todo : Seq(Task), all : BOOLEAN]

TracerTypeOK ==
  /\ prereq \in [Task -> Seq(Task)]
  /\ invoked \subseteq Task
  /\ fetched \subseteq Task
  /\ footprint \subseteq Task
  /\ current \in Ref
  /\ array \in [Ref -> Seq(Task)]
  /\ mutex \in Caller \cup {NoThread}
  /\ stack \in Seq(Frame)
  /\ where \in [Caller -> {"out", "clear", "ready", "search"}]
  /\ ret \in [Caller -> {"none", "nil", "tasks", "raised"}]
  /\ batch \in [Caller -> Ref]

Elements(s) == {s[i] : i \in 1..Len(s)}

TInit ==
  /\ prereq \in Graphs
  /\ invoked = {}
  /\ fetched = {}
  /\ footprint = {}
  /\ current = 0
  /\ array = [r \in Ref |-> <<>>]
  /\ mutex = NoThread
  /\ stack = <<>>
  /\ where = [v \in Caller |-> "out"]
  /\ ret = [v \in Caller |-> "none"]
  /\ batch = [v \in Caller |-> 0]

-----------------------------------------------------------------------------
(* available_task, up to the call of find_task                              *)

\* Mutant of ClearFootprint: the footprint of the last search is kept.
KeepFootprint(v) ==
  /\ where[v] = "out"
  /\ ret' = [ret EXCEPT ![v] = "none"]
  /\ where' = [where EXCEPT ![v] = "clear"]
  /\ UNCHANGED <<prereq, invoked, fetched, footprint, current, array, mutex,
                 stack, batch>>

\* @footprint = {}
ClearFootprint(v) ==
  /\ where[v] = "out"
  /\ footprint' = {}
  /\ ret' = [ret EXCEPT ![v] = "none"]
  /\ where' = [where EXCEPT ![v] = "clear"]
  /\ UNCHANGED <<prereq, invoked, fetched, current, array, mutex, stack,
                 batch>>

\* An identity that no variable holds: a new array.
Fresh(r) == r # current /\ \A u \in Caller : ret[u] = "tasks" => batch[u] # r

\* @fetched_tasks = []
ClearFetched(v) ==
  /\ where[v] = "clear"
  /\ \E r \in Ref :
       /\ Fresh(r)
       /\ \A s \in Ref : s < r => ~Fresh(s)
       /\ current' = r
       /\ array' = [array EXCEPT ![r] = <<>>]
  /\ where' = [where EXCEPT ![v] = "ready"]
  /\ UNCHANGED <<prereq, invoked, fetched, footprint, mutex, stack, ret, batch>>

Enter(v, root) ==
  /\ where[v] = "ready"
  /\ mutex = NoThread
  /\ mutex' = v
  /\ stack' = <<[task |-> NoTask, todo |-> <<root>>, all |-> TRUE]>>
  /\ where' = [where EXCEPT ![v] = "search"]
  /\ UNCHANGED <<prereq, invoked, fetched, footprint, current, array, ret, batch>>

-----------------------------------------------------------------------------
(* find_task                                                                *)

Top   == stack[Len(stack)]
Chain == {stack[i].task : i \in 1..Len(stack)}

\* The stack s when a call returns to the frame at its top: nil says that the
\* call returned nil.
Returned(s, nil) ==
  LET f == s[Len(s)]
  IN  [s EXCEPT ![Len(s)] =
         [task |-> f.task, todo |-> Tail(f.todo), all |-> f.all /\ nil]]

\* The thread is about to call find_task for j.
Calling(v, j) ==
  /\ where[v] = "search"
  /\ Top.todo # <<>>
  /\ j = Head(Top.todo)

VisitInvoked(v, j) ==
  /\ Calling(v, j)
  /\ j \in invoked
  /\ stack' = Returned(stack, TRUE)
  /\ UNCHANGED <<prereq, invoked, fetched, footprint, current, array, mutex,
                 where, ret, batch>>

\* Releases @mutex and leaves available_task, result r.
Leave(v, r) ==
  /\ mutex' = NoThread
  /\ stack' = <<>>
  /\ where' = [where EXCEPT ![v] = "out"]
  /\ ret' = [ret EXCEPT ![v] = r]

\* "Circular dependency detected"
VisitCircular(v, j) ==
  /\ Calling(v, j)
  /\ j \notin invoked
  /\ j \in Chain
  /\ Leave(v, "raised")
  /\ UNCHANGED <<prereq, invoked, fetched, footprint, current, array, batch>>

\* Mutant of VisitTraced: it returns nil.
VisitTracedNil(v, j) ==
  /\ Calling(v, j)
  /\ j \notin invoked \cup Chain
  /\ j \in footprint \cup fetched
  /\ stack' = Returned(stack, TRUE)
  /\ UNCHANGED <<prereq, invoked, fetched, footprint, current, array, mutex,
                 where, ret, batch>>

VisitTraced(v, j) ==
  /\ Calling(v, j)
  /\ j \notin invoked \cup Chain
  /\ j \in footprint \cup fetched
  /\ stack' = Returned(stack, FALSE)
  /\ UNCHANGED <<prereq, invoked, fetched, footprint, current, array, mutex,
                 where, ret, batch>>

VisitNew(v, j) ==
  /\ Calling(v, j)
  /\ j \notin invoked \cup Chain \cup footprint \cup fetched
  /\ footprint' = footprint \cup {j}
  /\ stack' = Append(stack, [task |-> j, todo |-> prereq[j], all |-> TRUE])
  /\ UNCHANGED <<prereq, invoked, fetched, current, array, mutex, where, ret, batch>>

\* All the prerequisites of the task at the top are visited.
Visited(v) ==
  /\ where[v] = "search"
  /\ Len(stack) > 1
  /\ Top.todo = <<>>

Caught == SubSeq(stack, 1, Len(stack) - 1)

\* Mutant of Postpone: it returns nil.
PostponeNil(v) ==
  /\ Visited(v)
  /\ ~Top.all
  /\ stack' = Returned(Caught, TRUE)
  /\ UNCHANGED <<prereq, invoked, fetched, footprint, current, array, mutex,
                 where, ret, batch>>

\* It is not its turn yet.
Postpone(v) ==
  /\ Visited(v)
  /\ ~Top.all
  /\ stack' = Returned(Caught, FALSE)
  /\ UNCHANGED <<prereq, invoked, fetched, footprint, current, array, mutex,
                 where, ret, batch>>

\* Mutant of Fetch: @fetched is not set.
FetchUnmarked(v) ==
  /\ Visited(v)
  /\ Top.all
  /\ array' = [array EXCEPT ![current] = Append(@, Top.task)]
  /\ stack' = Returned(Caught, FALSE)
  /\ UNCHANGED <<prereq, invoked, fetched, footprint, current, mutex, where, ret,
                 batch>>

\* It is, and needed? is true.
Fetch(v) ==
  /\ Visited(v)
  /\ Top.all
  /\ fetched' = fetched \cup {Top.task}
  /\ array' = [array EXCEPT ![current] = Append(@, Top.task)]
  /\ stack' = Returned(Caught, FALSE)
  /\ UNCHANGED <<prereq, invoked, footprint, current, mutex, where, ret, batch>>

\* It is, and needed? is false: nothing to run.
Skip(v) ==
  /\ Visited(v)
  /\ Top.all
  /\ Top.task \in Optional
  /\ fetched' = fetched \cup {Top.task}
  /\ invoked' = invoked \cup {Top.task}
  /\ stack' = Returned(Caught, TRUE)
  /\ UNCHANGED <<prereq, footprint, current, array, mutex, where, ret, batch>>

\* available_task returns: nil, or the array @fetched_tasks is NOW.
Return(v) ==
  /\ where[v] = "search"
  /\ Len(stack) = 1
  /\ Top.todo = <<>>
  /\ Leave(v, IF Top.all THEN "nil" ELSE "tasks")
  /\ batch' = IF Top.all THEN batch ELSE [batch EXCEPT ![v] = current]
  /\ UNCHANGED <<prereq, invoked, fetched, footprint, current, array>>

\* An exception raised in v from outside, by another thread.
Abort(v) ==
  /\ where' = [where EXCEPT ![v] = "out"]
  /\ IF mutex = v
       THEN mutex' = NoThread /\ stack' = <<>>
       ELSE UNCHANGED <<mutex, stack>>
  /\ UNCHANGED <<prereq, invoked, fetched, footprint, current, array, ret, batch>>

Search(v) ==
  \/ \E j \in Task : \/ VisitInvoked(v, j) \/ VisitTraced(v, j) \/ VisitNew(v, j)
  \/ Postpone(v) \/ Fetch(v) \/ Skip(v)

\* thread_loop marks a task before it executes it.
MarkInvoked(j) ==
  /\ invoked' = invoked \cup {j}
  /\ UNCHANGED <<prereq, fetched, footprint, current, array, mutex, stack,
                 where, ret, batch>>

-----------------------------------------------------------------------------
(* Any number of invokers, of any roots, while tasks are marked at any time. *)

TracerNext ==
  \/ \E v \in Caller :
       \/ ClearFootprint(v) \/ ClearFetched(v)
       \/ (\E root \in Task : Enter(v, root))
       \/ Search(v) \/ (\E j \in Task : VisitCircular(v, j)) \/ Return(v)
       \/ Abort(v)
  \/ \E j \in Task : MarkInvoked(j)

TracerSpec == TInit /\ [][TracerNext]_tvars

-----------------------------------------------------------------------------
\* The tasks that j depends on, itself included: the least set that holds j
\* and the prerequisites of its members.
Reachable(j) ==
  {k \in Task : \A S \in SUBSET Task :
     j \in S /\ (\A i \in S : Elements(prereq[i]) \subseteq S) => k \in S}

(* find_task hands out a task only when all its prerequisites have been     *)
(* invoked, whatever order the search reaches them in.                      *)
ReadyWhenFetched == \A j \in fetched : Elements(prereq[j]) \subseteq invoked

(* @fetched is consulted and set under @mutex: however invokers interleave, *)
(* and although they replace @footprint and @fetched_tasks under the feet   *)
(* of a search, no task is put into an array twice.                         *)
FetchedOnce ==
  \A r, s \in Ref : \A i \in 1..Len(array[r]), j \in 1..Len(array[s]) :
     array[r][i] = array[s][j] => r = s /\ i = j

\* The frames s are a path of prerequisites from the root, and a frame whose all
\* is still TRUE has only invoked tasks behind it.
Path(s, inv) ==
  /\ s # <<>> /\ s[1].task = NoTask
  /\ \A i \in 2..Len(s) : s[i].task \in Task
  /\ \A i \in 1..(Len(s) - 1) :
       s[i].todo # <<>> /\ Head(s[i].todo) = s[i + 1].task
  /\ \A i \in 2..Len(s) : s[i].all =>
       Elements(prereq[s[i].task]) \subseteq inv \cup Elements(s[i].todo)

(* The stack belongs to the thread that holds @mutex, and is such a path,   *)
(* whatever workers mark and other invokers replace while the search runs.  *)
Searching ==
  /\ \A v \in Caller : where[v] = "search" <=> mutex = v
  /\ IF mutex = NoThread THEN stack = <<>> ELSE Path(stack, invoked)
=============================================================================
