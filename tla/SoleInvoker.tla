----------------------------- MODULE SoleInvoker -----------------------------
(***************************************************************************)
(* The loop of Operator#invoke (algorithm.rb) around Tracer, for a single  *)
(* invoker and no other thread in the tracer: it runs all the tasks of a   *)
(* batch, in any order, before it asks for the next one.                   *)
(***************************************************************************)
EXTENDS Tracer

CONSTANTS Invoker,   \* the thread in invoke
          Root       \* the task it invokes

ASSUME InvokerAssumption == Invoker \in Caller /\ Root \in Task /\ NoTask \notin Task

Batch == Elements(array[batch[Invoker]])

Execute ==
  /\ where[Invoker] = "out"
  /\ ret[Invoker] = "tasks"
  /\ \E j \in Batch \ invoked : MarkInvoked(j)

Call ==
  /\ ret[Invoker] = "none" \/ (ret[Invoker] = "tasks" /\ Batch \subseteq invoked)
  /\ ClearFootprint(Invoker)

TNext ==
  \/ Call \/ ClearFetched(Invoker) \/ Enter(Invoker, Root)
  \/ Search(Invoker) \/ (\E j \in Task : VisitCircular(Invoker, j)) \/ Return(Invoker)
  \/ Execute

TSpec ==
  TInit /\ [][TNext]_tvars /\ WF_tvars(TNext)

-----------------------------------------------------------------------------
(* Properties.                                                              *)

OnCycle(j) == \E k \in Elements(prereq[j]) : j \in Reachable(k)

(* What available_task answers a single invoker is right: a batch is not    *)
(* empty, which would make the loop of Operator#invoke spin forever; it     *)
(* reports a circular dependency only if root depends on one; and it        *)
(* returns nil, which ends the loop, only when every task root depends on   *)
(* has been invoked and none is on a cycle.                                 *)
AnswerIsRight ==
  /\ ret[Invoker] = "tasks" => array[batch[Invoker]] # <<>>
  /\ ret[Invoker] = "raised" => \E j \in Reachable(Root) : OnCycle(j)
  /\ ret[Invoker] = "nil" => \A j \in Reachable(Root) : j \in invoked /\ ~OnCycle(j)

(* The loop of invoke comes to an end, on every graph: nil or an exception. *)
TraceEnds == <>(ret[Invoker] \in {"nil", "raised"})
=============================================================================
