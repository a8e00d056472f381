------------------------------ MODULE Workflow ------------------------------
(***************************************************************************)
(* What pwrake promises: the tasks of a workflow run in the order of their *)
(* prerequisites, in parallel otherwise, each of them at most once.        *)
(***************************************************************************)
EXTENDS Naturals, Sequences

CONSTANTS Task,
          Graphs,     \* the functions prereq is drawn from
          Optional    \* tasks that may turn out not to be needed

VARIABLES prereq,     \* the prerequisites of each task
          st          \* "idle", "running" or "done"

Ready(j) == \A i \in 1..Len(prereq[j]) : st[prereq[j][i]] = "done"

Init == prereq \in Graphs /\ st = [j \in Task |-> "idle"]

\* A task whose action fails stays "running".
Start(j) ==
  /\ st[j] = "idle" /\ Ready(j)
  /\ st' = [st EXCEPT ![j] = "running"]
  /\ UNCHANGED prereq

Finish(j) ==
  /\ st[j] = "running"
  /\ st' = [st EXCEPT ![j] = "done"]
  /\ UNCHANGED prereq

\* The task is up to date.
Omit(j) ==
  /\ st[j] = "idle" /\ Ready(j) /\ j \in Optional
  /\ st' = [st EXCEPT ![j] = "done"]
  /\ UNCHANGED prereq

Next == \E j \in Task : Start(j) \/ Finish(j) \/ Omit(j)

Spec == Init /\ [][Next]_<<prereq, st>>
=============================================================================
