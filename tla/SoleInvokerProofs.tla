------------------------- MODULE SoleInvokerProofs --------------------------
(***************************************************************************)
(* What available_task answers a single invoker is right, on every graph:  *)
(* the invariant that relates the frames of find_task to what it has       *)
(* fetched, and to what the root depends on.                               *)
(***************************************************************************)
EXTENDS MCTracer, TracerProofs

-----------------------------------------------------------------------------
(* What a task depends on.                                                  *)

LEMMA ReachesItself ==
  ASSUME NEW j \in Task
  PROVE  j \in Reachable(j)
BY DEF Reachable

LEMMA ReachesOn ==
  ASSUME prereq \in [Task -> Seq(Task)], NEW j, NEW i \in Reachable(j),
         NEW m \in Elements(prereq[i])
  PROVE  m \in Reachable(j)
<1>1. i \in Task
  BY DEF Reachable
<1>2. m \in Task
  BY <1>1 DEF Elements
<1> QED
  BY <1>2 DEF Reachable

LEMMA ReachesWithin ==
  ASSUME NEW S \in SUBSET Task, NEW j \in S, \A i \in S : Elements(prereq[i]) \subseteq S
  PROVE  Reachable(j) \subseteq S
BY DEF Reachable

\* A task is on no cycle if all it depends on is invoked and it is not.
LEMMA NotOnCycle ==
  ASSUME NEW S \in SUBSET Task, \A i \in S : Elements(prereq[i]) \subseteq S,
         NEW j, Elements(prereq[j]) \subseteq S, j \notin S
  PROVE  ~OnCycle(j)
BY ReachesWithin DEF OnCycle

-----------------------------------------------------------------------------
(* The invariant.                                                           *)

\* The frames are a descent from the root.
Descent(s) ==
  /\ Elements(s[1].todo) \subseteq {Root}
  /\ \A i \in 2..Len(s) : /\ s[i].task \in Reachable(Root)
                          /\ Elements(s[i].todo) \subseteq Elements(prereq[s[i].task])
  /\ \A i, m \in 2..Len(s) : i <= m => s[m].task \in Reachable(s[i].task)

\* A call that does not return nil, or a frame that has met one, has a reason:
\* some task was fetched.
Reason == array[current] # <<>>

Reasons(s) == \A i \in 1..Len(s) : s[i].all \/ Reason

\* While the invoker searches.  The tasks in footprint whose calls are over are
\* invoked, or there is a reason why not.
InSearchInv ==
  /\ fetched \ invoked \subseteq Elements(array[current])
  /\ Elements(array[current]) \subseteq fetched
  /\ footprint \subseteq invoked \cup Chain \/ Reason
  /\ Reasons(stack) /\ Descent(stack) /\ RootSought(Root)

\* Between two searches: what was fetched is in the batch, or invoked.
OutsideInv ==
  /\ ret[Invoker] = "none"   => fetched \subseteq invoked
  /\ ret[Invoker] = "tasks"  => /\ fetched \ invoked \subseteq Batch /\ Batch \subseteq fetched
                                /\ array[batch[Invoker]] # <<>>
  /\ ret[Invoker] = "raised" => \E j \in Reachable(Root) : OnCycle(j)
  /\ ret[Invoker] = "nil"    => Root \in invoked

SoleInv ==
  /\ invoked \subseteq fetched
  /\ \A j \in invoked : ~OnCycle(j)
  /\ where[Invoker] # "out" => ret[Invoker] = "none"
  /\ where[Invoker] \in {"clear", "ready"} => footprint = {} /\ fetched \subseteq invoked
  /\ where[Invoker] = "ready" => array[current] = <<>>
  /\ where[Invoker] = "search" => InSearchInv
  /\ where[Invoker] = "out" => OutsideInv

LEMMA SoleInit == TInit => SoleInv
BY InvokerAssumption DEF TInit, SoleInv, OutsideInv

\* The invoker is a thread of Tracer.
LEMMA SoleSteps == TracerInv /\ [TNext]_tvars => [TracerNext]_tvars
<1> SUFFICES ASSUME TracerInv, TNext PROVE TracerNext
  OBVIOUS
<1>1. Execute => \E j \in Task : MarkInvoked(j)
  <2>1. Batch \subseteq Task
    BY InvokerAssumption DEF Batch, Elements, TracerInv, TracerTypeOK
  <2> QED
    BY <2>1 DEF Execute
<1> QED
  BY <1>1, InvokerAssumption DEF TNext, TracerNext, Call

\* The tasks that are invoked, with all they depend on.
LEMMA InvokedClosed ==
  ASSUME TracerInv, ReadyWhenFetched, SoleInv
  PROVE  invoked \in SUBSET Task /\ \A i \in invoked : Elements(prereq[i]) \subseteq invoked
BY DEF ReadyWhenFetched, SoleInv, TracerInv, TracerTypeOK

\* The answer follows.
LEMMA SoleAnswer ==
  ASSUME TracerInv, ReadyWhenFetched, SoleInv
  PROVE  AnswerIsRight
<1>1. \A i : ret[Invoker] = i /\ i \in {"tasks", "raised", "nil"} => OutsideInv
  BY InvokerAssumption DEF SoleInv, TracerInv, TracerTypeOK
<1>2. ret[Invoker] = "nil" => Reachable(Root) \subseteq invoked
  BY <1>1, InvokedClosed, ReachesWithin DEF OutsideInv
<1> QED
  BY <1>1, <1>2 DEF AnswerIsRight, OutsideInv, SoleInv

-----------------------------------------------------------------------------
(* The stack.                                                               *)

Tasks(s) == {s[i].task : i \in 1..Len(s)}

LEMMA TailWithin ==
  ASSUME NEW s \in Seq(Task), s # <<>>
  PROVE  Elements(Tail(s)) \subseteq Elements(s) /\ Head(s) \in Elements(s)
<1>1. \A i \in 1..Len(Tail(s)) : i + 1 \in 1..Len(s) /\ Tail(s)[i] = s[i + 1]
  OBVIOUS
<1>2. 1 \in 1..Len(s) /\ Head(s) = s[1]
  OBVIOUS
<1> QED
  BY <1>1, <1>2 DEF Elements

LEMMA ReturnKeepsDescent ==
  ASSUME NEW s \in Seq(Frame), s # <<>>, s[Len(s)].todo # <<>>, NEW nil \in BOOLEAN,
         Descent(s)
  PROVE  Descent(Returned(s, nil)) /\ Tasks(Returned(s, nil)) = Tasks(s)
<1> DEFINE r == Returned(s, nil)
           l == Len(s)
<1>1. /\ Len(r) = l
      /\ \A i \in 1..l : i # l => r[i] = s[i]
      /\ r[l].task = s[l].task /\ r[l].todo = Tail(s[l].todo)
      /\ r[l].all <=> s[l].all /\ nil
  BY ReturnedProperties
<1>2. l \in Nat /\ l >= 1 /\ s[l].todo \in Seq(Task)
  <2>1. l \in Nat /\ l >= 1 /\ s[l] \in Frame
    OBVIOUS
  <2> QED BY <2>1 DEF Frame
<1>d. /\ Elements(s[1].todo) \subseteq {Root}
      /\ \A i \in 2..l : /\ s[i].task \in Reachable(Root)
                         /\ Elements(s[i].todo) \subseteq Elements(prereq[s[i].task])
      /\ \A i, m \in 2..l : i <= m => s[m].task \in Reachable(s[i].task)
  BY DEF Descent
<1>3. Elements(Tail(s[l].todo)) \subseteq Elements(s[l].todo)
  BY <1>2, TailWithin
<1> HIDE DEF r, l
<1>4. \A i \in 1..l : /\ r[i].task = s[i].task
                      /\ Elements(r[i].todo) \subseteq Elements(s[i].todo)
  BY <1>1, <1>3
<1>5. Descent(r)
  <2>1. 1 \in 1..l /\ \A i \in 2..l : i \in 1..l
    BY <1>2
  <2>2. Elements(r[1].todo) \subseteq {Root}
    BY <1>4, <1>d, <2>1
  <2>3. \A i \in 2..l : /\ r[i].task \in Reachable(Root)
                        /\ Elements(r[i].todo) \subseteq Elements(prereq[r[i].task])
    BY <1>4, <1>d, <2>1
  <2>4. \A i, m \in 2..l : i <= m => r[m].task \in Reachable(r[i].task)
    BY <1>4, <1>d, <2>1
  <2> QED BY <1>1, <2>2, <2>3, <2>4 DEF Descent
<1>6. Tasks(r) = Tasks(s)
  BY <1>1, <1>4 DEF Tasks, l
<1> QED
  BY <1>5, <1>6 DEF r

LEMMA CallKeepsDescent ==
  ASSUME TracerTypeOK, NEW s \in Seq(Frame), s # <<>>, Descent(s), Reasons(s),
         s[Len(s)].todo # <<>>, NEW j \in Task, j = Head(s[Len(s)].todo)
  PROVE  LET r == Append(s, [task |-> j, todo |-> prereq[j], all |-> TRUE])
         IN  Descent(r) /\ Reasons(r) /\ Tasks(r) = Tasks(s) \cup {j}
<1> DEFINE f == [task |-> j, todo |-> prereq[j], all |-> TRUE]
           r == Append(s, f)
           l == Len(s)
<1>1. f \in Frame /\ f.task = j /\ f.todo = prereq[j] /\ f.all
  BY DEF Frame, TracerTypeOK
<1> HIDE DEF f
<1>2. /\ r \in Seq(Frame) /\ Len(r) = l + 1 /\ r[l + 1] = f
      /\ \A i \in 1..l : r[i] = s[i]
      /\ l \in Nat /\ l >= 1 /\ s[l].todo \in Seq(Task)
  <2>1. l \in Nat /\ l >= 1 /\ s[l] \in Frame
    OBVIOUS
  <2>2. s[l].todo \in Seq(Task)
    BY <2>1 DEF Frame
  <2>3. /\ r \in Seq(Frame) /\ Len(r) = l + 1 /\ r[l + 1] = f
        /\ \A i \in 1..l : r[i] = s[i]
    BY <1>1
  <2> QED BY <2>1, <2>2, <2>3
<1>d. /\ Elements(s[1].todo) \subseteq {Root}
      /\ \A i \in 2..l : /\ s[i].task \in Reachable(Root)
                         /\ Elements(s[i].todo) \subseteq Elements(prereq[s[i].task])
      /\ \A i, m \in 2..l : i <= m => s[m].task \in Reachable(s[i].task)
  BY DEF Descent
<1>3. j \in Elements(s[l].todo)
  BY <1>2, TailWithin
<1> HIDE DEF r, l
<1>4. prereq \in [Task -> Seq(Task)]
  BY DEF TracerTypeOK
<1>5. \A i \in 2..l : s[l].task \in Reachable(s[i].task) /\ j \in Elements(prereq[s[l].task])
  <2> TAKE i \in 2..l
  <2>1. l \in 2..l /\ i <= l
    BY <1>2
  <2> QED BY <1>3, <1>d, <2>1
<1>6. \A i \in 2..l : j \in Reachable(s[i].task)
  BY <1>4, <1>5, ReachesOn
<1>7. j \in Reachable(Root)
  <2>1. CASE l = 1
    <3>1. j = Root
      BY <1>3, <1>d, <2>1
    <3> QED BY <3>1, ReachesItself
  <2>2. CASE l # 1
    <3>1. l \in 2..l
      BY <1>2, <2>2
    <3>2. s[l].task \in Reachable(Root)
      BY <1>d, <3>1
    <3> QED BY <1>4, <1>5, <3>1, <3>2, ReachesOn
  <2> QED BY <2>1, <2>2
<1>8. j \in Reachable(j)
  BY ReachesItself
<1>9. \A i \in 1..Len(r) : i \in 1..l \/ i = l + 1
  BY <1>2
<1>10. Descent(r)
  <2>1. Elements(r[1].todo) \subseteq {Root}
    <3>1. 1 \in 1..l
      BY <1>2
    <3> QED BY <1>2, <1>d, <3>1
  <2>2. \A i \in 2..Len(r) : /\ r[i].task \in Reachable(Root)
                             /\ Elements(r[i].todo) \subseteq Elements(prereq[r[i].task])
    <3> TAKE i \in 2..Len(r)
    <3>1. CASE i = l + 1
      BY <1>1, <1>2, <1>7, <3>1
    <3>2. CASE i # l + 1
      <4>1. i \in 2..l /\ i \in 1..l
        BY <1>2, <3>2
      <4> QED BY <1>2, <1>d, <4>1
    <3> QED BY <3>1, <3>2
  <2>3. ASSUME NEW i \in 2..Len(r), NEW m \in 2..Len(r), i <= m
        PROVE  r[m].task \in Reachable(r[i].task)
    <3>1. CASE m = l + 1 /\ i = l + 1
      BY <1>1, <1>2, <1>8, <3>1
    <3>2. CASE m = l + 1 /\ i # l + 1
      <4>1. i \in 2..l /\ i \in 1..l
        BY <1>2, <3>2
      <4> QED BY <1>1, <1>2, <1>6, <3>2, <4>1
    <3>3. CASE m # l + 1
      <4>1. i \in 2..l /\ m \in 2..l /\ i \in 1..l /\ m \in 1..l
        BY <1>2, <2>3, <3>3
      <4> QED BY <1>2, <1>d, <2>3, <4>1
    <3> QED BY <3>1, <3>2, <3>3
  <2> QED BY <2>1, <2>2, <2>3 DEF Descent
<1>11. Reasons(r)
  BY <1>1, <1>2, <1>9 DEF Reasons, l
<1>12. Tasks(r) = Tasks(s) \cup {j}
  <2>1. Tasks(r) \subseteq Tasks(s) \cup {j}
    BY <1>1, <1>2, <1>9 DEF Tasks, l
  <2>2. \A i \in 1..l : i \in 1..Len(r) /\ r[i] = s[i]
    BY <1>2
  <2>3. l + 1 \in 1..Len(r) /\ r[l + 1].task = j
    BY <1>1, <1>2
  <2> QED BY <2>1, <2>2, <2>3 DEF Tasks, l
<1> QED
  BY <1>10, <1>11, <1>12 DEF r, f

LEMMA CaughtKeepsDescent ==
  ASSUME TracerInv, NEW v \in Caller, Visited(v), Descent(stack), Reasons(stack)
  PROVE  Descent(Caught) /\ Reasons(Caught) /\ Chain \subseteq Tasks(Caught) \cup {Top.task}
<1>1. Len(stack) > 1 /\ stack \in Seq(Frame) /\ Len(stack) \in Nat
  BY InSearch DEF Visited
<1>2. Len(Caught) = Len(stack) - 1 /\ \A i \in 1..(Len(stack) - 1) : Caught[i] = stack[i]
  BY <1>1, CaughtProperties
<1> DEFINE c == Caught
<1>3. /\ Len(c) = Len(stack) - 1 /\ \A i \in 1..Len(c) : i \in 1..Len(stack) /\ c[i] = stack[i]
      /\ \A i \in 2..Len(c) : i \in 2..Len(stack) /\ i \in 1..Len(c)
      /\ 1 \in 1..Len(c) /\ \A i \in 1..Len(stack) : i \in 1..Len(c) \/ i = Len(stack)
  BY <1>1, <1>2
<1> HIDE DEF c
<1>4. Descent(c)
  BY <1>3 DEF Descent
<1>5. Reasons(c)
  BY <1>3 DEF Reasons
<1>6. Chain \subseteq Tasks(c) \cup {Top.task}
  BY <1>3 DEF Chain, Tasks, Top
<1> QED
  BY <1>4, <1>5, <1>6 DEF c

-----------------------------------------------------------------------------
(* The steps of a search.                                                   *)

LEMMA SameGraph ==
  ASSUME prereq' = prereq
  PROVE  /\ \A j : Reachable(j)' = Reachable(j)
         /\ \A j : OnCycle(j)' <=> OnCycle(j)
<1>1. \A j : Reachable(j)' = Reachable(j)
  BY DEF Reachable, Elements
<1> QED
  BY <1>1 DEF OnCycle, Elements

\* What has to be shown of a step.
LEMMA InSearchAfter ==
  ASSUME SoleInv, where[Invoker] = "search",
         prereq' = prereq, where' = where, ret' = ret, NEW r, stack' = r, Descent(r),
         \A i \in 1..Len(r) : r[i].all \/ Reason',
         (fetched \ invoked)' \subseteq Elements(array[current])',
         Elements(array[current])' \subseteq fetched',
         footprint' \subseteq invoked' \cup Tasks(r) \/ Reason',
         RootSought(Root)', invoked' \subseteq fetched', \A j \in invoked' : ~OnCycle(j)
  PROVE  SoleInv'
<1>1. /\ \A j : Reachable(j)' = Reachable(j)
      /\ \A j : OnCycle(j)' <=> OnCycle(j)
  BY SameGraph
<1>2. Descent(stack)'
  BY <1>1 DEF Descent
<1>3. Reasons(stack)'
  BY DEF Reasons
<1>4. Chain' = Tasks(r)
  BY DEF Chain, Tasks
<1>5. InSearchInv'
  BY <1>2, <1>3, <1>4 DEF InSearchInv
<1> QED
  BY <1>1, <1>5 DEF SoleInv

\* Where find_task returns, though not nil, there is a reason.
LEMMA Returns ==
  ASSUME TracerInv, SoleInv, where[Invoker] = "search", InSearchInv, NEW nil \in BOOLEAN,
         NEW s \in Seq(Frame), s # <<>>, s[Len(s)].todo # <<>>, Descent(s), Reasons(s),
         footprint \subseteq invoked \cup Tasks(s) \/ Reason \/ footprint \subseteq invoked' \cup Tasks(s),
         prereq' = prereq, where' = where, ret' = ret, current' = current, footprint' = footprint,
         invoked \subseteq invoked', invoked' \subseteq fetched', fetched \subseteq fetched',
         \A j \in invoked' : ~OnCycle(j), stack' = Returned(s, nil), RootSought(Root)',
         (fetched \ invoked)' \subseteq Elements(array[current])',
         Elements(array[current])' \subseteq fetched',
         Reason => Reason', nil \/ Reason'
  PROVE  SoleInv'
<1> DEFINE r == Returned(s, nil)
           l == Len(s)
<1>1. /\ Len(r) = l
      /\ \A i \in 1..l : i # l => r[i] = s[i]
      /\ r[l].all <=> s[l].all /\ nil
  BY ReturnedProperties
<1>2. Descent(r) /\ Tasks(r) = Tasks(s)
  BY ReturnKeepsDescent
<1>3. \A i \in 1..Len(r) : r[i].all \/ Reason'
  BY <1>1 DEF Reasons
<1>4. footprint' \subseteq invoked' \cup Tasks(r) \/ Reason'
  BY <1>2
<1> HIDE DEF r
<1>5. stack' = r
  BY DEF r
<1> QED
  BY <1>2, <1>3, <1>4, <1>5, InSearchAfter

LEMMA SearchKeeps ==
  ASSUME TracerInv, ReadyWhenFetched, SoleInv, Search(Invoker)
  PROVE  SoleInv'
<1> DEFINE v == Invoker
<1>0. v \in Caller /\ Root \in Task
  BY InvokerAssumption
<1>1. where[v] = "search"
  BY DEF Search, VisitInvoked, VisitTraced, VisitNew, Calling, Postpone, Fetch, Skip, Visited
<1>2. InSearchInv
  BY <1>1 DEF SoleInv
<1>3. RootSought(Root)'
  BY <1>0, <1>1, <1>2, RootKept DEF InSearchInv
<1>4. /\ stack \in Seq(Frame) /\ stack # <<>> /\ Len(stack) \in 1..Len(stack)
      /\ Descent(stack) /\ Reasons(stack) /\ Chain = Tasks(stack)
  BY <1>0, <1>1, <1>2, InSearch DEF InSearchInv, Chain, Tasks
<1>5. invoked \subseteq fetched /\ \A j \in invoked : ~OnCycle(j)
  BY DEF SoleInv
<1>6. array \in [Ref -> Seq(Task)] /\ current \in Ref
  BY DEF TracerInv, TracerTypeOK
<1>7. fetched \ invoked # {} => Reason
  BY <1>2, <1>6 DEF InSearchInv, Reason, Elements
<1>8. ASSUME NEW j \in Task, VisitInvoked(v, j) PROVE SoleInv'
  <2>1. /\ stack[Len(stack)].todo # <<>> /\ stack' = Returned(stack, TRUE)
        /\ UNCHANGED <<prereq, invoked, fetched, footprint, current, array, where, ret>>
    BY <1>8 DEF VisitInvoked, Calling, Top
  <2>2. footprint \subseteq invoked \cup Tasks(stack) \/ Reason
    BY <1>2, <1>4 DEF InSearchInv
  <2> QED
    BY <1>1, <1>2, <1>3, <1>4, <1>5, <2>1, <2>2, Returns DEF InSearchInv, Reason
<1>9. ASSUME NEW j \in Task, VisitTraced(v, j) PROVE SoleInv'
  <2>1. /\ stack[Len(stack)].todo # <<>> /\ stack' = Returned(stack, FALSE)
        /\ UNCHANGED <<prereq, invoked, fetched, footprint, current, array, where, ret>>
        /\ j \notin invoked \cup Chain /\ j \in footprint \cup fetched
    BY <1>9 DEF VisitTraced, Calling, Top
  <2>2. Reason
    BY <1>2, <1>7, <2>1 DEF InSearchInv
  <2> QED
    BY <1>1, <1>2, <1>3, <1>4, <1>5, <2>1, <2>2, Returns DEF InSearchInv, Reason
<1>10. ASSUME NEW j \in Task, VisitNew(v, j) PROVE SoleInv'
  <2> DEFINE r == Append(stack, [task |-> j, todo |-> prereq[j], all |-> TRUE])
  <2>1. /\ stack[Len(stack)].todo # <<>> /\ j = Head(stack[Len(stack)].todo)
        /\ stack' = r /\ footprint' = footprint \cup {j}
        /\ UNCHANGED <<prereq, invoked, fetched, current, array, where, ret>>
    BY <1>10 DEF VisitNew, Calling, Top
  <2>2. Descent(r) /\ Reasons(r) /\ Tasks(r) = Tasks(stack) \cup {j}
    BY <1>4, <2>1, CallKeepsDescent DEF TracerInv
  <2>3. footprint' \subseteq invoked' \cup Tasks(r) \/ Reason'
    BY <1>2, <1>4, <2>1, <2>2 DEF InSearchInv, Reason
  <2> HIDE DEF r
  <2>4. \A i \in 1..Len(r) : r[i].all \/ Reason'
    BY <2>1, <2>2 DEF Reasons, Reason
  <2> QED
    BY <1>1, <1>2, <1>3, <1>5, <2>1, <2>2, <2>3, <2>4, InSearchAfter DEF InSearchInv
<1> DEFINE c == Caught
<1>11. ASSUME Visited(v)
       PROVE  /\ c \in Seq(Frame) /\ c # <<>> /\ c[Len(c)].todo # <<>> /\ Descent(c) /\ Reasons(c)
              /\ Chain \subseteq Tasks(c) \cup {Top.task} /\ Top.task \in Task
  BY <1>0, <1>4, <1>11, CaughtPath, CaughtKeepsDescent
<1> HIDE DEF c
<1>12. ASSUME Postpone(v) PROVE SoleInv'
  <2>1. /\ Visited(v) /\ ~Top.all /\ stack' = Returned(c, FALSE)
        /\ UNCHANGED <<prereq, invoked, fetched, footprint, current, array, where, ret>>
    BY <1>12 DEF Postpone, c
  <2>2. Reason
    BY <1>4, <2>1 DEF Reasons, Top
  <2> QED
    BY <1>1, <1>2, <1>3, <1>5, <1>11, <2>1, <2>2, Returns DEF InSearchInv, Reason
<1>13. ASSUME Fetch(v) PROVE SoleInv'
  <2>1. /\ Visited(v) /\ Top.all /\ stack' = Returned(c, FALSE)
        /\ fetched' = fetched \cup {Top.task}
        /\ array' = [array EXCEPT ![current] = Append(@, Top.task)]
        /\ UNCHANGED <<prereq, invoked, footprint, current, where, ret>>
    BY <1>13 DEF Fetch, c
  <2> DEFINE a == array[current]
             t == Top.task
             b == Append(a, t)
  <2>2. array'[current'] = b /\ a \in Seq(Task) /\ t \in Task
    BY <1>6, <1>11, <2>1
  <2>3. b # <<>> /\ Elements(b) = Elements(a) \cup {t}
    <3> HIDE DEF a, t
    <3>1. /\ Len(b) = Len(a) + 1 /\ b[Len(a) + 1] = t /\ \A i \in 1..Len(a) : b[i] = a[i]
          /\ Len(a) \in Nat
      BY <2>2
    <3> HIDE DEF b
    <3>2. \A i \in 1..Len(b) : i \in 1..Len(a) \/ i = Len(a) + 1
      BY <3>1
    <3>3. Len(a) + 1 \in 1..Len(b) /\ \A i \in 1..Len(a) : i \in 1..Len(b)
      BY <3>1
    <3>4. b # <<>>
      BY <3>1
    <3> QED
      BY <3>1, <3>2, <3>3, <3>4 DEF Elements
  <2> HIDE DEF b
  <2>4. Reason'
    BY <2>2, <2>3 DEF Reason
  <2>5. /\ (fetched \ invoked)' \subseteq Elements(array[current])'
        /\ Elements(array[current])' \subseteq fetched'
    BY <1>2, <2>1, <2>2, <2>3 DEF InSearchInv
  <2> DEFINE r == Returned(c, FALSE)
  <2>6. Descent(r)
    BY <1>11, <2>1, ReturnKeepsDescent
  <2> HIDE DEF r
  <2>7. stack' = r
    BY <2>1 DEF r
  <2>8. \A i \in 1..Len(r) : r[i].all \/ Reason'
    BY <2>4
  <2>9. invoked' \subseteq fetched' /\ \A j \in invoked' : ~OnCycle(j)
    BY <1>5, <2>1
  <2>10. footprint' \subseteq invoked' \cup Tasks(r) \/ Reason'
    BY <2>4
  <2> QED
    BY <1>1, <1>3, <2>1, <2>5, <2>6, <2>7, <2>8, <2>9, <2>10, InSearchAfter
<1>14. ASSUME Skip(v) PROVE SoleInv'
  <2>1. /\ Visited(v) /\ Top.all /\ stack' = Returned(c, TRUE)
        /\ fetched' = fetched \cup {Top.task} /\ invoked' = invoked \cup {Top.task}
        /\ UNCHANGED <<prereq, array, footprint, current, where, ret>>
    BY <1>14 DEF Skip, c
  <2>2. Elements(prereq[Top.task]) \subseteq invoked
    BY <1>0, <2>1, TaskReady
  <2>3. Top.task \in invoked \/ ~OnCycle(Top.task)
    BY <2>2, InvokedClosed, NotOnCycle
  <2>4. invoked' \subseteq fetched' /\ \A j \in invoked' : ~OnCycle(j)
    BY <1>5, <2>1, <2>3
  <2>5. Reason => Reason'
    BY <2>1 DEF Reason
  <2>6. \/ footprint \subseteq invoked \cup Tasks(c) \/ Reason
        \/ footprint \subseteq invoked' \cup Tasks(c)
    BY <1>2, <1>11, <2>1 DEF InSearchInv
  <2>7. /\ (fetched \ invoked)' \subseteq Elements(array[current])'
        /\ Elements(array[current])' \subseteq fetched'
    BY <1>2, <2>1 DEF InSearchInv
  <2>8. fetched \subseteq fetched' /\ invoked \subseteq invoked' /\ current' = current
    BY <2>1
  <2> QED
    BY <1>1, <1>2, <1>3, <1>11, <2>1, <2>4, <2>5, <2>6, <2>7, <2>8, Returns
<1> QED
  BY <1>8, <1>9, <1>10, <1>12, <1>13, <1>14 DEF Search

-----------------------------------------------------------------------------
(* The other steps of the invoker.                                          *)

\* It reports a circular dependency: the frames from the one of j on are the cycle.
LEMMA CircularIsRight ==
  ASSUME TracerInv, SoleInv, NEW j \in Task, VisitCircular(Invoker, j)
  PROVE  \E m \in Reachable(Root) : OnCycle(m)
<1>1. /\ where[Invoker] = "search" /\ Top.todo # <<>> /\ j = Head(Top.todo) /\ j \in Chain
  BY DEF VisitCircular, Calling
<1> DEFINE l == Len(stack)
<1>2. /\ stack \in Seq(Frame) /\ l \in Nat /\ l >= 1 /\ Top \in Frame /\ Path(stack, invoked)
      /\ prereq \in [Task -> Seq(Task)] /\ Descent(stack)
  BY <1>1, InvokerAssumption, InSearch DEF SoleInv, InSearchInv, TracerInv, TracerTypeOK
<1>3. PICK i \in 1..l : j = stack[i].task
  BY <1>1 DEF Chain
<1>4. i \in 2..l
  BY <1>2, <1>3, InvokerAssumption DEF Path
<1>5. /\ l \in 2..l /\ Elements(Top.todo) \subseteq Elements(prereq[Top.task])
      /\ Top.task \in Reachable(j) /\ j \in Reachable(Root)
  <2>1. l \in 2..l /\ i <= l /\ Top = stack[l]
    BY <1>2, <1>4 DEF Top
  <2> QED
    BY <1>2, <1>3, <1>4, <2>1 DEF Descent
<1>6. j \in Elements(prereq[Top.task])
  <2>1. Top.todo \in Seq(Task)
    BY <1>2 DEF Frame
  <2> QED
    BY <1>1, <1>5, <2>1, TailWithin
<1>7. OnCycle(j)
  <2>1. CASE i = l
    <3>1. Top.task = j
      BY <1>3, <2>1 DEF Top
    <3> QED
      BY <1>6, <3>1, ReachesItself DEF OnCycle
  <2>2. CASE i # l
    <3> DEFINE m == stack[i + 1].task
    <3>1. i \in 1..(l - 1) /\ i + 1 \in 2..l /\ i + 1 <= l
      BY <1>2, <1>4, <2>2
    <3>2. stack[i].todo # <<>> /\ Head(stack[i].todo) = m /\ stack[i].todo \in Seq(Task)
      <4>1. stack[i] \in Frame
        BY <1>2, <1>3
      <4> QED
        BY <1>2, <3>1, <4>1 DEF Path, Frame
    <3>3. m \in Elements(stack[i].todo)
      BY <3>2, TailWithin
    <3>4. m \in Elements(prereq[j])
      BY <1>2, <1>3, <1>4, <3>3 DEF Descent
    <3>5. Top.task \in Reachable(m)
      BY <1>2, <1>5, <3>1 DEF Descent, Top
    <3>6. j \in Reachable(m)
      BY <1>2, <1>6, <3>5, ReachesOn
    <3> QED
      BY <3>4, <3>6 DEF OnCycle
  <2> QED BY <2>1, <2>2
<1> QED
  BY <1>5, <1>7

LEMMA SoleStep ==
  TracerInv /\ ReadyWhenFetched /\ SoleInv /\ [TNext]_tvars => SoleInv'
<1> SUFFICES ASSUME TracerInv, ReadyWhenFetched, SoleInv, [TNext]_tvars
             PROVE  SoleInv'
  OBVIOUS
<1> DEFINE v == Invoker
<1>0. v \in Caller /\ Root \in Task /\ TracerTypeOK
  BY InvokerAssumption DEF TracerInv
<1>1. CASE Call
  <2>1. /\ where[v] = "out" /\ footprint' = {} /\ ret' = [ret EXCEPT ![v] = "none"]
        /\ where' = [where EXCEPT ![v] = "clear"]
        /\ UNCHANGED <<prereq, invoked, fetched>>
        /\ ret[v] = "none" \/ (ret[v] = "tasks" /\ Batch \subseteq invoked)
    BY <1>1 DEF Call, ClearFootprint
  <2>2. fetched \subseteq invoked
    BY <2>1 DEF SoleInv, OutsideInv
  <2>3. where'[v] = "clear" /\ ret'[v] = "none"
    BY <1>0, <2>1 DEF TracerTypeOK
  <2> QED
    BY <2>1, <2>2, <2>3, SameGraph DEF SoleInv
<1>2. CASE ClearFetched(v)
  <2>1. PICK r \in Ref : current' = r /\ array' = [array EXCEPT ![r] = <<>>]
    BY <1>2 DEF ClearFetched
  <2>2. /\ where[v] = "clear" /\ where'[v] = "ready"
        /\ UNCHANGED <<prereq, invoked, fetched, footprint, ret>>
    BY <1>0, <1>2 DEF ClearFetched, TracerTypeOK
  <2>3. array'[current'] = <<>>
    BY <1>0, <2>1 DEF TracerTypeOK
  <2> QED
    BY <2>2, <2>3, SameGraph DEF SoleInv
<1>3. CASE Enter(v, Root)
  <2> DEFINE f == [task |-> NoTask, todo |-> <<Root>>, all |-> TRUE]
             r == <<f>>
  <2>1. /\ where[v] = "ready" /\ stack' = r /\ where'[v] = "search"
        /\ UNCHANGED <<prereq, invoked, fetched, footprint, current, array, ret>>
    BY <1>0, <1>3 DEF Enter, TracerTypeOK
  <2>2. Len(r) = 1 /\ r[1] = f /\ f.all /\ f.todo = <<Root>>
    OBVIOUS
  <2> HIDE DEF r, f
  <2>3. Elements(f.todo) = {Root}
    <3>1. Elements(<<Root>>) = {Root}
      BY DEF Elements
    <3> QED
      BY <2>2, <3>1
  <2>4. Descent(stack)' /\ Reasons(stack)' /\ RootSought(Root)'
    <3>1. Elements(stack'[1].todo) = {Root} /\ Len(stack') = 1 /\ stack'[1].all
      BY <2>1, <2>2, <2>3
    <3> QED
      BY <3>1 DEF Descent, Reasons, RootSought
  <2>5. footprint = {} /\ fetched \subseteq invoked /\ array[current] = <<>>
    BY <2>1 DEF SoleInv
  <2>6. Elements(array[current]) = {}
    BY <2>5 DEF Elements
  <2>7. InSearchInv'
    BY <2>1, <2>4, <2>5, <2>6 DEF InSearchInv
  <2> QED
    BY <2>1, <2>7, SameGraph DEF SoleInv
<1>4. CASE Search(v)
  BY <1>4, SearchKeeps
<1>5. ASSUME NEW j \in Task, VisitCircular(v, j) PROVE SoleInv'
  <2>1. /\ where'[v] = "out" /\ ret'[v] = "raised"
        /\ UNCHANGED <<prereq, invoked, fetched>>
    BY <1>0, <1>5 DEF VisitCircular, Leave, TracerTypeOK
  <2>2. \E m \in Reachable(Root) : OnCycle(m)
    BY <1>5, CircularIsRight
  <2>3. OutsideInv'
    BY <2>1, <2>2, SameGraph DEF OutsideInv
  <2> QED
    BY <2>1, <2>3, SameGraph DEF SoleInv
<1>6. CASE Return(v)
  <2>1. /\ where[v] = "search" /\ Len(stack) = 1 /\ Top.todo = <<>>
        /\ where'[v] = "out" /\ ret'[v] = (IF Top.all THEN "nil" ELSE "tasks")
        /\ batch' = IF Top.all THEN batch ELSE [batch EXCEPT ![v] = current]
        /\ UNCHANGED <<prereq, invoked, fetched, current, array>>
    BY <1>0, <1>6 DEF Return, Leave, TracerTypeOK
  <2>2. InSearchInv
    BY <2>1 DEF SoleInv
  <2>3. CASE Top.all
    <3>1. Root \in invoked \cup Elements(Top.todo) /\ Elements(Top.todo) = {}
      BY <2>1, <2>2, <2>3 DEF InSearchInv, RootSought, Top, Elements
    <3> QED
      BY <2>1, <2>3, <3>1, SameGraph DEF SoleInv, OutsideInv
  <2>4. CASE ~Top.all
    <3>1. Reason
      BY <2>1, <2>2, <2>4 DEF InSearchInv, Reasons, Top
    <3>2. batch'[v] = current
      BY <1>0, <2>1, <2>4 DEF TracerTypeOK
    <3>3. Batch' = Elements(array[current])
      BY <2>1, <3>2 DEF Batch
    <3>4. OutsideInv'
      BY <2>1, <2>2, <2>4, <3>1, <3>2, <3>3 DEF OutsideInv, InSearchInv, Reason
    <3> QED
      BY <2>1, <3>4, SameGraph DEF SoleInv
  <2> QED BY <2>3, <2>4
<1>7. CASE Execute
  <2>1. PICK j \in Batch \ invoked : MarkInvoked(j)
    BY <1>7 DEF Execute
  <2>2. /\ where[v] = "out" /\ ret[v] = "tasks" /\ invoked' = invoked \cup {j}
        /\ UNCHANGED <<prereq, fetched, where, ret, array, batch>>
    BY <1>7, <2>1 DEF Execute, MarkInvoked
  <2>3. OutsideInv /\ Batch' = Batch
    BY <2>2 DEF SoleInv, Batch
  <2>4. j \in fetched
    BY <2>2, <2>3 DEF OutsideInv
  <2>5. ~OnCycle(j)
    BY <2>1, <2>4, InvokedClosed, NotOnCycle DEF ReadyWhenFetched
  <2>6. OutsideInv'
    BY <2>2, <2>3 DEF OutsideInv
  <2> QED
    BY <2>2, <2>4, <2>5, <2>6, SameGraph DEF SoleInv
<1>8. CASE UNCHANGED tvars
  <2> USE <1>8 DEF tvars
  <2>1. InSearchInv' <=> InSearchInv
    <3>1. Descent(stack)' <=> Descent(stack)
      BY SameGraph DEF Descent
    <3> QED
      BY <3>1 DEF InSearchInv, Reasons, Reason, RootSought, Chain
  <2>2. OutsideInv' <=> OutsideInv
    BY SameGraph DEF OutsideInv, Batch
  <2> QED
    BY <2>1, <2>2, SameGraph DEF SoleInv
<1> QED
  BY <1>1, <1>2, <1>3, <1>4, <1>5, <1>6, <1>7, <1>8 DEF TNext

-----------------------------------------------------------------------------
(* The theorems.                                                            *)

LEMMA SoleSpec == TSpec => TracerSpec
<1>1. TInit => TracerInv
  BY TracerInit
<1>2. TracerInv /\ [TNext]_tvars => [TracerNext]_tvars /\ TracerInv'
  BY SoleSteps, TracerStep
<1> QED
  BY <1>1, <1>2, PTL DEF TSpec, TracerSpec

(* What available_task answers a single invoker is right, on every graph of  *)
(* tasks: a batch is never empty, a circular dependency is reported only if  *)
(* there is one behind the root, and nil only when all the root depends on   *)
(* is invoked and there is none (Tracer#find_task, Operator#invoke).         *)
THEOREM InvokerIsAnswered == TSpec => []AnswerIsRight
<1>1. TracerInv <=> TracerTypeOK /\ Searching
  BY DEF TracerInv
<1>2. TSpec => [](TracerInv /\ ReadyWhenFetched)
  BY <1>1, SoleSpec, SearchInvariant, FetchedAreReady, PTL
<1>3. TInit => SoleInv
  BY SoleInit
<1>4. TracerInv /\ ReadyWhenFetched /\ SoleInv /\ [TNext]_tvars => SoleInv'
  BY SoleStep
<1>5. TSpec => []SoleInv
  BY <1>2, <1>3, <1>4, PTL DEF TSpec
<1>6. TracerInv /\ ReadyWhenFetched /\ SoleInv => AnswerIsRight
  BY SoleAnswer
<1> QED
  BY <1>2, <1>5, <1>6, PTL

(* The same for the runs of MCTracer, where a single invoker is one of two   *)
(* ways to use the tracer.                                                   *)
THEOREM SoleInvokerIsAnswered == Spec => []SoleAnswerIsRight
<1> DEFINE SInv == TracerInv /\ ReadyWhenFetched /\ (alone => SoleInv)
<1>1. Init => SInv
  BY SoleInit, TracerInit, ReadyInit DEF Init
<1>2. SInv /\ [Next]_<<alone, tvars>> => SInv'
  <2> SUFFICES ASSUME SInv, [Next]_<<alone, tvars>> PROVE SInv'
    OBVIOUS
  <2>1. [TracerNext]_tvars /\ alone' = alone
    BY SoleSteps DEF Next, RaceNext
  <2>2. TracerInv' /\ ReadyWhenFetched'
    BY <2>1, TracerStep, ReadyStep
  <2>3. alone => [TNext]_tvars
    BY DEF Next
  <2> QED
    BY <2>1, <2>2, <2>3, SoleStep
<1>3. SInv => SoleAnswerIsRight
  BY SoleAnswer DEF SoleAnswerIsRight
<1> QED
  BY <1>1, <1>2, <1>3, PTL DEF Spec
=============================================================================
