---------------------------- MODULE TracerProofs ----------------------------
(***************************************************************************)
(* Theorems about Tracer: for every graph, any number of threads in        *)
(* available_task at once, and tasks marked as invoked at any moment.      *)
(***************************************************************************)
EXTENDS Tracer, SequenceTheorems, TLAPS

-----------------------------------------------------------------------------
(* The operators on the stack.                                              *)

LEMMA ReturnedProperties ==
  ASSUME NEW s \in Seq(Frame), s # <<>>, s[Len(s)].todo # <<>>, NEW nil \in BOOLEAN
  PROVE  /\ Returned(s, nil) \in Seq(Frame)
         /\ Len(Returned(s, nil)) = Len(s)
         /\ \A i \in 1..Len(s) : i # Len(s) => Returned(s, nil)[i] = s[i]
         /\ Returned(s, nil)[Len(s)].task = s[Len(s)].task
         /\ Returned(s, nil)[Len(s)].todo = Tail(s[Len(s)].todo)
         /\ Returned(s, nil)[Len(s)].all <=> s[Len(s)].all /\ nil
<1> DEFINE f == s[Len(s)]
           g == [task |-> f.task, todo |-> Tail(f.todo), all |-> f.all /\ nil]
<1>1. Len(s) \in 1..Len(s) /\ f \in Frame
  OBVIOUS
<1>2. Tail(f.todo) \in Seq(Task)
  BY <1>1, HeadTailProperties DEF Frame
<1>3. g \in Frame
  BY <1>1, <1>2 DEF Frame
<1>4. g.task = f.task /\ g.todo = Tail(f.todo) /\ (g.all <=> f.all /\ nil)
  <2>1. g.task = f.task /\ g.todo = Tail(f.todo)
    BY <1>1 DEF Frame
  <2>2. g.all = (f.all /\ nil)
    BY <1>1, Zenon DEF Frame
  <2> QED
    BY <2>1, <2>2
<1>5. Returned(s, nil) = [s EXCEPT ![Len(s)] = g]
  BY DEF Returned
<1> HIDE DEF f, g
<1>6. /\ [s EXCEPT ![Len(s)] = g] \in Seq(Frame)
      /\ Len([s EXCEPT ![Len(s)] = g]) = Len(s)
      /\ \A i \in 1..Len(s) : [s EXCEPT ![Len(s)] = g][i] = IF i = Len(s) THEN g ELSE s[i]
  BY <1>1, <1>3, ExceptSeq
<1> QED
  BY <1>1, <1>4, <1>5, <1>6 DEF f

LEMMA CaughtProperties ==
  ASSUME stack \in Seq(Frame), Len(stack) > 1
  PROVE  /\ Caught \in Seq(Frame) /\ Caught # <<>> /\ Len(Caught) = Len(stack) - 1
         /\ \A i \in 1..(Len(stack) - 1) : Caught[i] = stack[i]
<1>1. \A i \in 1..(Len(stack) - 1) : stack[i] \in Frame
  OBVIOUS
<1>2. Len(stack) - 1 \in 1..Len(stack) /\ 1 \in 1..(Len(stack) + 1)
  OBVIOUS
<1>3. /\ Caught \in Seq(Frame) /\ Len(Caught) = Len(stack) - 1
      /\ \A i \in 1..(Len(stack) - 1) : Caught[i] = stack[1 + i - 1]
  BY <1>1, <1>2, SubSeqProperties DEF Caught
<1> QED
  BY <1>2, <1>3

LEMMA ElementsTail ==
  ASSUME NEW s \in Seq(Task), s # <<>>
  PROVE  Elements(s) \subseteq {Head(s)} \cup Elements(Tail(s))
<1> SUFFICES ASSUME NEW i \in 1..Len(s), i # 1 PROVE s[i] \in Elements(Tail(s))
  BY DEF Elements
<1>1. i - 1 \in 1..Len(Tail(s)) /\ Tail(s)[i - 1] = s[i]
  OBVIOUS
<1> QED
  BY <1>1 DEF Elements

-----------------------------------------------------------------------------
(* The inductive invariant and the steps of a search.                       *)

TracerInv == TracerTypeOK /\ Searching

\* The thread in find_task is the one that holds @mutex, and has a frame.
LEMMA InSearch ==
  ASSUME TracerInv, NEW v \in Caller, where[v] = "search"
  PROVE  /\ mutex = v /\ stack \in Seq(Frame) /\ stack # <<>>
         /\ Len(stack) \in 1..Len(stack) /\ Top \in Frame
         /\ Path(stack, invoked)
         /\ \A u \in Caller : u # v => where[u] # "search"
<1>1. mutex = v /\ stack \in Seq(Frame) /\ Path(stack, invoked)
  BY TracerAssumption DEF TracerInv, TracerTypeOK, Searching
<1>2. stack # <<>>
  BY <1>1 DEF Path
<1> QED
  BY <1>1, <1>2 DEF TracerInv, Searching, Top

\* A call returns to the top frame of the path s, which stays a path if nil is
\* only returned for an invoked task.
LEMMA ReturnKeepsPath ==
  ASSUME NEW s \in Seq(Frame), NEW inv, NEW more, Path(s, inv),
         s[Len(s)].todo # <<>>, NEW nil \in BOOLEAN, inv \subseteq more,
         nil => Head(s[Len(s)].todo) \in more
  PROVE  Returned(s, nil) \in Seq(Frame) /\ Path(Returned(s, nil), more)
<1> DEFINE r == Returned(s, nil)
           l == Len(s)
<1>0. s # <<>>
  BY DEF Path
<1>1. /\ r \in Seq(Frame) /\ Len(r) = l
      /\ \A i \in 1..l : i # l => r[i] = s[i]
      /\ r[l].task = s[l].task /\ r[l].todo = Tail(s[l].todo)
      /\ r[l].all => s[l].all /\ nil
  BY <1>0, ReturnedProperties
<1>2. l \in Nat /\ l >= 1 /\ s[l] \in Frame
  BY <1>0
<1>3. \A i \in 1..l : r[i].task = s[i].task
  BY <1>1
<1> HIDE DEF r
<1>4. r[1].task = NoTask /\ \A i \in 2..l : r[i].task \in Task
  BY <1>2, <1>3 DEF Path
<1>5. \A i \in 1..(l - 1) : r[i].todo # <<>> /\ Head(r[i].todo) = r[i + 1].task
  BY <1>1, <1>2, <1>3 DEF Path
<1>6. ASSUME NEW i \in 2..l, r[i].all
      PROVE  Elements(prereq[r[i].task]) \subseteq more \cup Elements(r[i].todo)
  <2>1. CASE i # l
    BY <1>1, <1>2, <1>6, <2>1 DEF Path
  <2>2. CASE i = l
    <3>1. Elements(prereq[s[l].task]) \subseteq inv \cup Elements(s[l].todo)
      BY <1>1, <1>2, <1>6, <2>2 DEF Path
    <3>2. s[l].todo \in Seq(Task)
      BY <1>2 DEF Frame
    <3>3. Elements(s[l].todo) \subseteq {Head(s[l].todo)} \cup Elements(r[l].todo)
      BY <1>1, <3>2, ElementsTail
    <3>4. Head(s[l].todo) \in more
      BY <1>1, <1>6, <2>2
    <3> QED
      BY <1>1, <2>2, <3>1, <3>3, <3>4
  <2> QED
    BY <2>1, <2>2
<1>7. r # <<>>
  BY <1>1, <1>2
<1> QED
  BY <1>1, <1>4, <1>5, <1>6, <1>7 DEF r, Path

LEMMA PathMonotone ==
  ASSUME NEW s, NEW inv, NEW more, inv \subseteq more, Path(s, inv)
  PROVE  Path(s, more)
BY DEF Path

\* A call begins: its frame goes on top.
LEMMA CallKeepsPath ==
  ASSUME TracerTypeOK, NEW s \in Seq(Frame), NEW inv, Path(s, inv),
         s[Len(s)].todo # <<>>, NEW j \in Task, j = Head(s[Len(s)].todo)
  PROVE  LET r == Append(s, [task |-> j, todo |-> prereq[j], all |-> TRUE])
         IN  r \in Seq(Frame) /\ Path(r, inv)
<1> DEFINE f == [task |-> j, todo |-> prereq[j], all |-> TRUE]
           r == Append(s, f)
<1>1. f \in Frame
  BY DEF Frame, TracerTypeOK
<1>2. f.task = j /\ f.todo = prereq[j]
  OBVIOUS
<1> HIDE DEF f
<1>3. /\ r \in Seq(Frame) /\ Len(r) = Len(s) + 1
      /\ \A i \in 1..Len(s) : r[i] = s[i]
      /\ r[Len(s) + 1] = f
  BY <1>1
<1>4. s # <<>> /\ Len(s) \in Nat /\ Len(s) >= 1
  <2>1. s # <<>>
    BY DEF Path
  <2> QED
    BY <2>1
<1> HIDE DEF r
<1>5. r # <<>> /\ r[1].task = NoTask
  BY <1>3, <1>4 DEF Path
<1>6. \A i \in 2..Len(r) : r[i].task \in Task
  BY <1>2, <1>3, <1>4 DEF Path
<1>7. \A i \in 1..(Len(r) - 1) : r[i].todo # <<>> /\ Head(r[i].todo) = r[i + 1].task
  <2> SUFFICES ASSUME NEW i \in 1..Len(s)
               PROVE  r[i].todo # <<>> /\ Head(r[i].todo) = r[i + 1].task
    BY <1>3, <1>4
  <2>1. CASE i = Len(s)
    BY <1>2, <1>3, <2>1
  <2>2. CASE i # Len(s)
    BY <1>3, <1>4, <2>2 DEF Path
  <2> QED
    BY <2>1, <2>2
<1>8. \A i \in 2..Len(r) : r[i].all =>
        Elements(prereq[r[i].task]) \subseteq inv \cup Elements(r[i].todo)
  <2> SUFFICES ASSUME NEW i \in 2..Len(r), r[i].all
               PROVE  Elements(prereq[r[i].task]) \subseteq inv \cup Elements(r[i].todo)
    OBVIOUS
  <2>1. CASE i = Len(s) + 1
    <3>1. r[i].task = j /\ r[i].todo = prereq[j]
      BY <1>2, <1>3, <2>1
    <3> QED
      BY <3>1
  <2>2. CASE i # Len(s) + 1
    <3>1. i \in 2..Len(s) /\ r[i] = s[i]
      BY <1>3, <1>4, <2>2
    <3> QED
      BY <3>1 DEF Path
  <2> QED
    BY <2>1, <2>2
<1> QED
  BY <1>3, <1>5, <1>6, <1>7, <1>8 DEF Path, r, f

\* The call at the top is over: what is left of the stack is a path whose last
\* frame waits for that call.
LEMMA CaughtPath ==
  ASSUME TracerInv, NEW v \in Caller, Visited(v)
  PROVE  /\ where[v] = "search" /\ Caught \in Seq(Frame)
         /\ Path(Caught, invoked)
         /\ Caught[Len(Caught)].todo # <<>>
         /\ Head(Caught[Len(Caught)].todo) = Top.task
         /\ Top.task \in Task /\ Caught[1] = stack[1] /\ Caught # <<>>
<1>1. /\ where[v] = "search" /\ Len(stack) > 1 /\ stack \in Seq(Frame)
      /\ Path(stack, invoked) /\ Len(stack) \in Nat
  BY InSearch DEF Visited
<1>2. /\ Caught \in Seq(Frame) /\ Caught # <<>> /\ Len(Caught) = Len(stack) - 1
      /\ \A i \in 1..(Len(stack) - 1) : Caught[i] = stack[i]
  BY <1>1, CaughtProperties
<1>3. Path(Caught, invoked)
  <2>1. \A i \in 1..Len(Caught) : i \in 1..Len(stack) /\ Caught[i] = stack[i]
    BY <1>1, <1>2
  <2>2. \A i \in 1..(Len(Caught) - 1) : i + 1 \in 1..Len(Caught)
                                         /\ i \in 1..(Len(stack) - 1)
    BY <1>1, <1>2
  <2>3. \A i \in 2..Len(Caught) : i \in 2..Len(stack) /\ Caught[i] = stack[i]
    BY <1>1, <1>2
  <2>4. Caught[1] = stack[1]
    BY <1>1, <1>2
  <2> QED
    BY <1>1, <1>2, <2>1, <2>2, <2>3, <2>4 DEF Path
<1>4. Len(stack) \in 2..Len(stack) /\ Len(stack) - 1 \in 1..(Len(stack) - 1)
  BY <1>1
<1>5. Top.task \in Task
  BY <1>1, <1>4 DEF Path, Top
<1>6. /\ Caught[Len(Caught)].todo # <<>>
      /\ Head(Caught[Len(Caught)].todo) = Top.task
  BY <1>1, <1>2, <1>4 DEF Path, Top
<1> QED
  BY <1>1, <1>2, <1>3, <1>5, <1>6
-----------------------------------------------------------------------------
(* The steps of Tracer.                                                     *)

\* What is left to show of a step that leaves prereq alone, once the stack and
\* the lock are dealt with.
Stable == /\ prereq' = prereq
          /\ invoked \subseteq invoked'
          /\ invoked' \in SUBSET Task

LEMMA SearchStep ==
  ASSUME TracerInv, NEW v \in Caller, where[v] = "search", Stable,
         mutex' = mutex, where' = where,
         stack' \in Seq(Frame), Path(stack', invoked')
  PROVE  Searching'
<1>1. mutex = v /\ prereq' = prereq
  BY InSearch DEF Stable
<1>2. Path(stack, invoked)'
  BY <1>1 DEF Path, Elements
<1> QED
  BY <1>1, <1>2, TracerAssumption DEF TracerInv, Searching

\* Steps that only move a thread between places outside the search.
LEMMA OutsideStep ==
  ASSUME TracerInv, NEW v \in Caller, where[v] # "search", Stable,
         mutex' = mutex, stack' = stack,
         NEW p \in {"out", "clear", "ready"}, where' = [where EXCEPT ![v] = p]
  PROVE  Searching'
<1>1. \A u \in Caller : where'[u] = "search" <=> where[u] = "search"
  BY DEF TracerInv, TracerTypeOK
<1>2. mutex # NoThread => Path(stack, invoked)'
  <2>1. mutex # NoThread => Path(stack, invoked')
    BY PathMonotone DEF TracerInv, Searching, Stable
  <2> QED
    BY <2>1 DEF Path, Elements, Stable
<1> QED
  BY <1>1, <1>2 DEF TracerInv, Searching

LEMMA LeaveStep ==
  ASSUME TracerInv, NEW v \in Caller, where[v] = "search",
         mutex' = NoThread, stack' = <<>>, where' = [where EXCEPT ![v] = "out"]
  PROVE  Searching'
<1>1. \A u \in Caller : u # v => where[u] # "search"
  BY InSearch
<1>2. \A u \in Caller : where'[u] # "search"
  BY <1>1 DEF TracerInv, TracerTypeOK
<1> QED
  BY <1>2, TracerAssumption DEF Searching

LEMMA TracerInit == TInit => TracerInv
<1> SUFFICES ASSUME TInit PROVE TracerInv
  OBVIOUS
<1>1. TracerTypeOK
  BY TracerAssumption DEF TInit, TracerTypeOK, Ref
<1>2. Searching
  BY TracerAssumption DEF TInit, Searching
<1> QED
  BY <1>1, <1>2 DEF TracerInv

LEMMA TracerStep == TracerInv /\ [TracerNext]_tvars => TracerInv'
<1> SUFFICES ASSUME TracerInv, [TracerNext]_tvars PROVE TracerInv'
  OBVIOUS
<1>0. TracerTypeOK /\ Searching
  BY DEF TracerInv
<1>1. ASSUME NEW v \in Caller, ClearFootprint(v) PROVE TracerInv'
  <2>1. Searching'
    BY <1>0, <1>1, OutsideStep DEF ClearFootprint, Stable, TracerTypeOK
  <2> QED
    BY <1>0, <1>1, <2>1 DEF ClearFootprint, TracerTypeOK, TracerInv
<1>2. ASSUME NEW v \in Caller, ClearFetched(v) PROVE TracerInv'
  <2>1. Searching'
    BY <1>0, <1>2, OutsideStep DEF ClearFetched, Stable, TracerTypeOK
  <2>2. current' \in Ref /\ array' \in [Ref -> Seq(Task)]
    BY <1>0, <1>2 DEF ClearFetched, TracerTypeOK
  <2> QED
    BY <1>0, <1>2, <2>1, <2>2 DEF ClearFetched, TracerTypeOK, TracerInv
<1>3. ASSUME NEW v \in Caller, NEW root \in Task, Enter(v, root) PROVE TracerInv'
  <2> DEFINE f == [task |-> NoTask, todo |-> <<root>>, all |-> TRUE]
  <2>1. f \in Frame /\ f.task = NoTask
    BY DEF Frame
  <2> HIDE DEF f
  <2>2. stack' = <<f>> /\ mutex = NoThread /\ mutex' = v
    BY <1>3 DEF Enter, f
  <2>3. stack' \in Seq(Frame)
    BY <2>1, <2>2
  <2>4. Path(stack, invoked)'
    BY <2>1, <2>2 DEF Path
  <2>5. \A u \in Caller : where[u] # "search"
    BY <1>0, <2>2, TracerAssumption DEF Searching
  <2>6. \A u \in Caller : where'[u] = "search" <=> u = v
    BY <1>0, <1>3, <2>5 DEF Enter, TracerTypeOK
  <2>7. Searching'
    BY <2>2, <2>4, <2>6, TracerAssumption DEF Searching
  <2> QED
    BY <1>0, <1>3, <2>3, <2>7 DEF Enter, TracerTypeOK, TracerInv
<1>4. ASSUME NEW v \in Caller, NEW j \in Task, VisitInvoked(v, j) PROVE TracerInv'
  <2>1. where[v] = "search" /\ Top.todo # <<>> /\ j = Head(Top.todo) /\ j \in invoked
    BY <1>4 DEF VisitInvoked, Calling
  <2>2. stack' \in Seq(Frame) /\ Path(stack', invoked)
    BY <1>4, <2>1, InSearch, ReturnKeepsPath DEF VisitInvoked, Top
  <2>3. Searching'
    BY <1>0, <1>4, <2>1, <2>2, SearchStep DEF VisitInvoked, Stable, TracerTypeOK
  <2> QED
    BY <1>0, <1>4, <2>2, <2>3 DEF VisitInvoked, TracerTypeOK, TracerInv
<1>5. ASSUME NEW v \in Caller, NEW j \in Task, VisitTraced(v, j) PROVE TracerInv'
  <2>1. where[v] = "search" /\ Top.todo # <<>>
    BY <1>5 DEF VisitTraced, Calling
  <2>2. stack' \in Seq(Frame) /\ Path(stack', invoked)
    BY <1>5, <2>1, InSearch, ReturnKeepsPath DEF VisitTraced, Top
  <2>3. Searching'
    BY <1>0, <1>5, <2>1, <2>2, SearchStep DEF VisitTraced, Stable, TracerTypeOK
  <2> QED
    BY <1>0, <1>5, <2>2, <2>3 DEF VisitTraced, TracerTypeOK, TracerInv
<1>6. ASSUME NEW v \in Caller, NEW j \in Task, VisitNew(v, j) PROVE TracerInv'
  <2>1. where[v] = "search" /\ Top.todo # <<>> /\ j = Head(Top.todo)
    BY <1>6 DEF VisitNew, Calling
  <2>2. stack' \in Seq(Frame) /\ Path(stack', invoked)
    BY <1>0, <1>6, <2>1, InSearch, CallKeepsPath DEF VisitNew, Top
  <2>3. Searching'
    BY <1>0, <1>6, <2>1, <2>2, SearchStep DEF VisitNew, Stable, TracerTypeOK
  <2> QED
    BY <1>0, <1>6, <2>2, <2>3 DEF VisitNew, TracerTypeOK, TracerInv
<1>7. ASSUME NEW v \in Caller, NEW j \in Task, VisitCircular(v, j) PROVE TracerInv'
  <2>1. Searching'
    BY <1>7, LeaveStep DEF VisitCircular, Calling, Leave
  <2> QED
    BY <1>0, <1>7, <2>1 DEF VisitCircular, Leave, TracerTypeOK, TracerInv
<1>9. ASSUME NEW v \in Caller, Postpone(v) PROVE TracerInv'
  <2>1. stack' \in Seq(Frame) /\ Path(stack', invoked) /\ where[v] = "search"
    BY CaughtPath, <1>9, ReturnKeepsPath DEF Postpone
  <2>2. Searching'
    BY <1>0, <1>9, <2>1, SearchStep DEF Postpone, Stable, TracerTypeOK
  <2> QED
    BY <1>0, <1>9, <2>1, <2>2 DEF Postpone, TracerTypeOK, TracerInv
<1>10. ASSUME NEW v \in Caller, Fetch(v) PROVE TracerInv'
  <2>1. /\ stack' \in Seq(Frame) /\ Path(stack', invoked) /\ where[v] = "search"
        /\ Top.task \in Task
    BY CaughtPath, <1>10, ReturnKeepsPath DEF Fetch
  <2>2. Searching'
    BY <1>0, <1>10, <2>1, SearchStep DEF Fetch, Stable, TracerTypeOK
  <2>3. fetched' \subseteq Task /\ array' \in [Ref -> Seq(Task)]
    BY <1>0, <1>10, <2>1 DEF Fetch, TracerTypeOK
  <2> QED
    BY <1>0, <1>10, <2>1, <2>2, <2>3 DEF Fetch, TracerTypeOK, TracerInv
<1>11. ASSUME NEW v \in Caller, Skip(v) PROVE TracerInv'
  <2>1. /\ stack' \in Seq(Frame) /\ Path(stack', invoked') /\ where[v] = "search"
        /\ Top.task \in Task
    <3>1. /\ Visited(v) /\ invoked' = invoked \cup {Top.task}
          /\ stack' = Returned(Caught, TRUE)
      BY <1>11 DEF Skip
    <3>2. invoked \subseteq invoked' /\ Top.task \in invoked'
      BY <3>1
    <3> QED
      BY CaughtPath, <3>1, <3>2, ReturnKeepsPath
  <2>2. Searching'
    BY <1>0, <1>11, <2>1, SearchStep DEF Skip, Stable, TracerTypeOK
  <2> QED
    BY <1>0, <1>11, <2>1, <2>2 DEF Skip, TracerTypeOK, TracerInv
<1>12. ASSUME NEW v \in Caller, Return(v) PROVE TracerInv'
  <2>1. Searching'
    BY <1>12, LeaveStep DEF Return, Leave
  <2>2. batch' \in [Caller -> Ref]
    BY <1>0, <1>12 DEF Return, TracerTypeOK
  <2>3. ret' \in [Caller -> {"none", "nil", "tasks", "raised"}]
    BY <1>0, <1>12 DEF Return, Leave, TracerTypeOK
  <2> QED
    BY <1>0, <1>12, <2>1, <2>2, <2>3 DEF Return, Leave, TracerTypeOK, TracerInv
<1>13. ASSUME NEW v \in Caller, Abort(v) PROVE TracerInv'
  <2>1. CASE mutex = v
    <3>1. where[v] = "search"
      BY <1>0, <2>1 DEF Searching
    <3>2. Searching'
      BY <1>13, <2>1, <3>1, LeaveStep DEF Abort
    <3> QED
      BY <1>0, <1>13, <2>1, <3>2 DEF Abort, TracerTypeOK, TracerInv
  <2>2. CASE mutex # v
    <3>1. where[v] # "search"
      BY <1>0, <2>2 DEF Searching
    <3>2. Searching'
      BY <1>0, <1>13, <2>2, <3>1, OutsideStep DEF Abort, Stable, TracerTypeOK
    <3> QED
      BY <1>0, <1>13, <2>2, <3>2 DEF Abort, TracerTypeOK, TracerInv
  <2> QED
    BY <2>1, <2>2
<1>14. ASSUME NEW j \in Task, MarkInvoked(j) PROVE TracerInv'
  <2>1. mutex # NoThread => Path(stack, invoked')
    BY <1>0, <1>14, PathMonotone DEF Searching, MarkInvoked
  <2>2. mutex # NoThread => Path(stack, invoked)'
    BY <1>14, <2>1 DEF Path, Elements, MarkInvoked
  <2>3. Searching'
    BY <1>0, <1>14, <2>2 DEF Searching, MarkInvoked
  <2> QED
    BY <1>0, <1>14, <2>3 DEF MarkInvoked, TracerTypeOK, TracerInv
<1>15. CASE UNCHANGED tvars
  <2>1. TracerTypeOK'
    BY <1>0, <1>15 DEF tvars, TracerTypeOK
  <2>2. Path(stack, invoked)' <=> Path(stack, invoked)
    BY <1>15 DEF tvars, Path, Elements
  <2>3. Searching'
    BY <1>0, <1>15, <2>2 DEF tvars, Searching
  <2> QED
    BY <2>1, <2>3 DEF TracerInv
<1> QED
  BY <1>1, <1>2, <1>3, <1>4, <1>5, <1>6, <1>7, <1>9, <1>10, <1>11, <1>12,
     <1>13, <1>14, <1>15 DEF TracerNext, Search

(* The invariant of the search and its types: the stack belongs to the      *)
(* thread that holds @mutex and is a path of prerequisites whose frames     *)
(* know which tasks are invoked, although @footprint and @fetched_tasks are *)
(* replaced, and tasks marked, by other threads meanwhile.                  *)
THEOREM SearchInvariant == TracerSpec => [](TracerTypeOK /\ Searching)
<1>1. TracerInv <=> TracerTypeOK /\ Searching
  BY DEF TracerInv
<1> QED
  BY <1>1, TracerInit, TracerStep, PTL DEF TracerSpec

\* When the search returns from the prerequisites of a task, and none of them
\* returned anything but nil, all of them are invoked.
LEMMA TaskReady ==
  ASSUME TracerInv, NEW v \in Caller, Visited(v), Top.all
  PROVE  Elements(prereq[Top.task]) \subseteq invoked
<1>1. /\ Path(stack, invoked) /\ Len(stack) > 1 /\ Len(stack) \in Nat
      /\ Top.todo = <<>>
  BY InSearch DEF Visited
<1>2. Elements(prereq[Top.task]) \subseteq invoked \cup Elements(Top.todo)
  BY <1>1 DEF Path, Top
<1>3. Elements(Top.todo) = {}
  BY <1>1 DEF Elements
<1> QED
  BY <1>2, <1>3

LEMMA ReadyInit == TInit => ReadyWhenFetched
BY DEF TInit, ReadyWhenFetched

LEMMA ReadyStep ==
  TracerInv /\ ReadyWhenFetched /\ [TracerNext]_tvars => ReadyWhenFetched'
<1> SUFFICES ASSUME TracerInv, ReadyWhenFetched, [TracerNext]_tvars
             PROVE  ReadyWhenFetched'
  OBVIOUS
<1>1. ASSUME fetched' = fetched, prereq' = prereq, invoked \subseteq invoked'
      PROVE  ReadyWhenFetched'
  BY <1>1 DEF ReadyWhenFetched, Elements
<1>2. ASSUME NEW v \in Caller, Visited(v), Top.all,
             fetched' = fetched \cup {Top.task}, prereq' = prereq,
             invoked \subseteq invoked'
      PROVE  ReadyWhenFetched'
  <2>1. Elements(prereq[Top.task]) \subseteq invoked
    BY <1>2, TaskReady
  <2>2. \A j \in fetched : Elements(prereq[j]) \subseteq invoked'
    BY <1>2 DEF ReadyWhenFetched
  <2>3. \A j \in fetched' : Elements(prereq[j]) \subseteq invoked'
    BY <1>2, <2>1, <2>2
  <2> QED
    BY <1>2, <2>3 DEF ReadyWhenFetched, Elements
<1>3. ASSUME NEW v \in Caller, Fetch(v) PROVE ReadyWhenFetched'
  BY <1>2, <1>3 DEF Fetch
<1>4. ASSUME NEW v \in Caller, Skip(v) PROVE ReadyWhenFetched'
  BY <1>2, <1>4 DEF Skip
<1>5. ASSUME NEW v \in Caller,
             \/ ClearFootprint(v) \/ ClearFetched(v)
             \/ (\E root \in Task : Enter(v, root))
             \/ Postpone(v) \/ Return(v) \/ Abort(v)
      PROVE  ReadyWhenFetched'
  BY <1>1, <1>5 DEF ClearFootprint, ClearFetched, Enter, Postpone, Return, Abort
<1>6. ASSUME NEW v \in Caller, NEW j \in Task,
             \/ VisitInvoked(v, j) \/ VisitTraced(v, j) \/ VisitNew(v, j)
             \/ VisitCircular(v, j)
      PROVE  ReadyWhenFetched'
  BY <1>1, <1>6 DEF VisitInvoked, VisitTraced, VisitNew, VisitCircular
<1>7. ASSUME NEW j \in Task, MarkInvoked(j) PROVE ReadyWhenFetched'
  BY <1>1, <1>7 DEF MarkInvoked
<1>8. CASE UNCHANGED tvars
  BY <1>1, <1>8 DEF tvars
<1> QED
  BY <1>3, <1>4, <1>5, <1>6, <1>7, <1>8 DEF TracerNext, Search

(* A task is handed out, or found not to be needed, only when all its       *)
(* prerequisites have been invoked, on every graph and for every            *)
(* interleaving of invokers and workers.                                    *)
THEOREM FetchedAreReady == TracerSpec => []ReadyWhenFetched
<1>1. TracerInv <=> TracerTypeOK /\ Searching
  BY DEF TracerInv
<1> QED
  BY <1>1, ReadyInit, ReadyStep, SearchInvariant, PTL DEF TracerSpec

-----------------------------------------------------------------------------
(* A task is fetched once.                                                  *)

\* What makes FetchedOnce inductive: what an array holds is in @fetched, and the
\* calls in progress are of different tasks, none of which is.
Accounted ==
  /\ FetchedOnce
  /\ \A r \in Ref : \A i \in 1..Len(array[r]) : array[r][i] \in fetched
  /\ \A i \in 2..Len(stack) : stack[i].task \notin fetched
  /\ \A i, j \in 2..Len(stack) : stack[i].task = stack[j].task => i = j

\* The part of it about the calls, for a stack s.
Calls(s) ==
  /\ \A i \in 2..Len(s) : s[i].task \notin fetched
  /\ \A i, j \in 2..Len(s) : s[i].task = s[j].task => i = j

\* Steps that hand nothing out, and leave a stack of such calls.
LEMMA NothingHandedOut ==
  ASSUME Accounted, array' = array, fetched' = fetched, Calls(stack')
  PROVE  Accounted'
BY DEF Accounted, Calls, FetchedOnce

\* A call that returns to the top frame of s leaves the calls of s.
LEMMA ReturnKeepsCalls ==
  ASSUME NEW s \in Seq(Frame), s # <<>>, s[Len(s)].todo # <<>>,
         NEW nil \in BOOLEAN, Calls(s)
  PROVE  Calls(Returned(s, nil))
<1> DEFINE r == Returned(s, nil)
<1>1. /\ Len(r) = Len(s)
      /\ \A i \in 1..Len(s) : i # Len(s) => r[i] = s[i]
      /\ r[Len(s)].task = s[Len(s)].task
  BY ReturnedProperties
<1> HIDE DEF r
<1>2. \A i \in 2..Len(s) : r[i].task = s[i].task
  BY <1>1
<1> QED
  BY <1>1, <1>2 DEF Calls, r

\* The call at the top is over: what is left of the stack returns to a frame
\* that waited for it, and none of the other calls is of its task.
LEMMA CallOver ==
  ASSUME TracerInv, Accounted, NEW v \in Caller, Visited(v), NEW nil \in BOOLEAN
  PROVE  /\ Calls(Returned(Caught, nil))
         /\ \A i \in 2..Len(Returned(Caught, nil)) :
              Returned(Caught, nil)[i].task # Top.task
         /\ Top.task \in Task /\ Top.task \notin fetched
<1>1. /\ stack \in Seq(Frame) /\ Len(stack) > 1 /\ Len(stack) \in Nat
      /\ Path(stack, invoked)
  BY InSearch DEF Visited
<1>2. /\ Caught \in Seq(Frame) /\ Caught # <<>> /\ Len(Caught) = Len(stack) - 1
      /\ \A i \in 1..(Len(stack) - 1) : Caught[i] = stack[i]
  BY <1>1, CaughtProperties
<1>3. Len(stack) \in 2..Len(stack) /\ Len(stack) - 1 \in 1..(Len(stack) - 1)
  BY <1>1
<1>4. Caught[Len(Caught)].todo # <<>>
  BY <1>1, <1>2, <1>3 DEF Path
<1>5. \A i \in 2..Len(Caught) : i \in 2..Len(stack) /\ i # Len(stack)
                                /\ Caught[i] = stack[i]
  BY <1>1, <1>2
<1>6. Calls(Caught) /\ \A i \in 2..Len(Caught) : Caught[i].task # Top.task
  BY <1>3, <1>5 DEF Calls, Accounted, Top
<1>7. Top.task \in Task /\ Top.task \notin fetched
  BY <1>1, <1>3 DEF Path, Accounted, Top
<1>8. Calls(Returned(Caught, nil))
  BY <1>2, <1>4, <1>6, ReturnKeepsCalls
<1>9. \A i \in 2..Len(Returned(Caught, nil)) :
        Returned(Caught, nil)[i].task = Caught[i].task /\ i \in 2..Len(Caught)
  <2> DEFINE r == Returned(Caught, nil)
  <2>1. /\ Len(r) = Len(Caught)
        /\ \A i \in 1..Len(Caught) : i # Len(Caught) => r[i] = Caught[i]
        /\ r[Len(Caught)].task = Caught[Len(Caught)].task
    BY <1>2, <1>4, ReturnedProperties
  <2> HIDE DEF r
  <2>2. \A i \in 2..Len(r) : r[i].task = Caught[i].task /\ i \in 2..Len(Caught)
    BY <1>2, <2>1
  <2> QED
    BY <2>2 DEF r
<1> QED
  BY <1>6, <1>7, <1>8, <1>9

\* A task that is not in @fetched is added to it and to the array in use.
LEMMA AppendOnce ==
  ASSUME TracerTypeOK, Accounted, NEW j \in Task, j \notin fetched,
         fetched' = fetched \cup {j},
         array' = [array EXCEPT ![current] = Append(@, j)]
  PROVE  /\ FetchedOnce'
         /\ \A r \in Ref : \A i \in 1..Len(array'[r]) : array'[r][i] \in fetched'
<1> DEFINE l == Len(array[current])
<1>1. /\ current \in Ref /\ array \in [Ref -> Seq(Task)] /\ array[current] \in Seq(Task)
      /\ l \in Nat
  BY DEF TracerTypeOK
<1>2. \A r \in Ref : r # current => array'[r] = array[r]
  BY <1>1
<1>3. /\ Len(array'[current]) = l + 1 /\ array'[current][l + 1] = j
      /\ \A i \in 1..l : array'[current][i] = array[current][i]
  BY <1>1
<1> HIDE DEF l
<1>4. \A r \in Ref : \A i \in 1..Len(array'[r]) :
        \/ i \in 1..Len(array[r]) /\ array'[r][i] = array[r][i]
        \/ r = current /\ i = l + 1 /\ array'[r][i] = j
  BY <1>1, <1>2, <1>3 DEF l
<1>5. \A r \in Ref : \A i \in 1..Len(array[r]) : array[r][i] # j
  BY DEF Accounted
<1>6. \A r, s \in Ref : \A i \in 1..Len(array'[r]), k \in 1..Len(array'[s]) :
        array'[r][i] = array'[s][k] => r = s /\ i = k
  <2> SUFFICES ASSUME NEW r \in Ref, NEW s \in Ref, NEW i \in 1..Len(array'[r]),
                      NEW k \in 1..Len(array'[s]), array'[r][i] = array'[s][k]
               PROVE  r = s /\ i = k
    OBVIOUS
  <2>1. CASE i \in 1..Len(array[r]) /\ array'[r][i] = array[r][i]
    <3>1. k \in 1..Len(array[s]) /\ array'[s][k] = array[s][k]
      BY <1>4, <1>5, <2>1
    <3> QED
      BY <2>1, <3>1 DEF Accounted, FetchedOnce
  <2>2. CASE r = current /\ i = l + 1 /\ array'[r][i] = j
    <3>1. s = current /\ k = l + 1
      BY <1>4, <1>5, <2>2
    <3> QED
      BY <2>2, <3>1
  <2> QED
    BY <1>4, <2>1, <2>2
<1>7. FetchedOnce'
  BY <1>6 DEF FetchedOnce, Ref
<1>8. \A r \in Ref : \A i \in 1..Len(array'[r]) : array'[r][i] \in fetched'
  BY <1>4 DEF Accounted
<1> QED
  BY <1>7, <1>8

LEMMA AccountedInit == TInit => Accounted
BY DEF TInit, Accounted, FetchedOnce

LEMMA AccountedStep == TracerInv /\ Accounted /\ [TracerNext]_tvars => Accounted'
<1> SUFFICES ASSUME TracerInv, Accounted, [TracerNext]_tvars PROVE Accounted'
  OBVIOUS
<1>0. TracerTypeOK /\ Calls(stack)
  BY DEF TracerInv, Accounted, Calls
<1>1. ASSUME array' = array, fetched' = fetched, stack' \in {stack, <<>>}
      PROVE  Accounted'
  BY <1>0, <1>1, NothingHandedOut DEF Calls
<1>2. ASSUME NEW v \in Caller, ClearFootprint(v) \/ Return(v) \/ Abort(v)
      PROVE  Accounted'
  BY <1>1, <1>2 DEF ClearFootprint, Return, Leave, Abort
<1>3. ASSUME NEW v \in Caller, ClearFetched(v) PROVE Accounted'
  <2>1. PICK r \in Ref : array' = [array EXCEPT ![r] = <<>>]
    BY <1>3 DEF ClearFetched
  <2>2. \A s \in Ref : \A i \in 1..Len(array'[s]) :
          i \in 1..Len(array[s]) /\ array'[s][i] = array[s][i]
    BY <1>0, <2>1 DEF TracerTypeOK
  <2>3. fetched' = fetched /\ stack' = stack
    BY <1>3 DEF ClearFetched
  <2> QED
    BY <2>2, <2>3 DEF Accounted, FetchedOnce
<1>4. ASSUME NEW v \in Caller, NEW root \in Task, Enter(v, root) PROVE Accounted'
  <2>1. Calls(stack')
    BY <1>4 DEF Enter, Calls
  <2> QED
    BY <1>4, <2>1, NothingHandedOut DEF Enter
<1>5. ASSUME NEW v \in Caller, NEW j \in Task,
             VisitInvoked(v, j) \/ VisitTraced(v, j)
      PROVE  Accounted'
  <2>1. where[v] = "search" /\ Top.todo # <<>>
    BY <1>5 DEF VisitInvoked, VisitTraced, Calling
  <2>2. PICK nil \in BOOLEAN : stack' = Returned(stack, nil)
    BY <1>5 DEF VisitInvoked, VisitTraced
  <2>3. Calls(stack')
    BY <1>0, <2>1, <2>2, InSearch, ReturnKeepsCalls DEF Top
  <2> QED
    BY <1>5, <2>3, NothingHandedOut DEF VisitInvoked, VisitTraced
<1>6. ASSUME NEW v \in Caller, NEW j \in Task, VisitNew(v, j) PROVE Accounted'
  <2> DEFINE f == [task |-> j, todo |-> prereq[j], all |-> TRUE]
  <2>1. where[v] = "search" /\ j \notin Chain /\ j \notin fetched
    BY <1>6 DEF VisitNew, Calling
  <2>2. stack \in Seq(Frame) /\ stack' = Append(stack, f) /\ f \in Frame /\ f.task = j
    BY <1>0, <1>6, <2>1 DEF VisitNew, TracerTypeOK, Frame
  <2> HIDE DEF f
  <2>3. /\ Len(stack') = Len(stack) + 1 /\ Len(stack) \in Nat
        /\ \A i \in 1..Len(stack) : stack'[i] = stack[i]
        /\ stack'[Len(stack) + 1].task = j
    BY <2>2
  <2>4. \A i \in 1..Len(stack) : stack'[i].task # j
    BY <2>1, <2>3 DEF Chain
  <2>5. \A i \in 2..Len(stack') :
          \/ i \in 2..Len(stack) /\ stack'[i] = stack[i] /\ stack'[i].task # j
          \/ i = Len(stack) + 1 /\ stack'[i].task = j
    BY <2>3, <2>4
  <2>6. Calls(stack')
    BY <1>0, <2>1, <2>5 DEF Calls
  <2> QED
    BY <1>6, <2>6, NothingHandedOut DEF VisitNew
<1>7. ASSUME NEW v \in Caller, NEW j \in Task, VisitCircular(v, j) PROVE Accounted'
  BY <1>1, <1>7 DEF VisitCircular, Leave
<1>8. ASSUME NEW v \in Caller, Postpone(v) PROVE Accounted'
  <2>1. Calls(stack')
    BY <1>8, CallOver DEF Postpone
  <2> QED
    BY <1>8, <2>1, NothingHandedOut DEF Postpone
<1>9. ASSUME NEW v \in Caller, NEW nil \in BOOLEAN, Visited(v),
             stack' = Returned(Caught, nil), fetched' = fetched \cup {Top.task}
      PROVE  /\ \A i \in 2..Len(stack') : stack'[i].task \notin fetched'
             /\ \A i, j \in 2..Len(stack') : stack'[i].task = stack'[j].task => i = j
  BY <1>9, CallOver DEF Calls
<1>10. ASSUME NEW v \in Caller, Fetch(v) PROVE Accounted'
  <2>1. /\ \A i \in 2..Len(stack') : stack'[i].task \notin fetched'
        /\ \A i, j \in 2..Len(stack') : stack'[i].task = stack'[j].task => i = j
    BY <1>9, <1>10 DEF Fetch
  <2>2. Top.task \in Task /\ Top.task \notin fetched
    BY <1>10, CallOver DEF Fetch
  <2>3. /\ FetchedOnce'
        /\ \A r \in Ref : \A i \in 1..Len(array'[r]) : array'[r][i] \in fetched'
    BY <1>0, <1>10, <2>2, AppendOnce DEF Fetch
  <2> QED
    BY <2>1, <2>3 DEF Accounted, Ref
<1>11. ASSUME NEW v \in Caller, Skip(v) PROVE Accounted'
  <2>1. /\ \A i \in 2..Len(stack') : stack'[i].task \notin fetched'
        /\ \A i, j \in 2..Len(stack') : stack'[i].task = stack'[j].task => i = j
    BY <1>9, <1>11 DEF Skip
  <2>2. array' = array /\ fetched \subseteq fetched'
    BY <1>11 DEF Skip
  <2> QED
    BY <2>1, <2>2 DEF Accounted, FetchedOnce
<1>12. ASSUME NEW j \in Task, MarkInvoked(j) PROVE Accounted'
  BY <1>1, <1>12 DEF MarkInvoked
<1>13. CASE UNCHANGED tvars
  BY <1>1, <1>13 DEF tvars
<1> QED
  BY <1>2, <1>3, <1>4, <1>5, <1>6, <1>7, <1>8, <1>10, <1>11, <1>12, <1>13
     DEF TracerNext, Search

(* No task is put into an array twice, nor into two arrays, however many    *)
(* threads are in available_task at once and replace @fetched_tasks and     *)
(* @footprint before they have @mutex, and wherever a search is aborted.    *)
THEOREM NoTaskFetchedTwice == TracerSpec => []FetchedOnce
<1>1. Accounted => FetchedOnce
  BY DEF Accounted
<1>2. TracerInv <=> TracerTypeOK /\ Searching
  BY DEF TracerInv
<1> QED
  BY <1>1, <1>2, AccountedInit, AccountedStep, SearchInvariant, PTL DEF TracerSpec
-----------------------------------------------------------------------------
(* What an invoker knows when its search returns.                           *)

\* The frame of available_task says that the root is invoked, unless find_task
\* has still to be called for it.
RootSought(root) == stack[1].all => root \in invoked \cup Elements(stack[1].todo)

LEMMA RootReturned ==
  ASSUME NEW s \in Seq(Frame), s # <<>>, s[Len(s)].todo # <<>>, NEW nil \in BOOLEAN,
         NEW root \in Task, NEW inv, NEW more, inv \subseteq more,
         s[1].all => root \in inv \cup Elements(s[1].todo),
         nil => Head(s[Len(s)].todo) \in more
  PROVE  Returned(s, nil)[1].all => root \in more \cup Elements(Returned(s, nil)[1].todo)
<1> DEFINE r == Returned(s, nil)
<1>1. /\ \A i \in 1..Len(s) : i # Len(s) => r[i] = s[i]
      /\ r[Len(s)].todo = Tail(s[Len(s)].todo)
      /\ r[Len(s)].all => s[Len(s)].all /\ nil
  BY ReturnedProperties
<1>2. 1 \in 1..Len(s) /\ s[1] \in Frame
  OBVIOUS
<1> HIDE DEF r
<1>3. CASE Len(s) # 1
  BY <1>1, <1>2, <1>3 DEF r
<1>4. CASE Len(s) = 1
  <2>1. s[1].todo \in Seq(Task) /\ s[1].todo # <<>>
    BY <1>2, <1>4 DEF Frame
  <2>2. Elements(s[1].todo) \subseteq {Head(s[1].todo)} \cup Elements(Tail(s[1].todo))
    BY <2>1, ElementsTail
  <2> QED
    BY <1>1, <1>4, <2>2 DEF r
<1> QED
  BY <1>3, <1>4

\* No step of find_task loses that.
LEMMA RootKept ==
  TracerInv => \A v \in Caller, root \in Task :
                 where[v] = "search" /\ RootSought(root) /\ Search(v) => RootSought(root)'
<1> SUFFICES ASSUME TracerInv, NEW v \in Caller, NEW root \in Task,
                    where[v] = "search", RootSought(root), Search(v)
             PROVE  RootSought(root)'
  OBVIOUS
<1>1. stack \in Seq(Frame) /\ stack # <<>> /\ Len(stack) \in 1..Len(stack)
  BY InSearch
<1>2. ASSUME NEW j \in Task, VisitInvoked(v, j) PROVE RootSought(root)'
  BY <1>1, <1>2, RootReturned DEF VisitInvoked, Calling, Top, RootSought
<1>3. ASSUME NEW j \in Task, VisitTraced(v, j) PROVE RootSought(root)'
  BY <1>1, <1>3, RootReturned DEF VisitTraced, Calling, Top, RootSought
<1>4. ASSUME NEW j \in Task, VisitNew(v, j) PROVE RootSought(root)'
  <2> DEFINE f == [task |-> j, todo |-> prereq[j], all |-> TRUE]
  <2>1. stack' = Append(stack, f) /\ invoked' = invoked
    BY <1>4 DEF VisitNew
  <2>2. f \in Frame
    BY DEF Frame, TracerInv, TracerTypeOK
  <2> HIDE DEF f
  <2>3. stack'[1] = stack[1]
    BY <1>1, <2>1, <2>2
  <2> QED
    BY <2>1, <2>3 DEF RootSought
<1>5. ASSUME Postpone(v) PROVE RootSought(root)'
  <2>1. /\ Caught \in Seq(Frame) /\ Caught # <<>> /\ Caught[1] = stack[1]
        /\ Caught[Len(Caught)].todo # <<>>
    BY <1>5, CaughtPath DEF Postpone
  <2> QED
    BY <1>5, <2>1, RootReturned DEF Postpone, RootSought
<1>6. ASSUME Fetch(v) PROVE RootSought(root)'
  <2>1. /\ Caught \in Seq(Frame) /\ Caught # <<>> /\ Caught[1] = stack[1]
        /\ Caught[Len(Caught)].todo # <<>>
    BY <1>6, CaughtPath DEF Fetch
  <2> QED
    BY <1>6, <2>1, RootReturned DEF Fetch, RootSought
<1>7. ASSUME Skip(v) PROVE RootSought(root)'
  <2>1. /\ Caught \in Seq(Frame) /\ Caught # <<>> /\ Caught[1] = stack[1]
        /\ Caught[Len(Caught)].todo # <<>>
        /\ Head(Caught[Len(Caught)].todo) = Top.task
    BY <1>7, CaughtPath DEF Skip
  <2>2. Top.task \in invoked' /\ invoked \subseteq invoked' /\ stack' = Returned(Caught, TRUE)
    BY <1>7 DEF Skip
  <2> DEFINE c == Caught
  <2>3. /\ c[1].all => root \in invoked \cup Elements(c[1].todo)
        /\ c \in Seq(Frame) /\ c # <<>> /\ c[Len(c)].todo # <<>>
        /\ Head(c[Len(c)].todo) \in invoked'
    BY <2>1, <2>2 DEF RootSought
  <2> HIDE DEF c
  <2>4. Returned(c, TRUE)[1].all =>
          root \in invoked' \cup Elements(Returned(c, TRUE)[1].todo)
    BY <2>2, <2>3, RootReturned
  <2> QED
    BY <2>2, <2>4 DEF RootSought, Elements, c
<1> QED
  BY <1>2, <1>3, <1>4, <1>5, <1>6, <1>7 DEF Search

\* A task that is handed out or skipped is handed out or skipped for the first
\* time, and its prerequisites are invoked.
LEMMA FirstTime ==
  TracerInv /\ Accounted =>
    \A v \in Caller : Visited(v) /\ Top.all =>
      /\ Top.task \in Task /\ Top.task \notin fetched
      /\ Elements(prereq[Top.task]) \subseteq invoked
BY CallOver, TaskReady
=============================================================================
