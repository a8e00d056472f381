--------------------------- MODULE TaskQueueProofs ---------------------------
(***************************************************************************)
(* Theorems about TaskQueue, for every set of hosts, workers and tasks.    *)
(***************************************************************************)
EXTENDS TaskQueue, SequenceTheorems, TLAPS

USE DEF Thread, Caller

-----------------------------------------------------------------------------
(* The operators on the lists keep their type. *)

LEMMA WithoutType ==
  ASSUME NEW s \in Seq(Task), NEW j
  PROVE  Without(s, j) \in Seq(Task)
<1>1. CASE In(j, s)
  <2> DEFINE i == CHOOSE k \in 1..Len(s) : s[k] = j
  <2>0. \E k \in 1..Len(s) : s[k] = j
    BY <1>1 DEF In
  <2>1. i \in 1..Len(s)
    BY <2>0 DEF i
  <2>2. SubSeq(s, 1, i - 1) \in Seq(Task) /\ SubSeq(s, i + 1, Len(s)) \in Seq(Task)
    <3> HIDE DEF i
    <3>1. /\ \A k \in 1..(i - 1) : s[k] \in Task
          /\ \A k \in (i + 1)..Len(s) : s[k] \in Task
      BY <2>1
    <3> QED
      BY <2>1, <3>1, SubSeqProperties
  <2>3. Without(s, j) = SubSeq(s, 1, i - 1) \o SubSeq(s, i + 1, Len(s))
    BY <1>1 DEF Without
  <2> HIDE DEF i
  <2> QED
    BY <2>2, <2>3
<1>2. CASE ~In(j, s)
  BY <1>2 DEF Without
<1> QED
  BY <1>1, <1>2

LEMMA PopFromType ==
  ASSUME q \in [Host -> Seq(Task)], NEW h \in Host, q[h] # <<>>
  PROVE  PopFrom(q, h) \in [Host -> Seq(Task)] /\ Head(q[h]) \in Task
<1> DEFINE s == [q EXCEPT ![h] = Tail(@)]
<1>1. s \in [Host -> Seq(Task)] /\ Head(q[h]) \in Task
  OBVIOUS
<1>2. PopFrom(q, h) = [k \in Host |-> IF k \in Locality[Head(q[h])]
                                        THEN Without(s[k], Head(q[h])) ELSE s[k]]
  BY DEF PopFrom
<1> HIDE DEF s
<1> QED
  BY <1>1, <1>2, WithoutType

LEMMA SignalType ==
  ASSUME at \in [Caller -> Place], NEW v \in Caller, NEW p \in Place, Signal(v, p)
  PROVE  at' \in [Caller -> Place]
BY DEF Signal, Waiters, Place

LEMMA TypeInit == QInit => TypeOK
<1> SUFFICES ASSUME QInit PROVE TypeOK
  OBVIOUS
<1>1. q \in [Host -> Seq(Task)] /\ thEnd \in Seq(Nested)
  BY DEF QInit, EmptyLists
<1>2. at \in [Caller -> Place]
  BY DEF QInit, Place
<1>3. n \in [Thread -> 0..2] /\ got \in [Thread -> Task \cup {None}]
  BY DEF QInit
<1> QED
  BY <1>1, <1>2, <1>3 DEF QInit, TypeOK

LEMMA TypeStep == TypeOK /\ [QNext]_qvars => TypeOK'
<1> SUFFICES ASSUME TypeOK, [QNext]_qvars PROVE TypeOK'
  OBVIOUS
<1> USE DEF TypeOK
<1>1. ASSUME NEW v \in Caller, PushEnter(v) PROVE TypeOK'
  BY <1>1 DEF PushEnter, Place
<1>2. ASSUME NEW v \in Caller, NEW j \in Task, PushTask(v, j) PROVE TypeOK'
  BY <1>2 DEF PushTask, PushTo
<1>3. ASSUME NEW v \in Caller, PushLeave(v) PROVE TypeOK'
  BY <1>3, SignalType DEF PushLeave, Place
<1>4. ASSUME NEW v \in Caller, FinishSet(v) PROVE TypeOK'
  BY <1>4 DEF FinishSet, Place
<1>5. ASSUME NEW v \in Caller, FinishSignal(v) PROVE TypeOK'
  BY <1>5, SignalType DEF FinishSignal, Place
<1>6. ASSUME NEW t \in Worker, Stop(t) PROVE TypeOK'
  BY <1>6, SignalType DEF Stop, Place, EmptyLists
<1>7. ASSUME NEW t \in Worker, PopEnter(t) PROVE TypeOK'
  <2>1. n' \in [Thread -> 0..2]
    BY <1>7 DEF PopEnter
  <2>2. got' \in [Thread -> Task \cup {None}] /\ at' \in [Caller -> Place]
    BY <1>7 DEF PopEnter, Place
  <2> QED
    BY <1>7, <2>1, <2>2 DEF PopEnter
<1>8. ASSUME NEW t \in Worker, PopTest(t) PROVE TypeOK'
  <2>1. CASE thEnd # <<>> /\ Head(thEnd) = t
    <3>0. thEnd' = Tail(thEnd) /\ thEnd \in Seq(Nested) /\ thEnd # <<>>
      BY <1>8, <2>1 DEF PopTest
    <3>1. thEnd' \in Seq(Nested)
      BY <3>0, HeadTailProperties
    <3>2. at' \in [Caller -> Place] /\ m' = NoThread
      BY <1>8, <2>1 DEF PopTest, Place
    <3> QED
      BY <1>8, <3>1, <3>2 DEF PopTest
  <2>2. CASE ~(thEnd # <<>> /\ Head(thEnd) = t)
    BY <1>8, <2>2 DEF PopTest, Place
  <2> QED
    BY <2>1, <2>2
<1>9. ASSUME NEW t \in Worker, PopFinished(t) PROVE TypeOK'
  BY <1>9, SignalType DEF PopFinished, Place
<1>10. ASSUME NEW t \in Worker, PopReturn(t) PROVE TypeOK'
  <2>1. PICK h \in Host :
          /\ IF q[HostOf[t]] # <<>>
               THEN h = HostOf[t]
               ELSE n[t] > 1 /\ h \in AltHosts(q, HostOf[t])
          /\ q' = PopFrom(q, h)
          /\ got' = [got EXCEPT ![t] = Head(q[h])]
    BY <1>10 DEF PopReturn
  <2>2. q[h] # <<>>
    BY <2>1 DEF AltHosts
  <2>3. q' \in [Host -> Seq(Task)] /\ Head(q[h]) \in Task
    BY <2>1, <2>2, PopFromType
  <2>4. got' \in [Thread -> Task \cup {None}]
    BY <2>1, <2>3
  <2>5. at' \in [Caller -> Place]
    BY <1>10, SignalType DEF PopReturn, Place
  <2> QED
    BY <1>10, <2>3, <2>4, <2>5 DEF PopReturn
<1>11. ASSUME NEW t \in Worker, PopSkip(t) PROVE TypeOK'
  <2>1. at' \in [Caller -> Place]
    BY <1>11, SignalType DEF PopSkip, Place
  <2>2. n' \in [Thread -> 0..2]
    <3>1. n[t] \in 0..2 /\ ~(n[t] > 1) => n[t] + 1 \in 0..2
      OBVIOUS
    <3> QED
      BY <1>11, <3>1 DEF PopSkip
  <2> QED
    BY <1>11, <2>1, <2>2 DEF PopSkip
<1>12. ASSUME NEW t \in Worker, PopEmpty(t) PROVE TypeOK'
  BY <1>12 DEF PopEmpty, Place
<1>13. ASSUME NEW t \in Worker, PopWait(t) PROVE TypeOK'
  BY <1>13 DEF PopWait, Place
<1>14. CASE UNCHANGED qvars
  BY <1>14 DEF qvars
<1> QED
  BY <1>1, <1>2, <1>3, <1>4, <1>5, <1>6, <1>7, <1>8, <1>9, <1>10, <1>11,
     <1>12, <1>13, <1>14 DEF QNext, MainNext, Pop

(* The type invariant: every variable keeps its type, n never exceeds 2 because *)
(* the third turn of the loop of pop always finds a task to steal.              *)
THEOREM TypeCorrect == QSpec => []TypeOK
BY TypeInit, TypeStep, PTL DEF QSpec

-----------------------------------------------------------------------------
(* The lock and the flat control state.                                    *)

\* What a signal does to the places: the caller moves, one waiter may be woken,
\* and one is woken if there is one.
LEMMA SignalEffect ==
  ASSUME at \in [Caller -> Place], NEW v \in Caller, NEW p \in Place,
         at[v] # "asleep", Signal(v, p)
  PROVE  /\ at'[v] = p
         /\ \A u \in Caller \ {v} :
               at'[u] = at[u] \/ (at[u] = "asleep" /\ at'[u] = "woken")
         /\ (\E w \in Thread : at[w] = "asleep")
               => \E w \in Thread : at[w] = "asleep" /\ at'[w] = "woken"
         /\ at' \in [Caller -> Place]
<1>1. CASE Waiters = {}
  <2>1. at' = [at EXCEPT ![v] = p]
    BY <1>1 DEF Signal
  <2>2. ~\E w \in Thread : at[w] = "asleep"
    BY <1>1 DEF Waiters
  <2>3. \A u \in Caller \ {v} : at'[u] = at[u]
    BY <2>1
  <2> QED
    BY <2>1, <2>2, <2>3
<1>2. CASE Waiters # {}
  <2>1. PICK w \in Waiters : at' = [at EXCEPT ![v] = p, ![w] = "woken"]
    BY <1>2 DEF Signal
  <2>2. w \in Thread /\ w # v /\ at[w] = "asleep" /\ w \in Caller
    BY <2>1 DEF Waiters
  <2>3. \A u \in Caller : at'[u] = IF u = v THEN p ELSE IF u = w THEN "woken" ELSE at[u]
    BY <2>1, <2>2
  <2>4. at' \in [Caller -> Place]
    BY <2>1, <2>2 DEF Place
  <2> QED
    BY <2>2, <2>3, <2>4
<1> QED
  BY <1>1, <1>2

\* A step in which v signals and moves to p keeps Flat if v keeps to the places
\* it may be in, and gives the lock up exactly when it leaves the critical places.
LEMMA SignalKeepsFlat ==
  ASSUME TypeOK, Flat, NEW v \in Worker \cup {Main}, NEW p \in Place,
         at[v] # "asleep", Signal(v, p), thEnd' = thEnd,
         v = Main => p \in {"out", "push", "fin"},
         v \in Worker => p \notin {"push", "fin", "bcast", "unborn"},
         \/ at[v] \in Critical /\ p \in Critical /\ m' = m
         \/ at[v] \in Critical /\ p \notin Critical /\ m' = NoThread
         \/ at[v] \notin Critical /\ p \notin Critical /\ m' = m
  PROVE  Flat'
<1>1. /\ at'[v] = p
      /\ \A u \in Caller \ {v} :
               at'[u] = at[u] \/ (at[u] = "asleep" /\ at'[u] = "woken")
  BY SignalEffect DEF TypeOK
<1>2. LockDiscipline'
  <2> SUFFICES ASSUME NEW u \in Caller PROVE (m = u <=> at[u] \in Critical)'
    BY DEF LockDiscipline
  <2>1. m = u <=> at[u] \in Critical
    BY DEF Flat, LockDiscipline
  <2>2. m = v <=> at[v] \in Critical
    BY DEF Flat, LockDiscipline
  <2>3. CASE u = v
    BY <1>1, <2>2, <2>3, ThreadAssumption
  <2>4. CASE u # v
    BY <1>1, <2>1, <2>2, <2>4, ThreadAssumption DEF Critical
  <2> QED
    BY <2>3, <2>4
<1>3. at'[Main] \in {"out", "push", "fin"}
  BY <1>1 DEF Flat
<1>4. \A c \in Nested : at'[c] = "unborn"
  BY <1>1, ThreadAssumption DEF Flat
<1>5. \A t \in Worker : at'[t] \notin {"push", "fin", "bcast", "unborn"}
  BY <1>1, ThreadAssumption DEF Flat
<1> QED
  BY <1>2, <1>3, <1>4, <1>5 DEF Flat

LEMMA FlatStep == TypeOK /\ Flat /\ [QNext]_qvars => Flat'
<1> USE DEF Flat, LockDiscipline, Critical
<1> SUFFICES ASSUME TypeOK, Flat, [QNext]_qvars PROVE Flat'
  OBVIOUS
<1> USE ThreadAssumption DEF TypeOK
<1>1. CASE PushEnter(Main)
  BY <1>1 DEF PushEnter
<1>2. ASSUME NEW j \in Task, PushTask(Main, j) PROVE Flat'
  BY <1>2 DEF PushTask
<1>3. CASE PushLeave(Main)
  BY <1>3, SignalKeepsFlat DEF PushLeave, Place
<1>4. CASE FinishSet(Main)
  BY <1>4 DEF FinishSet
<1>5. CASE FinishSignal(Main)
  BY <1>5, SignalKeepsFlat DEF FinishSignal, Place
<1>6. ASSUME NEW t \in Worker, Stop(t) PROVE Flat'
  BY <1>6, SignalKeepsFlat DEF Stop, Place
<1>7. ASSUME NEW t \in Worker, PopEnter(t) PROVE Flat'
  BY <1>7 DEF PopEnter
<1>8. ASSUME NEW t \in Worker, PopTest(t) PROVE Flat'
  BY <1>8 DEF PopTest
<1>9. ASSUME NEW t \in Worker, PopFinished(t) PROVE Flat'
  BY <1>9, SignalKeepsFlat DEF PopFinished, Place
<1>10. ASSUME NEW t \in Worker, PopReturn(t) PROVE Flat'
  BY <1>10, SignalKeepsFlat DEF PopReturn, Place
<1>11. ASSUME NEW t \in Worker, PopSkip(t) PROVE Flat'
  BY <1>11, SignalKeepsFlat DEF PopSkip, Place
<1>12. ASSUME NEW t \in Worker, PopEmpty(t) PROVE Flat'
  BY <1>12 DEF PopEmpty
<1>13. ASSUME NEW t \in Worker, PopWait(t) PROVE Flat'
  BY <1>13 DEF PopWait
<1>14. CASE UNCHANGED qvars
  BY <1>14 DEF qvars
<1> QED
  BY <1>1, <1>2, <1>3, <1>4, <1>5, <1>6, <1>7, <1>8, <1>9, <1>10, <1>11,
     <1>12, <1>13, <1>14 DEF QNext, MainNext, Pop

LEMMA FlatInit == QInit => Flat
<1> USE DEF Flat, LockDiscipline, Critical
<1> SUFFICES ASSUME QInit PROVE Flat
  OBVIOUS
<1>1. \A v \in Caller : at[v] \in {"out", "unborn"} /\ m # v
  BY ThreadAssumption DEF QInit
<1>2. /\ at[Main] = "out" /\ \A c \in Nested : at[c] = "unborn"
      /\ \A t \in Worker : at[t] = "out"
  BY ThreadAssumption DEF QInit
<1> QED
  BY <1>1, <1>2 DEF QInit

(* Without nested workers the mutex is held exactly by the thread inside    *)
(* push or the loop of pop, no thread is told to end, and only the main     *)
(* thread is in finish.                                                     *)
THEOREM Locking == QSpec => []Flat
BY FlatInit, FlatStep, TypeCorrect, PTL DEF QSpec

-----------------------------------------------------------------------------
(* Wakeups.                                                                 *)

\* v moves to p; the others stay where they are, or are woken.
Moved(v, p) ==
  /\ at'[v] = p
  /\ \A u \in (Worker \cup {Main}) \ {v} :
        at'[u] = at[u] \/ (at[u] = "asleep" /\ at'[u] = "woken")

\* What a signal does, as used below: workers other than the caller stay where
\* they are or are woken, and one is woken if one is asleep.
LEMMA WorkerSignal ==
  ASSUME TypeOK, Flat, NEW v \in Worker \cup {Main}, NEW p \in Place,
         at[v] # "asleep", Signal(v, p)
  PROVE  /\ Moved(v, p)
         /\ (\E w \in Worker : at[w] = "asleep") => \E w \in Worker : at'[w] = "woken"
<1>1. /\ at'[v] = p
      /\ \A u \in Caller \ {v} :
               at'[u] = at[u] \/ (at[u] = "asleep" /\ at'[u] = "woken")
      /\ (\E w \in Thread : at[w] = "asleep")
               => \E w \in Thread : at[w] = "asleep" /\ at'[w] = "woken"
  BY SignalEffect DEF TypeOK
<1>2. \A w \in Thread : at[w] = "asleep" => w \in Worker
  BY DEF Flat
<1> QED
  BY <1>1, <1>2 DEF Moved

\* While one thread holds the lock, the others are out of the critical places.
LEMMA OneCritical ==
  ASSUME Flat, NEW v \in Caller, at[v] \in Critical,
         NEW u \in Caller \ {v}
  PROVE  at[u] \notin Critical
BY DEF Flat, LockDiscipline

LEMMA FreeLock ==
  ASSUME Flat, m = NoThread, NEW u \in Caller
  PROVE  at[u] \notin Critical
BY ThreadAssumption DEF Flat, LockDiscipline

\* Once @finished is set and a worker has ended, no other one goes to wait.
LEMMA EndedLastStep ==
  TypeOK /\ Flat /\ EndedLast /\ [QNext]_qvars => EndedLast'
<1> USE DEF EndedLast
<1> SUFFICES ASSUME TypeOK, Flat, EndedLast, [QNext]_qvars PROVE EndedLast'
  OBVIOUS
<1> USE ThreadAssumption
<1>1. CASE PushEnter(Main)
  BY <1>1 DEF PushEnter, TypeOK
<1>2. ASSUME NEW j \in Task, PushTask(Main, j) PROVE EndedLast'
  BY <1>2 DEF PushTask
<1>3. CASE PushLeave(Main)
  <2>1. Moved(Main, "out")
    BY <1>3, WorkerSignal DEF PushLeave, Place
  <2> QED
    BY <1>3, <2>1 DEF PushLeave, Moved
<1>4. CASE FinishSet(Main)
  BY <1>4 DEF FinishSet, TypeOK
<1>5. CASE FinishSignal(Main)
  <2>1. Moved(Main, "out")
    BY <1>5, WorkerSignal DEF FinishSignal, Place
  <2> QED
    BY <1>5, <2>1 DEF FinishSignal, Moved
<1>6. ASSUME NEW t \in Worker, Stop(t) PROVE EndedLast'
  <2>1. \A u \in Worker : at[u] # "wait"
    BY <1>6, FreeLock DEF Stop, Critical
  <2>2. Moved(t, "ended")
    BY <1>6, WorkerSignal DEF Stop, Place
  <2> QED
    BY <1>6, <2>1, <2>2 DEF Stop, Moved
<1>7. ASSUME NEW t \in Worker, PopEnter(t) PROVE EndedLast'
  BY <1>7 DEF PopEnter, TypeOK
<1>8. ASSUME NEW t \in Worker, PopTest(t) PROVE EndedLast'
  BY <1>8 DEF PopTest, Flat, TypeOK
<1>9. ASSUME NEW t \in Worker, PopFinished(t) PROVE EndedLast'
  <2>1. \A u \in Worker : at[u] # "wait"
    BY <1>9, OneCritical DEF PopFinished, Critical
  <2>2. Moved(t, "ended")
    BY <1>9, WorkerSignal DEF PopFinished, Place
  <2> QED
    BY <1>9, <2>1, <2>2 DEF PopFinished, Moved
<1>10. ASSUME NEW t \in Worker, PopReturn(t) PROVE EndedLast'
  <2>1. Moved(t, "out")
    BY <1>10, WorkerSignal DEF PopReturn, Place
  <2> QED
    BY <1>10, <2>1 DEF PopReturn, Moved
<1>11. ASSUME NEW t \in Worker, PopSkip(t) PROVE EndedLast'
  <2>1. Moved(t, "wait")
    BY <1>11, WorkerSignal DEF PopSkip, Place
  <2> QED
    BY <1>11, <2>1 DEF PopSkip, Moved
<1>12. ASSUME NEW t \in Worker, PopEmpty(t) PROVE EndedLast'
  BY <1>12 DEF PopEmpty, TypeOK
<1>13. ASSUME NEW t \in Worker, PopWait(t) PROVE EndedLast'
  BY <1>13 DEF PopWait, TypeOK
<1>14. CASE UNCHANGED qvars
  BY <1>14 DEF qvars
<1> QED
  BY <1>1, <1>2, <1>3, <1>4, <1>5, <1>6, <1>7, <1>8, <1>9, <1>10, <1>11,
     <1>12, <1>13, <1>14 DEF QNext, MainNext, Pop

(* A worker ends only once @finished is set, and from then on no worker goes *)
(* to wait: the test of @finished and the call of @cv.wait are in one        *)
(* critical section.                                                         *)
THEOREM EndedLastInvariant == QSpec => []EndedLast
<1> USE DEF EndedLast
<1>1. QInit => EndedLast
  BY ThreadAssumption DEF QInit
<1>2. TypeOK /\ Flat /\ EndedLast /\ [QNext]_qvars => EndedLast'
  BY EndedLastStep
<1> QED
  BY <1>1, <1>2, TypeCorrect, Locking, PTL DEF QSpec

-----------------------------------------------------------------------------
(* No task is forgotten and no worker is left behind.                       *)

\* A worker that neither waits, nor has ended, nor holds the lock is on its way.
LEMMA OnTheWay ==
  ASSUME TypeOK, Flat, NEW u \in Worker, at[u] \notin Critical,
         at[u] # "asleep", at[u] # "ended"
  PROVE  at[u] \in {"out", "woken"}
<1>1. at[u] \in Place
  BY DEF TypeOK
<1> QED
  BY <1>1 DEF Place, Flat, Critical

\* A signal that is used up by one worker is passed on, or finds another awake.
LEMMA NotAllAsleepStep ==
  TypeOK /\ Flat /\ EndedLast /\ NotAllAsleep /\ [QNext]_qvars => NotAllAsleep'
<1> USE DEF NotAllAsleep, Awake
<1> SUFFICES ASSUME TypeOK, Flat, EndedLast, NotAllAsleep, [QNext]_qvars,
                    ~IsEmpty(q'), ~finished'
             PROVE  (\E t \in Worker : at'[t] \in Awake) \/ at'[Main] = "push"
  BY DEF IsEmpty
<1> USE ThreadAssumption
<1> DEFINE Up == (\E t \in Worker : at'[t] \in Awake) \/ at'[Main] = "push"
<1>0. \A u \in Worker : ~finished => at[u] # "ended"
  BY DEF EndedLast
<1>1. CASE PushEnter(Main)
  BY <1>1 DEF PushEnter, TypeOK
<1>2. ASSUME NEW j \in Task, PushTask(Main, j) PROVE Up
  BY <1>2 DEF PushTask
<1>3. CASE PushLeave(Main)
  <2>1. /\ Moved(Main, "out") /\ ~finished
        /\ (\E w \in Worker : at[w] = "asleep") => \E w \in Worker : at'[w] = "woken"
    BY <1>3, WorkerSignal DEF PushLeave, Place
  <2>2. \A u \in Worker : at[u] \notin Critical
    BY <1>3, OneCritical DEF PushLeave, Critical
  <2>3. PICK u \in Worker : TRUE
    OBVIOUS
  <2>4. CASE at[u] = "asleep"
    BY <2>1, <2>4
  <2>5. CASE at[u] # "asleep"
    <3>1. at[u] \in {"out", "woken"}
      BY <1>0, <2>1, <2>2, <2>5, OnTheWay
    <3> QED
      BY <2>1, <3>1 DEF Moved
  <2> QED
    BY <2>4, <2>5
<1>4. CASE FinishSet(Main)
  BY <1>4 DEF FinishSet
<1>5. CASE FinishSignal(Main)
  <2>1. Moved(Main, "out")
    BY <1>5, WorkerSignal DEF FinishSignal, Place
  <2> QED
    BY <1>5, <2>1 DEF FinishSignal, Moved
<1>6. ASSUME NEW t \in Worker, Stop(t) PROVE Up
  BY <1>6 DEF Stop
<1>7. ASSUME NEW t \in Worker, PopEnter(t) PROVE Up
  BY <1>7 DEF PopEnter, TypeOK
<1>8. ASSUME NEW t \in Worker, PopTest(t) PROVE Up
  BY <1>8 DEF PopTest, Flat, TypeOK
<1>9. ASSUME NEW t \in Worker, PopFinished(t) PROVE Up
  BY <1>9 DEF PopFinished
<1>10. ASSUME NEW t \in Worker, PopReturn(t) PROVE Up
  <2>1. Moved(t, "out")
    BY <1>10, WorkerSignal DEF PopReturn, Place
  <2> QED
    BY <2>1 DEF Moved
<1>11. ASSUME NEW t \in Worker, PopSkip(t) PROVE Up
  <2>1. /\ Moved(t, "wait") /\ ~finished
        /\ (\E w \in Worker : at[w] = "asleep") => \E w \in Worker : at'[w] = "woken"
    BY <1>11, WorkerSignal DEF PopSkip, Place
  <2>2. PICK u \in Worker : q[HostOf[u]] # <<>>
    BY <1>11 DEF PopSkip, IsEmpty
  <2>3. u # t /\ at[u] \notin Critical
    BY <1>11, <2>2, OneCritical DEF PopSkip, Critical
  <2>4. CASE at[u] = "asleep"
    BY <2>1, <2>4
  <2>5. CASE at[u] # "asleep"
    <3>1. at[u] \in {"out", "woken"}
      BY <1>0, <2>1, <2>3, <2>5, OnTheWay
    <3> QED
      BY <2>1, <2>3, <3>1 DEF Moved
  <2> QED
    BY <2>4, <2>5
<1>12. ASSUME NEW t \in Worker, PopEmpty(t) PROVE Up
  BY <1>12 DEF PopEmpty
<1>13. ASSUME NEW t \in Worker, PopWait(t) PROVE Up
  BY <1>13 DEF PopWait, TypeOK
<1>14. CASE UNCHANGED qvars
  BY <1>14 DEF qvars
<1> QED
  BY <1>1, <1>2, <1>3, <1>4, <1>5, <1>6, <1>7, <1>8, <1>9, <1>10, <1>11,
     <1>12, <1>13, <1>14 DEF QNext, MainNext, Pop

(* While a task is queued and the queue is not finished, some worker is     *)
(* awake: a push that signals once for many tasks, and workers that go back *)
(* to sleep because the task is another host's, never leave it to nobody.   *)
THEOREM TasksNotForgotten == QSpec => []NotAllAsleep
<1> USE DEF NotAllAsleep, Awake
<1>1. QInit => NotAllAsleep
  BY DEF QInit, EmptyLists, IsEmpty
<1>2. TypeOK /\ Flat /\ EndedLast /\ NotAllAsleep /\ [QNext]_qvars => NotAllAsleep'
  BY NotAllAsleepStep
<1> QED
  BY <1>1, <1>2, TypeCorrect, Locking, EndedLastInvariant, PTL DEF QSpec

(* With at least two workers the signal of finish, which is sent without    *)
(* the lock, is never lost for good: while a worker waits, another one is   *)
(* still to see @finished and to signal again.                              *)
THEOREM FinishReachesAll ==
  ASSUME TwoWorkers
  PROVE  QSpec => []NoStrandedWorker
<1> USE DEF NoStrandedWorker, Awake
<1>1. QInit => NoStrandedWorker
  BY DEF QInit
<1>2. TypeOK /\ Flat /\ EndedLast /\ NoStrandedWorker /\ [QNext]_qvars
        => NoStrandedWorker'
  <2> SUFFICES ASSUME TypeOK, Flat, EndedLast, NoStrandedWorker, [QNext]_qvars,
                      finished', \E t \in Worker : at'[t] \in {"wait", "asleep"}
               PROVE  (\E t \in Worker : at'[t] \in Awake) \/ at'[Main] = "fin"
    OBVIOUS
  <2> USE ThreadAssumption
  <2> DEFINE Up == (\E t \in Worker : at'[t] \in Awake) \/ at'[Main] = "fin"
  <2>1. CASE PushEnter(Main)
    BY <2>1 DEF PushEnter, TypeOK
  <2>2. ASSUME NEW j \in Task, PushTask(Main, j) PROVE Up
    BY <2>2 DEF PushTask
  <2>3. CASE PushLeave(Main)
    <3>1. Moved(Main, "out")
      BY <2>3, WorkerSignal DEF PushLeave, Place
    <3> QED
      BY <2>3, <3>1 DEF PushLeave, Moved
  <2>4. CASE FinishSet(Main)
    BY <2>4 DEF FinishSet, TypeOK
  <2>5. CASE FinishSignal(Main)
    <3>1. /\ Moved(Main, "out")
          /\ (\E w \in Worker : at[w] = "asleep") => \E w \in Worker : at'[w] = "woken"
      BY <2>5, WorkerSignal DEF FinishSignal, Place
    <3>2. CASE \E w \in Worker : at[w] = "asleep"
      BY <3>1, <3>2
    <3>3. CASE ~\E w \in Worker : at[w] = "asleep"
      <4>1. PICK t \in Worker : at[t] = "wait"
        BY <3>1, <3>3 DEF Moved
      <4>2. PICK u \in Worker : u # t
        BY DEF TwoWorkers
      <4>3. at[u] # "ended" /\ at[u] \notin Critical
        BY <4>1, <4>2, OneCritical DEF EndedLast, Critical
      <4>4. at[u] \in {"out", "woken"}
        BY <3>3, <4>3, OnTheWay
      <4> QED
        BY <3>1, <4>4 DEF Moved
    <3> QED
      BY <3>2, <3>3
  <2>6. ASSUME NEW t \in Worker, Stop(t) PROVE Up
    <3>1. /\ Moved(t, "ended")
          /\ (\E w \in Worker : at[w] = "asleep") => \E w \in Worker : at'[w] = "woken"
      BY <2>6, WorkerSignal DEF Stop, Place
    <3>2. \A u \in Worker : at[u] # "wait"
      BY <2>6, FreeLock DEF Stop, Critical
    <3> QED
      BY <3>1, <3>2 DEF Moved
  <2>7. ASSUME NEW t \in Worker, PopEnter(t) PROVE Up
    BY <2>7 DEF PopEnter, TypeOK
  <2>8. ASSUME NEW t \in Worker, PopTest(t) PROVE Up
    BY <2>8 DEF PopTest, Flat, TypeOK
  <2>9. ASSUME NEW t \in Worker, PopFinished(t) PROVE Up
    <3>1. /\ Moved(t, "ended")
          /\ (\E w \in Worker : at[w] = "asleep") => \E w \in Worker : at'[w] = "woken"
      BY <2>9, WorkerSignal DEF PopFinished, Place
    <3>2. \A u \in Worker : at[u] # "wait"
      BY <2>9, OneCritical DEF PopFinished, Critical
    <3> QED
      BY <3>1, <3>2 DEF Moved
  <2>10. ASSUME NEW t \in Worker, PopReturn(t) PROVE Up
    BY <2>10 DEF PopReturn
  <2>11. ASSUME NEW t \in Worker, PopSkip(t) PROVE Up
    BY <2>11 DEF PopSkip
  <2>12. ASSUME NEW t \in Worker, PopEmpty(t) PROVE Up
    BY <2>12 DEF PopEmpty
  <2>13. ASSUME NEW t \in Worker, PopWait(t) PROVE Up
    BY <2>13 DEF PopWait, TypeOK
  <2>14. CASE UNCHANGED qvars
    BY <2>14 DEF qvars
  <2> QED
    BY <2>1, <2>2, <2>3, <2>4, <2>5, <2>6, <2>7, <2>8, <2>9, <2>10, <2>11,
       <2>12, <2>13, <2>14 DEF QNext, MainNext, Pop
<1> QED
  BY <1>1, <1>2, TypeCorrect, Locking, EndedLastInvariant, PTL DEF QSpec

-----------------------------------------------------------------------------
(* One list.                                                                *)

\* The strengthening: a worker about to wait has seen the only list empty, and
\* in QSpec the one that looks is a worker, the one that pushes is main.
IdleInv ==
  /\ OneList /\ (\E t \in Worker : at[t] = "wait") => IsEmpty(q)
  /\ OneList /\ ~IsEmpty(q) /\ ~finished /\ Waiters # {} =>
        \/ \E t \in Worker : at[t] \in {"woken", "test", "scan"}
        \/ at[Main] = "push"

\* With one list, a worker that is woken has still to look at it.
LEMMA IdleStep ==
  TypeOK /\ Flat /\ IdleInv /\ [QNext]_qvars => IdleInv'
<1> SUFFICES ASSUME TypeOK, Flat, IdleInv, [QNext]_qvars PROVE IdleInv'
  OBVIOUS
<1>f. \A w \in Thread : at'[w] = "asleep" => w \in Worker
  BY FlatStep DEF Flat
<1> SUFFICES ASSUME OneList, ~IsEmpty(q')
             PROVE  /\ ~\E t \in Worker : at'[t] = "wait"
                    /\ ~finished' /\ (\E w \in Worker : at'[w] = "asleep") =>
                          \/ \E t \in Worker : at'[t] \in {"woken", "test", "scan"}
                          \/ at'[Main] = "push"
  BY <1>f DEF IdleInv, IsEmpty, OneList, Waiters
<1> USE ThreadAssumption
<1> DEFINE Look == \/ \E t \in Worker : at'[t] \in {"woken", "test", "scan"}
                   \/ at'[Main] = "push"
           Good == /\ ~\E t \in Worker : at'[t] = "wait"
                   /\ ~finished' /\ (\E w \in Worker : at'[w] = "asleep") => Look
<1>0. /\ ~IsEmpty(q) => ~\E t \in Worker : at[t] = "wait"
      /\ ~IsEmpty(q) /\ ~finished /\ (\E w \in Worker : at[w] = "asleep") =>
            \/ \E t \in Worker : at[t] \in {"woken", "test", "scan"}
            \/ at[Main] = "push"
  BY DEF IdleInv, Waiters
<1>1. CASE PushEnter(Main)
  BY <1>0, <1>1 DEF PushEnter, TypeOK
<1>2. ASSUME NEW j \in Task, PushTask(Main, j) PROVE Good
  <2>1. \A u \in Worker : at[u] # "wait"
    BY <1>2, OneCritical DEF PushTask, Critical
  <2> QED
    BY <1>2, <2>1 DEF PushTask
<1>3. CASE PushLeave(Main)
  <2>1. /\ Moved(Main, "out")
        /\ (\E w \in Worker : at[w] = "asleep") => \E w \in Worker : at'[w] = "woken"
    BY <1>3, WorkerSignal DEF PushLeave, Place
  <2> QED
    BY <1>0, <1>3, <2>1 DEF PushLeave, Moved
<1>4. CASE FinishSet(Main)
  BY <1>0, <1>4 DEF FinishSet, TypeOK
<1>5. CASE FinishSignal(Main)
  <2>1. Moved(Main, "out")
    BY <1>5, WorkerSignal DEF FinishSignal, Place
  <2> QED
    BY <1>0, <1>5, <2>1 DEF FinishSignal, Moved
<1>6. ASSUME NEW t \in Worker, Stop(t) PROVE Good
  BY <1>6 DEF Stop, IsEmpty, EmptyLists
<1>7. ASSUME NEW t \in Worker, PopEnter(t) PROVE Good
  BY <1>0, <1>7 DEF PopEnter, TypeOK
<1>8. ASSUME NEW t \in Worker, PopTest(t) PROVE Good
  BY <1>0, <1>8 DEF PopTest, Flat, TypeOK
<1>9. ASSUME NEW t \in Worker, PopFinished(t) PROVE Good
  <2>1. Moved(t, "ended")
    BY <1>9, WorkerSignal DEF PopFinished, Place
  <2> QED
    BY <1>0, <1>9, <2>1 DEF PopFinished, Moved
<1>10. ASSUME NEW t \in Worker, PopReturn(t) PROVE Good
  <2>1. /\ Moved(t, "out")
        /\ (\E w \in Worker : at[w] = "asleep") => \E w \in Worker : at'[w] = "woken"
    BY <1>10, WorkerSignal DEF PopReturn, Place
  <2>2. \A u \in Worker : at[u] # "wait"
    BY <1>10, OneCritical DEF PopReturn, Critical
  <2> QED
    BY <2>1, <2>2 DEF Moved
<1>11. ASSUME NEW t \in Worker, PopSkip(t) PROVE Good
  BY <1>11 DEF PopSkip, IsEmpty, OneList
<1>12. ASSUME NEW t \in Worker, PopEmpty(t) PROVE Good
  BY <1>12 DEF PopEmpty
<1>13. ASSUME NEW t \in Worker, PopWait(t) PROVE Good
  BY <1>0, <1>13 DEF PopWait
<1>14. CASE UNCHANGED qvars
  BY <1>0, <1>14 DEF qvars
<1> QED
  BY <1>1, <1>2, <1>3, <1>4, <1>5, <1>6, <1>7, <1>8, <1>9, <1>10, <1>11,
     <1>12, <1>13, <1>14 DEF QNext, MainNext, Pop

LEMMA IdleEnough == IdleInv => NoIdleWorker
BY ThreadAssumption DEF IdleInv, NoIdleWorker, Thread, Caller

\* At the start nothing is queued and nobody has ended.
LEMMA WakingInit == QInit => EndedLast /\ NotAllAsleep /\ IdleInv
BY ThreadAssumption
   DEF QInit, EmptyLists, IsEmpty, EndedLast, NotAllAsleep, IdleInv

(* With SimpleQueue, a queued task and a sleeping worker never wait for     *)
(* each other: a worker that was woken has still to look at the list.       *)
THEOREM NoTaskWaitsForIdle == QSpec => []NoIdleWorker
<1>1. TypeOK /\ Flat /\ IdleInv /\ [QNext]_qvars => IdleInv'
  BY IdleStep
<1> QED
  BY <1>1, WakingInit, IdleEnough, TypeCorrect, Locking, PTL DEF QSpec

-----------------------------------------------------------------------------
(* What the lists hold: a task once per list and, when it has one host, in  *)
(* one list; hence no task is handed out twice.                             *)

(* The operators on one list. *)

\* Append, the push of Array: one more element, once if it was not there.
LEMMA AppendHolds ==
  ASSUME NEW s \in Seq(Task), NEW j \in Task, NoTwice(s), ~In(j, s)
  PROVE  /\ NoTwice(Append(s, j))
         /\ \A x : In(x, Append(s, j)) => In(x, s) \/ x = j
<1> DEFINE r == Append(s, j)
<1>1. /\ Len(r) = Len(s) + 1
      /\ \A i \in 1..Len(s) : r[i] = s[i]
      /\ r[Len(s) + 1] = j
  BY AppendProperties
<1>2. \A i \in 1..Len(r) : i \in 1..Len(s) \/ i = Len(s) + 1
  BY <1>1
<1>3. \A i \in 1..Len(s) : s[i] # j
  BY DEF In
<1> HIDE DEF r
<1>4. NoTwice(r)
  BY <1>1, <1>2, <1>3 DEF NoTwice
<1>5. \A x : In(x, r) => In(x, s) \/ x = j
  BY <1>1, <1>2 DEF In
<1> QED
  BY <1>4, <1>5 DEF r

\* Tail, the shift of Array: the first element was there once and is gone.
LEMMA TailHolds ==
  ASSUME NEW s \in Seq(Task), s # <<>>, NoTwice(s)
  PROVE  /\ NoTwice(Tail(s))
         /\ ~In(Head(s), Tail(s))
         /\ \A x : In(x, Tail(s)) => In(x, s)
         /\ In(Head(s), s)
<1> DEFINE r == Tail(s)
<1>1. /\ Len(r) = Len(s) - 1
      /\ \A i \in 1..Len(r) : r[i] = s[i + 1]
      /\ r \in Seq(Task)
  BY HeadTailProperties
<1>2. Head(s) = s[1] /\ Len(s) \in Nat \ {0}
  BY EmptySeq
<1> HIDE DEF r
<1>3. NoTwice(r)
  BY <1>1, <1>2 DEF NoTwice
<1>4. ~In(s[1], r)
  BY <1>1, <1>2 DEF NoTwice, In
<1>5. \A x : In(x, r) => In(x, s)
  BY <1>1, <1>2 DEF In
<1>6. In(s[1], s)
  BY <1>2 DEF In
<1> QED
  BY <1>2, <1>3, <1>4, <1>5, <1>6 DEF r

\* Without, the delete_if of Array: the element is gone and no other is added.
LEMMA WithoutHolds ==
  ASSUME NEW s \in Seq(Task), NEW j, NoTwice(s)
  PROVE  /\ NoTwice(Without(s, j))
         /\ ~In(j, Without(s, j))
         /\ \A x : In(x, Without(s, j)) => In(x, s)
<1>1. CASE ~In(j, s)
  BY <1>1 DEF Without
<1>2. CASE In(j, s)
  <2> DEFINE i == CHOOSE k \in 1..Len(s) : s[k] = j
             a == SubSeq(s, 1, i - 1)
             b == SubSeq(s, i + 1, Len(s))
             r == a \o b
  <2>1. i \in 1..Len(s) /\ s[i] = j
    BY <1>2 DEF In
  <2>2. Without(s, j) = SubSeq(s, 1, i - 1) \o SubSeq(s, i + 1, Len(s))
    BY <1>2 DEF Without
  <2> HIDE DEF i
  <2>3. /\ \A k \in 1..(i - 1) : s[k] \in Task
        /\ \A k \in (i + 1)..Len(s) : s[k] \in Task
    BY <2>1
  <2>4. /\ a \in Seq(Task) /\ Len(a) = i - 1
        /\ \A k \in 1..(i - 1) : a[k] = s[k]
    <3>1. /\ a \in Seq(Task) /\ Len(a) = IF 1 <= i - 1 THEN (i - 1) - 1 + 1 ELSE 0
          /\ \A k \in 1..((i - 1) - 1 + 1) : a[k] = s[1 + k - 1]
      BY <2>1, <2>3, SubSeqProperties
    <3> HIDE DEF a
    <3> QED
      BY <2>1, <3>1
  <2>5. /\ b \in Seq(Task) /\ Len(b) = Len(s) - i
        /\ \A k \in 1..(Len(s) - i) : b[k] = s[i + k]
    <3>1. /\ b \in Seq(Task) /\ Len(b) = IF i + 1 <= Len(s) THEN Len(s) - (i + 1) + 1 ELSE 0
          /\ \A k \in 1..(Len(s) - (i + 1) + 1) : b[k] = s[(i + 1) + k - 1]
      BY <2>1, <2>3, SubSeqProperties
    <3> HIDE DEF b
    <3> QED
      BY <2>1, <3>1
  <2>5a. Without(s, j) = r
    BY <2>2
  <2> HIDE DEF a, b
  <2>6. /\ Len(r) = Len(s) - 1
        /\ \A k \in 1..(Len(s) - 1) : r[k] = IF k < i THEN s[k] ELSE s[k + 1]
    <3>1. /\ Len(r) = Len(a) + Len(b)
          /\ \A k \in 1..(Len(a) + Len(b)) : r[k] = IF k <= Len(a) THEN a[k] ELSE b[k - Len(a)]
      BY <2>4, <2>5, ConcatProperties
    <3>2. Len(r) = Len(s) - 1
      BY <2>1, <2>4, <2>5, <3>1
    <3> HIDE DEF r
    <3>3. ASSUME NEW k \in 1..(Len(s) - 1) PROVE r[k] = IF k < i THEN s[k] ELSE s[k + 1]
      <4>1. CASE k < i
        BY <4>1, <2>1, <2>4, <2>5, <3>1
      <4>2. CASE k >= i
        <5>0. /\ k \in 1..(Len(a) + Len(b)) /\ ~(k <= Len(a))
              /\ k - Len(a) \in 1..(Len(s) - i)
          BY <4>2, <2>1, <2>4, <2>5
        <5>1. r[k] = b[k - Len(a)] /\ k - Len(a) \in 1..(Len(s) - i)
          BY <5>0, <3>1
        <5>2. i + (k - Len(a)) = k + 1 /\ ~(k < i)
          BY <4>2, <2>1, <2>4
        <5>3. b[k - Len(a)] = s[i + (k - Len(a))]
          BY <5>1, <2>5
        <5> QED
          BY <5>1, <5>2, <5>3
      <4> QED
        <5>1. k < i \/ k >= i
          BY <2>1
        <5> QED
          BY <5>1, <4>1, <4>2
    <3> QED
      BY <3>2, <3>3
  <2> HIDE DEF r
  <2>7. NoTwice(r)
    BY <2>1, <2>6 DEF NoTwice
  <2>8. ~In(j, r)
    BY <2>1, <2>6 DEF NoTwice, In
  <2>9. \A x : In(x, r) => In(x, s)
    BY <2>1, <2>6 DEF In
  <2> QED
    BY <2>5a, <2>7, <2>8, <2>9
<1> QED
  BY <1>1, <1>2

-----------------------------------------------------------------------------
(* The operators on all lists. *)

\* HostQueue#push keeps the lists as they should be, for a task that is in none.
LEMMA PushStored ==
  ASSUME q \in [Host -> Seq(Task)], Stored, NEW j \in Task, ~Queued(j),
         NEW S \in Targets(j), q' = PushTo(q, j, S)
  PROVE  /\ Stored'
         /\ \A h \in Host : \A x : In(x, q'[h]) => In(x, q[h]) \/ x = j
<1>1. S \subseteq Locality[j] \/ \E h \in Host : S = {h}
  BY DEF Targets
<1>2. \A h \in Host : q'[h] = IF h \in S THEN Append(q[h], j) ELSE q[h]
  BY DEF PushTo
<1>3. \A h \in Host : NoTwice(q[h]) /\ ~In(j, q[h]) /\ q[h] \in Seq(Task)
  BY DEF Stored, Queued
<1>4. ASSUME NEW h \in Host PROVE NoTwice(q'[h])
  BY <1>2, <1>3, AppendHolds
<1>5. ASSUME NEW h \in Host, NEW x, In(x, q'[h]) PROVE In(x, q[h]) \/ (x = j /\ h \in S)
  BY <1>2, <1>3, <1>5, AppendHolds
<1>6. ASSUME NEW h \in Host, NEW k \in Host, NEW x \in Task, In(x, q'[h]), In(x, q'[k])
      PROVE  h = k \/ {h, k} \subseteq Locality[x]
  <2>1. CASE x = j
    BY <1>1, <1>3, <1>5, <1>6, <2>1
  <2>2. CASE x # j
    BY <1>5, <1>6, <2>2 DEF Stored
  <2> QED
    BY <2>1, <2>2
<1> QED
  BY <1>4, <1>5, <1>6 DEF Stored

\* HostQueue#pop keeps them so, and the task it takes is in none of them any more.
LEMMA PopStored ==
  ASSUME q \in [Host -> Seq(Task)], Stored, NEW h \in Host, q[h] # <<>>, q' = PopFrom(q, h)
  PROVE  /\ Stored' /\ In(Head(q[h]), q[h])
         /\ \A k \in Host : ~In(Head(q[h]), q'[k])
         /\ \A k \in Host : \A x : In(x, q'[k]) => In(x, q[k])
<1> DEFINE j == Head(q[h])
           s == [q EXCEPT ![h] = Tail(@)]
<1>1. /\ j \in Task
      /\ \A k \in Host : NoTwice(q[k]) /\ q[k] \in Seq(Task)
  BY DEF Stored
<1>2. /\ NoTwice(Tail(q[h])) /\ ~In(j, Tail(q[h])) /\ In(j, q[h])
      /\ Tail(q[h]) \in Seq(Task)
      /\ \A x : In(x, Tail(q[h])) => In(x, q[h])
  BY <1>1, TailHolds, HeadTailProperties
<1>3. ASSUME NEW k \in Host
      PROVE  /\ NoTwice(s[k]) /\ s[k] \in Seq(Task)
             /\ \A x : In(x, s[k]) => In(x, q[k])
             /\ In(j, s[k]) => k \in Locality[j]
  <2>1. CASE k = h
    <3>1. s[k] = Tail(q[h])
      BY <2>1
    <3> HIDE DEF s, j
    <3> QED
      BY <1>2, <2>1, <3>1
  <2>2. CASE k # h
    <3>1. s[k] = q[k]
      BY <2>2
    <3>2. In(j, q[k]) => k \in Locality[j]
      <4> HIDE DEF j
      <4> QED
        BY <1>1, <1>2, <2>2 DEF Stored
    <3> HIDE DEF s, j
    <3> QED
      BY <1>1, <3>1, <3>2
  <2> QED
    BY <2>1, <2>2
<1>4. \A k \in Host : q'[k] = IF k \in Locality[j] THEN Without(s[k], j) ELSE s[k]
  BY DEF PopFrom
<1> HIDE DEF s, j
<1>5. ASSUME NEW k \in Host
      PROVE  /\ NoTwice(q'[k]) /\ ~In(j, q'[k])
             /\ \A x : In(x, q'[k]) => In(x, q[k])
  <2>1. CASE k \in Locality[j]
    BY <1>3, <1>4, <2>1, WithoutHolds
  <2>2. CASE k \notin Locality[j]
    BY <1>3, <1>4, <2>2
  <2> QED
    BY <2>1, <2>2
<1>6. Stored'
  BY <1>5 DEF Stored
<1> QED
  BY <1>2, <1>5, <1>6 DEF j

-----------------------------------------------------------------------------
(* The queue. *)

\* A step that changes the lists pushes a task that is in none, takes one, or
\* empties them; and pop is what changes the task a worker has been given.
LEMMA StoredStep ==
  ASSUME TypeOK, Stored, [QNext]_qvars
  PROVE  /\ Stored'
         /\ \A t \in Worker : got'[t] \notin {got[t], None} =>
              ~\E h \in Host : In(got'[t], q'[h])
<1> DEFINE Good == /\ Stored'
                   /\ \A t \in Worker : got'[t] \notin {got[t], None} =>
                        ~\E h \in Host : In(got'[t], q'[h])
<1>1. q \in [Host -> Seq(Task)] /\ got \in [Thread -> Task \cup {None}]
  BY DEF TypeOK
<1>2. ASSUME UNCHANGED <<q, got>> PROVE Good
  BY <1>2 DEF Stored
<1>3. ASSUME NEW j \in Task, ~Queued(j), PushTask(Main, j) PROVE Good
  BY <1>1, <1>3, PushStored DEF PushTask
<1>4. ASSUME NEW t \in Worker, Stop(t) PROVE Good
  <2>1. got' = got /\ \A h \in Host : q'[h] = <<>>
    BY <1>4 DEF Stop, EmptyLists
  <2> QED
    BY <2>1 DEF Stored, NoTwice, In
<1>5. ASSUME NEW t \in Worker, PopEnter(t) PROVE Good
  <2>1. q' = q /\ got' = [got EXCEPT ![t] = None]
    BY <1>5 DEF PopEnter
  <2>2. \A u \in Worker : got'[u] \in {got[u], None}
    BY <1>1, <2>1
  <2> QED
    BY <2>1, <2>2 DEF Stored
<1>6. ASSUME NEW t \in Worker, PopReturn(t) PROVE Good
  <2>1. PICK h \in Host :
          /\ IF q[HostOf[t]] # <<>>
               THEN h = HostOf[t]
               ELSE n[t] > 1 /\ h \in AltHosts(q, HostOf[t])
          /\ q' = PopFrom(q, h)
          /\ got' = [got EXCEPT ![t] = Head(q[h])]
    BY <1>6 DEF PopReturn
  <2>2. q[h] # <<>>
    BY <2>1 DEF AltHosts
  <2>3. Stored' /\ \A k \in Host : ~In(Head(q[h]), q'[k])
    BY <1>1, <2>1, <2>2, PopStored
  <2>4. \A u \in Worker : got'[u] \in {got[u], Head(q[h])}
    BY <1>1, <2>1
  <2> QED
    BY <2>3, <2>4
<1>7. ASSUME NEW t \in Worker,
             PopTest(t) \/ PopFinished(t) \/ PopSkip(t) \/ PopEmpty(t) \/ PopWait(t)
      PROVE  Good
  BY <1>2, <1>7 DEF PopTest, PopFinished, PopSkip, PopEmpty, PopWait
<1>8. ASSUME PushEnter(Main) \/ PushLeave(Main) \/ FinishSet(Main) \/ FinishSignal(Main)
      PROVE  Good
  BY <1>2, <1>8 DEF PushEnter, PushLeave, FinishSet, FinishSignal
<1>9. ASSUME UNCHANGED qvars PROVE Good
  BY <1>2, <1>9 DEF qvars
<1> HIDE DEF Good
<1>10. Good
  BY <1>3, <1>4, <1>5, <1>6, <1>7, <1>8, <1>9 DEF QNext, MainNext, Pop
<1> QED
  BY <1>10 DEF Good

LEMMA StoredInit == QInit => Stored
BY DEF QInit, EmptyLists, Stored, NoTwice, In

(* A list holds a task once, and only a task with several hosts is in several  *)
(* lists, whatever main pushes and whoever pops: what HostQueue#pop relies on  *)
(* when it deletes the task from the lists of its locality only.               *)
THEOREM ListsHoldOnce == QSpec => []Stored
<1>1. TypeOK /\ Stored /\ [QNext]_qvars => Stored'
  BY StoredStep
<1> QED
  BY <1>1, StoredInit, TypeCorrect, PTL DEF QSpec

(* HandedOutOnce: no task is handed to two workers, however many lists of hosts *)
(* it was stored in and whichever of them is stolen from.                       *)
THEOREM TasksHandedOutOnce == QSpec => HandedOutOnce
<1>1. TypeOK /\ Stored /\ [QNext]_qvars =>
        [\A t \in Worker : got'[t] \notin {got[t], None} =>
           ~\E h \in Host : In(got'[t], q'[h])]_qvars
  BY StoredStep
<1> QED
  BY <1>1, TypeCorrect, ListsHoldOnce, PTL DEF QSpec, HandedOutOnce
=============================================================================
