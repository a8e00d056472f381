------------------------------ MODULE HostQueue ------------------------------
(***************************************************************************)
(* The task lists a TaskQueue hands tasks out from, as operators on the    *)
(* value of the lists: q[h] is the list of host h.                         *)
(*                                                                         *)
(*   HostQueue   (affinity.rb)  one list per host; a task is stored in the *)
(*               list of every host that holds a replica of its first      *)
(*               prerequisite (its locality), or of one random host.       *)
(*   SimpleQueue (scheduler.rb) one list.  It is the instance of the above *)
(*               with a single host shared by all workers and no locality: *)
(*               push appends, pop shifts, pop_alt is never reached.       *)
(***************************************************************************)
EXTENDS Naturals, Sequences

CONSTANTS Task,
          Host,       \* @hosts: the distinct hosts of the core list
          Locality,   \* Locality[j]: task.locality, set by on_trace
          Domain      \* Domain[h]: the domain part of the host's name

ASSUME HostAssumption ==
  /\ Host # {}
  /\ Locality \in [Task -> SUBSET Host]
  /\ DOMAIN Domain = Host

EmptyLists == [h \in Host |-> <<>>]

\* HostQueue#empty?
IsEmpty(q) == \A h \in Host : q[h] = <<>>

\* Whether j is in the list s.
In(j, s) == \E i \in 1..Len(s) : s[i] = j

\* The sets of lists HostQueue#push may store j in: those of its locality, or
\* that of a host drawn by rand.
Targets(j) == IF Locality[j] # {} THEN {Locality[j]} ELSE {{h} : h \in Host}

\* HostQueue#push, once the lists S are settled.
PushTo(q, j, S) ==
  [h \in Host |-> IF h \in S THEN Append(q[h], j) ELSE q[h]]

\* delete_if{|x| j.equal? x}.  A list holds a task at most once (Stored in
\* TaskQueue), so that one deletion deletes them all.
Without(s, j) ==
  IF In(j, s)
    THEN LET i == CHOOSE k \in 1..Len(s) : s[k] = j
         IN  SubSeq(s, 1, i - 1) \o SubSeq(s, i + 1, Len(s))
    ELSE s

\* Mutant of PopFrom: the other lists keep the task.
PopFromOneList(q, h) == [q EXCEPT ![h] = Tail(@)]

\* What HostQueue#pop leaves when it takes the first task of the list of h: the
\* task is also deleted from the lists it was assigned to.  One that was stored
\* at random is assigned to none.
PopFrom(q, h) ==
  LET j == Head(q[h])
      s == [q EXCEPT ![h] = Tail(@)]
  IN  [k \in Host |-> IF k \in Locality[j] THEN Without(s[k], j) ELSE s[k]]

\* Throughput#interhost, in tenths: 1 within a domain and 0.1 across two.
Interhost(x, y) == IF Domain[x] = Domain[y] THEN 10 ELSE 1

\* HostQueue#pop_alt: the hosts whose list is the best to steal from for a
\* worker of host x, "many and close".  The code takes the first of several.
AltHosts(q, x) ==
  {h \in Host :
     /\ q[h] # <<>>
     /\ \A k \in Host :
          q[k] # <<>> => Interhost(x, k) * Len(q[k]) <= Interhost(x, h) * Len(q[h])}
=============================================================================
