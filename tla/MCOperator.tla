----------------------------- MODULE MCOperator -----------------------------
(* Operator on small workflows.                                             *)
EXTENDS Operator, TLC

\* One list (SimpleQueue), no locality.
SimpleLocality == [j \in Task |-> {}]
SimpleHostOf   == [t \in Thread |-> "h1"]
SimpleDomain   == "h1" :> "a"

TwoInOrder == <<"w1", "w2">>
ThreeInOrder == <<"w1", "w2", "w3">>
OneWorker  == <<"w1">>

NoSub == [j \in Task |-> <<>>]

\* One target, a.
OneTarget == <<[root |-> "a", top |-> TRUE]>>

\* Something the Rakefile invokes when it is loaded, then a target.
LoadThenTarget == <<[root |-> "c", top |-> FALSE], [root |-> "a", top |-> TRUE]>>

\* Every workflow of four tasks without cycle (a before b before c before d
\* is an order of each of them).
Order == <<"a", "b", "c", "d">>
Rank  == "a" :> 1 @@ "b" :> 2 @@ "c" :> 3 @@ "d" :> 4
Above(j, S) == SelectSeq(Order, LAMBDA i : i \in S /\ Rank[i] > Rank[j])
AllDags == {[j \in Task |-> Above(j, s[j])] : s \in [Task -> SUBSET Task]}

\* A diamond, a fork, a chain with a shortcut, and a cycle behind a task that can run;
\* and a target that needs e, whose action invokes b, which depends on d, and x.  In
\* Sharing the target itself needs d as well, which two invokes then are about.
Diamond == "a" :> <<"b", "c">> @@ "b" :> <<"d">> @@ "c" :> <<"d">> @@ "d" :> <<>>
Fork    == "a" :> <<"b", "c", "d">> @@ "b" :> <<>> @@ "c" :> <<>> @@ "d" :> <<>>
Ladder  == "a" :> <<"b", "c">> @@ "b" :> <<"c", "d">> @@ "c" :> <<>> @@ "d" :> <<>>
Cyclic  == "a" :> <<"c", "b">> @@ "b" :> <<"d">> @@ "c" :> <<>> @@ "d" :> <<"b">>
Nesting == "a" :> <<"e", "x">> @@ "b" :> <<"d">> @@ "c" :> <<>> @@ "d" :> <<>>
Sharing == "a" :> <<"e", "d">> @@ "b" :> <<"d">> @@ "c" :> <<>> @@ "d" :> <<>>
Others  == "e" :> <<>> @@ "x" :> <<>>
FailGraphs == {g @@ Others : g \in {Diamond, Fork, Ladder, Cyclic, Nesting, Sharing}}
SubOfE == [j \in Task |-> IF j = "e" THEN <<"b">> ELSE <<>>]

\* HostQueue with two hosts.
TwoHostsLocality == "a" :> {} @@ "b" :> {"h1"} @@ "c" :> {"h1", "h2"} @@ "d" :> {"h2"}
TwoHostsHostOf   == "w1" :> "h1" @@ "w2" :> "h2"
TwoHostsDomain   == "h1" :> "a" @@ "h2" :> "b"

\* The actions of b and c invoke d and x, and x depends on d.
RaceGraphs == {"a" :> <<"b", "c">> @@ "b" :> <<>> @@ "c" :> <<>> @@
               "d" :> <<>> @@ "x" :> <<"d">>}
RaceSub == [j \in Task |-> CASE j = "b" -> <<"d">> [] j = "c" -> <<"x">>
                             [] OTHER -> <<>>]

\* Two targets that depend on nothing.
TwoTargets  == <<[root |-> "a", top |-> TRUE], [root |-> "b", top |-> TRUE]>>
TwoTasks    == {"a" :> <<>> @@ "b" :> <<>>}
=============================================================================
