------------------------------ MODULE MCTracer ------------------------------
(* Tracer, either with a single invoker on every graph of small degree, or  *)
(* with two threads in it that invoke and abort at any time.                *)
EXTENDS SoleInvoker

\* Lists of at most MaxPrereqs tasks, without repetition.
MaxPrereqs == 2

Lists == {s \in UNION {[1..k -> Task] : k \in 0..MaxPrereqs} :
            \A i, j \in 1..Len(s) : s[i] = s[j] => i = j}
AllGraphs == [Task -> Lists]

\* Three tasks, one of them reached twice, and a cycle.
FewGraphs == {[j \in Task |-> CASE j = "a" -> <<"b", "c">> [] j = "b" -> <<"c">>
                                [] OTHER -> <<>>],
              [j \in Task |-> CASE j = "a" -> <<"b">> [] j = "b" -> <<"c", "a">>
                                [] OTHER -> <<>>]}

\* The tasks that two threads invoke, or that are marked meanwhile.
Raced == {"a", "b", "c"}

VARIABLE alone

Init == alone \in BOOLEAN /\ TInit /\ (alone \/ prereq \in FewGraphs)

RaceNext == TracerNext /\ invoked' \subseteq Raced
                       /\ (stack' # <<>> => Elements(stack'[1].todo) \subseteq Raced)

Next == UNCHANGED alone /\ ((alone /\ TNext) \/ (~alone /\ RaceNext))

Spec == Init /\ [][Next]_<<alone, tvars>> /\ WF_<<alone, tvars>>(alone /\ TNext /\ UNCHANGED alone)

\* What available_task answers a single invoker is right (AnswerIsRight).
SoleAnswerIsRight == alone => AnswerIsRight

\* The loop of a single invoker comes to its end (TraceEnds).
SoleTraceEnds == alone => TraceEnds
=============================================================================
