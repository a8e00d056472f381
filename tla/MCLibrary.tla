------------------------------ MODULE MCLibrary ------------------------------
(* The queue of Pwrake's workers, used in every way (QSpec of TaskQueue), and *)
(* parts of libgfarm that one thread uses, each by itself: unit says which of *)
(* them moves.                                                                *)
EXTENDS TaskQueue, GfsPio, ListCall, ReplicaRecv, IdTable, HashTable, Tree

(***************************************************************************)
(* TaskQueue as a HostQueue: three hosts in two domains, a task with two   *)
(* replicas, one with one, and one without locality.                       *)
(***************************************************************************)
MCLocality == "j1" :> {"h1", "h2"} @@ "j2" :> {"h3"} @@ "j3" :> {}
MCHostOf   == "w1" :> "h1" @@ "w2" :> "h2" @@ "w3" :> "h3"
MCDomain   == "h1" :> "a" @@ "h2" :> "a" @@ "h3" :> "b"

(***************************************************************************)
(* GfsPio: an empty file and one of three bytes that begins with an empty  *)
(* paragraph (n is a newline), in every way to open it, with a buffer of   *)
(* two bytes.                                                              *)
(***************************************************************************)
MCFiles  == {<<>>, <<"n", "n", "x">>}
MCModes  == {[rd |-> TRUE, wr |-> TRUE, unbuf |-> u] : u \in BOOLEAN}
            \cup {[rd |-> TRUE, wr |-> FALSE, unbuf |-> FALSE],
                  [rd |-> FALSE, wr |-> TRUE, unbuf |-> FALSE]}
MCData   == {<<>>, <<"x">>, <<"n">>, <<"x", "n">>}
MCDelims == {<<"x">>}

(***************************************************************************)
(* ListCall: any call, and after it one of few fields or one with lists of *)
(* lists.                                                                  *)
(***************************************************************************)
MCFirstCalls  == DOMAIN PlainCalls \cup DOMAIN Entry \cup {UsersOp, NamesByUsers, ByArchitecture}
MCSecondCalls == {"statfs", "group_info_get_by_names"}

\* ReplicaRecv.
MCRecordSizes == {<<>>, <<1>>, <<2, 1>>, <<1, 2>>, <<3, 1>>}

\* HashTable: a and A are one key; a, c and d share a bucket, and another is empty.
MCFold     == [k \in HKeys |-> IF k = "A" THEN "a" ELSE k]
MCBucketOf == [k \in {"a", "b", "c", "d"} |-> IF k = "b" THEN 2 ELSE 0]

(***************************************************************************)
(* One of them                                                             *)
(***************************************************************************)
VARIABLE unit

allvars == <<unit, qvars, pvars, lcvars, rrvars, idvars, htvars, treevars>>

\* The others are in one of their initial states.
Init ==
  /\ unit \in {"queue", "pio", "list", "replica", "id", "hash", "tree"}
  /\ QInit
  /\ PInit /\ (unit # "pio" => node.file = <<>> /\ ~gf.wr)
  /\ ListInit
  /\ ReplicaInit /\ (unit # "replica" => rr.sizes = <<>> /\ stream = <<>>)
  /\ IdInit /\ HashInit
  /\ TreeInit /\ (unit # "tree" => tree.kind = "rb")

Alone(u, A, others) == unit = u /\ A /\ UNCHANGED <<unit, others>>

Next == \/ Alone("queue",   QNext,       <<pvars, lcvars, rrvars, idvars, htvars, treevars>>)
        \/ Alone("pio",     PNext,       <<qvars, lcvars, rrvars, idvars, htvars, treevars>>)
        \/ Alone("list",    ListNext,    <<qvars, pvars, rrvars, idvars, htvars, treevars>>)
        \/ Alone("replica", ReplicaNext, <<qvars, pvars, lcvars, idvars, htvars, treevars>>)
        \/ Alone("id",      IdNext,      <<qvars, pvars, lcvars, rrvars, htvars, treevars>>)
        \/ Alone("hash",    HashNext,    <<qvars, pvars, lcvars, rrvars, idvars, treevars>>)
        \/ Alone("tree",    TreeNext,    <<qvars, pvars, lcvars, rrvars, idvars, htvars>>)

Spec == Init /\ [][Next]_allvars

\* The containers keep what was put into them: a number leads to the data it was given for,
\* a key to its one entry, an element to its place in the order, through every reuse of a
\* number, every rotation of a tree and every loop over a table that takes entries out.
ContainersRight == IdsRight /\ HashRight /\ TreeRight

\* What a call of gfs_pio.c does depends on no earlier result; a step's result is checked on
\* every step.
View == <<unit, qvars, gf, node, lcvars, rrvars, idvars, htvars, treevars>>
=============================================================================
