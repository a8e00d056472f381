------------------------------ MODULE ListCall -------------------------------
(* The calls over one connection of gfm_client.c and gfs_client.c, above all *)
(* those that read a list: the number of its entries comes with the result   *)
(* and the entries after it, each read by a gfp_xdr_recv of its own, and an  *)
(* allocation may fail in between.  Nothing marks where a reply ends: a call *)
(* that reads less of it than there is leaves the rest to the next call.     *)
EXTENDS Protocol

CONSTANTS FirstCalls,   \* the calls that may come first,
          SecondCalls,  \* and second, on the same connection
          MaxList,      \* bound: entries of a list, names asked for, records of a file
          MaxNoRoom     \* bound: allocations, and writes to the local file, that fail

VARIABLES lc,     \* the call: its number and name, the steps it has still to do, its result
          reply,  \* what the server has sent and the client has not read
          link,   \* the connection: is it lost after reply, is it cached
          past    \* history: the calls that ran out of memory, or never read what was announced;
                  \* fields read as what they are not; entries announced and read

lcvars == <<lc, reply, link, past>>

(***************************************************************************)
(* The calls                                                               *)
(***************************************************************************)
\* A list whose array the call allocates: gfm_client_host_info_get_all and its like,
\* gfm_client_get_schedule_result, gfm_client_replica_list_by_name_result, ...
InfoLists     == [host_info_get_all |-> HostEntry, user_info_get_all |-> UserEntry,
                  group_info_get_all |-> GroupEntry]
ScheduleLists == [schedule_file |-> ScheduleEntry]
ReplicaLists  == [replica_list_by_name |-> <<"s">>, replica_list_by_host |-> <<"l">>]

\* A list into an array of the caller.
DirLists == [getdirents |-> DirEntry, getdirentsplus |-> DirPlusEntry]
XmlLists == [findxmlattr |-> XmlAttrEntry]

\* For each of the names that were sent, an error or an entry.
HostsByName  == [host_info_get_by_names |-> HostEntry]
UsersByName  == [user_info_get_by_names |-> UserEntry]
GroupsByName == [group_info_get_by_names |-> GroupEntry]

Allocated == InfoLists @@ ScheduleLists @@ ReplicaLists
Lists     == Allocated @@ DirLists @@ XmlLists
ByName    == HostsByName @@ UsersByName @@ GroupsByName
Entry     == Lists @@ ByName

\* A group has a list of its users, which is allocated.
Groups == {"group_info_get_all", "group_info_get_by_names"}

\* gfm_client_group_info_users_op_common: an error code for each user.
UsersOp == "group_info_users_op"

\* gfm_client_group_names_get_by_users: the names of the groups of each user.
NamesByUsers == "group_names_get_by_users"

\* gfm_client_host_info_get_by_architecture: the hosts are announced, but not read.
ByArchitecture == "host_info_get_by_architecture"

AskNames == DOMAIN ByName \cup {UsersOp, NamesByUsers}

\* The fields of the result before the list, if any; the last is the length of the list.
HeadOf(c) == IF c \in DOMAIN PlainCalls THEN PlainCalls[c].reads
             ELSE IF c \in DOMAIN XmlLists THEN <<"i", "i">>
             ELSE IF c \in AskNames THEN <<>>
             ELSE <<"i">>

(***************************************************************************)
(* The reply of the server to call n of the client                         *)
(***************************************************************************)
Field(f, v, n) == [f |-> f, v |-> v, by |-> n]

\* The fields of a format, the last being the number v.
Fields(fs, v, n) == [k \in 1..Len(fs) |-> Field(fs[k], IF k = Len(fs) THEN v ELSE 0, n)]

OkReply(n)  == <<Field("i", 0, n)>>
BadReply(n) == <<Field("i", 1, n)>>

Concat(ss) == FoldRight(LAMBDA s, t : s \o t, ss, <<>>)

\* An entry, of a group with m users.
EntryReply(c, m, n) ==
  Fields(Entry[c], m, n) \o IF c \in Groups THEN [k \in 1..m |-> Field("s", 0, n)] ELSE <<>>

\* What is said about one name.
NameReply(c, m, bad, n) ==
  IF bad THEN BadReply(n)
  ELSE OkReply(n) \o CASE c = UsersOp -> <<>>
                  [] c = NamesByUsers -> <<Field("i", m, n)>> \o [k \in 1..m |-> Field("s", 0, n)]
                  [] OTHER -> EntryReply(c, m, n)

\* The reply about s, which gives the users of each entry and whether a name is bad.
Full(c, s, n) ==
  OkReply(n) \o Fields(HeadOf(c), Len(s), n)
    \o CASE c \in DOMAIN PlainCalls -> <<>>
         [] c = ByArchitecture -> Concat([k \in 1..Len(s) |-> EntryReply("host_info_get_all", 0, n)])
         [] c \in DOMAIN Lists -> Concat([k \in 1..Len(s) |-> EntryReply(c, s[k].users, n)])
         [] c \in AskNames -> Concat([k \in 1..Len(s) |-> NameReply(c, s[k].users, s[k].bad, n)])

\* What there may be to say.
Said(c) == IF c \in DOMAIN PlainCalls THEN {<<>>}
           ELSE UNION {[1..k -> [users : IF c \in Groups \cup {NamesByUsers} THEN 0..1 ELSE {0},
                                 bad : IF c \in AskNames THEN BOOLEAN ELSE {FALSE}]] : k \in 0..MaxList}

(***************************************************************************)
(* The client                                                              *)
(***************************************************************************)
\* The steps of a call: a result and its fields; a gfp_xdr_recv of an entry; an array to be
\* allocated.  After the fields, "list", "users" or "names" steps follow, for as many entries
\* as their last field says.
RecvStep(k, fs, more) == [kind |-> k, fs |-> fs, more |-> more]
Alloc == RecvStep("array", <<>>, "none")

EntryStep(c) == RecvStep("entry", Entry[c], IF c \in Groups THEN "users" ELSE "none")

More(c, more, v) ==
  CASE more = "none"  -> <<>>
    [] more = "list"  -> (IF c \in DOMAIN Allocated THEN <<Alloc>> ELSE <<>>)
                           \o [k \in 1..v |-> EntryStep(c)]
    [] more \in {"users", "names"} -> <<Alloc>> \o [k \in 1..v |-> RecvStep("entry", <<"s">>, "none")]

\* What is done before the names, whose failure ends the call, and for each name, whose
\* failure is its own.
HeadSteps(c) == <<RecvStep("result", HeadOf(c), IF c \in DOMAIN Lists THEN "list" ELSE "none")>>

NameSteps(c) == CASE c = UsersOp -> <<RecvStep("result", <<>>, "none")>>
                  [] c = NamesByUsers -> <<RecvStep("result", <<"i">>, "names")>>
                  [] OTHER -> <<RecvStep("result", <<>>, "none"), EntryStep(c)>>

Idle(n, e) == [n |-> n, c |-> "none", steps |-> <<>>, names |-> 0, head |-> TRUE, e |-> e]

ListInit == /\ lc = Idle(0, "none")
            /\ reply = <<>>
            /\ link = [lost |-> FALSE, cached |-> TRUE]
            /\ past = [norooms |-> 0, unread |-> FALSE, misread |-> FALSE]

\* A call is made and answered; the connection may be lost after any part of the answer.
BeginCall(c) ==
  /\ lc.c = "none" /\ c \in (IF lc.n = 0 THEN FirstCalls ELSE SecondCalls) /\ lc.n < 2
  /\ \E s \in Said(c), error \in BOOLEAN :
       LET full == IF error THEN BadReply(lc.n + 1) ELSE Full(c, s, lc.n + 1)
       IN  /\ \/ reply' = (IF link.lost THEN reply ELSE reply \o full) /\ UNCHANGED link
              \/ /\ ~link.lost
                 /\ \E k \in 0 .. Len(full) - 1 : reply' = reply \o SubSeq(full, 1, k)
                 /\ link' = [link EXCEPT !.lost = TRUE]
           /\ lc' = [Idle(lc.n + 1, "none") EXCEPT !.c = c, !.steps = HeadSteps(c),
                       !.names = IF c \in AskNames THEN Len(s) ELSE 0]
           /\ past' = [past EXCEPT !.unread = @ \/ (c = ByArchitecture /\ Len(s) > 0)]

Top == Head(lc.steps)

Running(kind) == lc.c # "none" /\ lc.steps # <<>> /\ Top.kind = kind

\* What the step reads: the fields after an error code only if that is zero.
Wanted == IF Top.kind = "entry" THEN Top.fs
          ELSE <<"i">> \o IF reply # <<>> /\ reply[1].v = 0 THEN Top.fs ELSE <<>>

Arrived == Len(reply) >= Len(Wanted)

Consume ==
  /\ reply' = SubSeq(reply, Len(Wanted) + 1, Len(reply))
  /\ past' = [past EXCEPT !.misread = @ \/ \E k \in 1..Len(Wanted) :
                               k <= Len(reply) /\ (reply[k].by # lc.n \/ reply[k].f # Wanted[k])]

\* Mutant: an error for one name ends the call.
FailReturns(e) == lc' = Idle(lc.n, e)

\* The step fails: so does the call, or what it does for one name.
Fail(e) == lc' = IF lc.head THEN Idle(lc.n, e) ELSE [lc EXCEPT !.steps = <<>>]

Continue(v) == lc' = [lc EXCEPT !.steps = More(lc.c, Top.more, v) \o Tail(@)]

\* gfm_client_rpc_result, or the end of gfm_client_rpc.
RpcResult ==
  /\ Running("result") /\ Arrived
  /\ Consume
  /\ IF reply[1].v # 0 THEN Fail("server") ELSE Continue(reply[Len(Wanted)].v)
  /\ UNCHANGED link

\* gfm_client_purge_from_cache, after an error of the connection.
RpcResultLost ==
  /\ Running("result") /\ ~Arrived /\ link.lost
  /\ Consume
  /\ Fail("unexpected_eof")
  /\ link' = [link EXCEPT !.cached = FALSE]

\* gfp_xdr_recv of one entry.
RecvEntry ==
  /\ Running("entry") /\ Arrived
  /\ Consume
  /\ Continue(reply[Len(Wanted)].v)
  /\ UNCHANGED link

\* A short read is an end of file to gfp_xdr_vrecv, whatever the reason: the error of the
\* connection that the code looks for is not seen, and it stays in the cache.
RecvEntryLost ==
  /\ Running("entry") /\ ~Arrived /\ link.lost
  /\ Consume
  /\ Fail("protocol")
  /\ UNCHANGED link

\* GFARM_MALLOC_ARRAY.
AllocArray ==
  /\ Running("array")
  /\ \/ Continue(0) /\ UNCHANGED <<reply, link, past>>
     \/ /\ past.norooms < MaxNoRoom
        /\ Fail("no_memory")
        /\ past' = [past EXCEPT !.norooms = @ + 1]
        /\ UNCHANGED <<reply, link>>

\* for (i = 0; i < nhosts; i++).
NextName ==
  /\ lc.c # "none" /\ lc.steps = <<>> /\ lc.names > 0
  /\ lc' = [lc EXCEPT !.names = @ - 1, !.head = FALSE, !.steps = NameSteps(lc.c)]
  /\ UNCHANGED <<reply, link, past>>

ReturnOk ==
  /\ lc.c # "none" /\ lc.steps = <<>> /\ lc.names = 0
  /\ lc' = Idle(lc.n, "ok")
  /\ UNCHANGED <<reply, link, past>>

ListStep == \/ RpcResult \/ RpcResultLost \/ RecvEntry \/ RecvEntryLost
            \/ AllocArray \/ NextName \/ ReturnOk

ListNext == (\E c \in FirstCalls \cup SecondCalls : BeginCall(c)) \/ ListStep

(***************************************************************************)
(* Properties                                                              *)
(***************************************************************************)
\* What the comments of the code give up, "XXX this breaks gfm protocol", and the hosts
\* of an architecture, which are never read.
Excused == past.norooms > 0 \/ past.unread

\* Call after call, each reads the whole of its own reply and nothing of another's,
\* whatever error codes it holds for whichever of its names; unless memory runs out.
ListInStep == /\ past.misread => Excused
              /\ lc.c = "none" /\ ~Excused => reply = <<>>
=============================================================================
