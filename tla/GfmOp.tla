------------------------------- MODULE GfmOp --------------------------------
(* The operations on the metadata server, gfmd (gfs_*.c, over lookup.c and  *)
(* gfm_client.c).  The requests of a compound are written ahead, then the   *)
(* results are read one by one; a connection found to be lost while the     *)
(* path is looked up, which may just have been idle in the cache for too    *)
(* long, is given up and everything is asked again, once.                   *)
(*                                                                          *)
(* A path is the number of its components; 0 is "/".                        *)
EXTENDS Integers, Sequences, FiniteSets, SequencesExt

CONSTANTS Ops,        \* the operations, records [kind, src, dst], the first may be, the second, ...
          Wire,       \* struct gfm_connection
          NoWire,     \* Wire is a bound, too: no more than these at once
          SleepMax,   \* sleep_max_interval
          MaxFaults   \* bound: connections lost and crashes of gfmd, during operations

OpKinds == {"name", "inode", "rename", "link", "statfs", "create", "open", "fd", "close"}

Operations == [kind : OpKinds, src : Nat, dst : Nat]

ASSUME GfmAssumption == /\ Ops \in Seq(SUBSET Operations)
                        /\ NoWire \notin Wire /\ IsFiniteSet(Wire)
                        /\ SleepMax \in Nat \ {0}

VARIABLES op,     \* the operation: where it is, the connection, the result it waits
                  \* for (i), retry, sleep (sleep_interval), the faults it has met
          wires,  \* of each connection: st, cached, held, pid, and what is on its
                  \* way to gfmd (out) and back (in)
          gfmd,   \* is it up; of each connection, whether it skips the rest of a compound
          open,   \* the connection of the open file
          log     \* history: of each operation, its result and how often gfmd executed it

gfmvars == <<op, wires, gfmd, open, log>>

(***************************************************************************)
(* The operations                                                          *)
(***************************************************************************)
Op(k, s, d) == [kind |-> k, src |-> s, dst |-> d]

\* On a name in a directory.
gfs_mkdir(path)   == Op("name", path, 0)
gfs_remove(path)  == Op("name", path, 0)
gfs_symlink(path) == Op("name", path, 0)

\* On what a path leads to.
gfs_stat(path)     == Op("inode", path, 0)
gfs_readlink(path) == Op("inode", path, 0)
gfs_chmod(path)    == Op("inode", path, 0)
gfs_chown(path)    == Op("inode", path, 0)
gfs_utimes(path)   == Op("inode", path, 0)
gfs_replica_list_by_name(path)   == Op("inode", path, 0)
gfs_replica_remove_by_file(path) == Op("inode", path, 0)
gfs_setxattr(path)    == Op("inode", path, 0)
gfs_getxattr(path)    == Op("inode", path, 0)
gfs_listxattr(path)   == Op("inode", path, 0)
gfs_removexattr(path) == Op("inode", path, 0)

gfs_rename(src, dst) == Op("rename", src, dst)
gfs_link(src, dst)   == Op("link", src, dst)
gfs_statfs           == Op("statfs", 0, 0)

\* On a file, which keeps the connection it was opened on.
gfm_create_fd(path) == Op("create", path, 0)
gfm_open_fd(path)   == Op("open", path, 0)
gfs_fstat           == Op("fd", 0, 0)
gfm_close_fd        == Op("close", 0, 0)

Opens(o)  == o.kind \in {"create", "open"}
OnFile(o) == o.kind \in {"fd", "close"}

(***************************************************************************)
(* Requests and results                                                    *)
(***************************************************************************)
\* gfm_lookup_dir_request: the directories above the last component.
LookupDirRequest(path) == IF path = 0 THEN <<>> ELSE <<"root">> \o [k \in 1 .. path - 1 |-> "open"]

\* gfm_tmp_lookup_parent_request and gfm_tmp_open_request.
LookupParentRequest(path) == <<"begin">> \o LookupDirRequest(path)

TmpOpenRequest(path) == Append(LookupParentRequest(path), IF path = 0 THEN "root" ELSE "open")

\* gfm_lookup_dir_result, gfm_tmp_lookup_parent_result, gfm_tmp_open_result.
LookupDirResult(path) == IF path = 0 THEN <<>> ELSE <<"root">> \o [k \in 1 .. path - 1 |-> "open"]

LookupParentResult(path) == <<"begin">> \o LookupDirResult(path)

TmpOpenResult(path) == Append(LookupParentResult(path), IF path = 0 THEN "root" ELSE "open")

If(c, s) == IF c THEN s ELSE <<>>

\* gfm_name_op: what is asked of the directory, unless the path is "/", is asked.
NameRequest(path, asked) == LookupParentRequest(path) \o If(path # 0, asked) \o <<"end">>

NameResult(path, asked) == LookupParentResult(path) \o If(path # 0, asked) \o <<"end">>

\* gfm_inode_op.
InodeRequest(path) == TmpOpenRequest(path) \o <<"op", "end">>

InodeResult(path) == TmpOpenResult(path) \o <<"op", "end">>

\* gfs_rename: the directory of src is saved while the one of dst is looked up.
RenameRequest(src, dst) ==
  LookupParentRequest(src) \o If(src # 0, <<"save">>)
    \o LookupDirRequest(dst) \o If(src # 0 /\ dst # 0, <<"op">>) \o <<"end">>

\* Mutant: the result of save_fd is forgotten.
RenameResultUnsaved(src, dst) ==
  LookupParentResult(src) \o LookupDirResult(dst) \o If(src # 0 /\ dst # 0, <<"op">>) \o <<"end">>

RenameResult(src, dst) ==
  LookupParentResult(src) \o If(src # 0, <<"save">>)
    \o LookupDirResult(dst) \o If(src # 0 /\ dst # 0, <<"op">>) \o <<"end">>

\* gfs_link.
LinkRequest(src, dst) ==
  TmpOpenRequest(src) \o <<"save">> \o LookupDirRequest(dst) \o If(dst # 0, <<"op">>) \o <<"end">>

LinkResult(src, dst) ==
  TmpOpenResult(src) \o <<"save">> \o LookupDirResult(dst) \o If(dst # 0, <<"op">>) \o <<"end">>

\* gfm_client_compound_fd_op, with the descriptor of the open file.
FdRequest == <<"begin", "putfd", "op", "end">>

FdResult == <<"begin", "putfd", "op", "end">>

RequestsOf(o) ==
  CASE o.kind = "name"          -> NameRequest(o.src, <<"op">>)
    [] o.kind = "create"        -> NameRequest(o.src, <<"op", "getfd">>)
    [] o.kind \in {"inode", "open"} -> InodeRequest(o.src)
    [] o.kind = "rename"        -> RenameRequest(o.src, o.dst)
    [] o.kind = "link"          -> LinkRequest(o.src, o.dst)
    [] o.kind \in {"fd", "close"} -> FdRequest
    [] o.kind = "statfs"        -> <<"op">>

ResultsOf(o) ==
  CASE o.kind = "name"          -> NameResult(o.src, <<"op">>)
    [] o.kind = "create"        -> NameResult(o.src, <<"op", "getfd">>)
    [] o.kind \in {"inode", "open"} -> InodeResult(o.src)
    [] o.kind = "rename"        -> RenameResult(o.src, o.dst)
    [] o.kind = "link"          -> LinkResult(o.src, o.dst)
    [] o.kind \in {"fd", "close"} -> FdResult
    [] o.kind = "statfs"        -> <<"op">>

\* How many of them are results of the first lookup, after whose failure there is a retry.
LookupLength(o) ==
  CASE o.kind \in {"name", "create", "rename"} -> Len(LookupParentResult(o.src))
    [] o.kind \in {"inode", "open", "link"} -> Len(TmpOpenResult(o.src))
    [] o.kind = "statfs" -> 1
    [] OnFile(o) -> 0

\* "/" is special: e_save, whatever gfmd answers.
RootError(o) == \/ o.kind \in {"name", "create", "rename"} /\ o.src = 0
                \/ o.kind \in {"rename", "link"} /\ o.dst = 0

\* gfs_rename and gfs_link acquire the connection for each of their paths.
Refs(o) == IF o.kind \in {"rename", "link"} THEN 2 ELSE 1

(***************************************************************************)
(* Connections                                                             *)
(***************************************************************************)
NewWire == [st |-> "none", cached |-> FALSE, held |-> 0, pid |-> FALSE, out |-> <<>>, in |-> <<>>]

Cached == {c \in Wire : wires[c].cached}

\* The connections that are not there any more.
Gone == {c \in Wire : wires[c].st = "none" /\ wires[c].out = <<>>}

\* gfm_client_purge_from_cache, after a connection error.
Purge(ls, c) == [ls EXCEPT ![c].cached = FALSE]

\* gfm_client_connection_free, n times; what is not cached is closed, though gfmd may not have
\* executed all it has received.
Release(ls, c, n) == LET l == [ls[c] EXCEPT !.held = @ - n]
                     IN  [ls EXCEPT ![c] = IF l.held = 0 /\ ~l.cached THEN [NewWire EXCEPT !.out = l.out]
                                          ELSE l]

(***************************************************************************)
(* The operation                                                           *)
(***************************************************************************)
NoOp == Op("none", 0, 0)

NotRunning(n) == [pc |-> "idle", o |-> NoOp, n |-> n, c |-> NoWire, i |-> 1, retry |-> 0,
                  sleep |-> 0, stale |-> FALSE, faults |-> 0]

\* It returns e, ls being the connections then.
EndOp(e, ls) ==
  /\ op' = NotRunning(op.n)
  /\ wires' = ls
  /\ log' = [log EXCEPT ![op.n].result = e, ![op.n].stale = op.stale, ![op.n].faults = op.faults]

\* An operation begins; one on a file uses the connection of the file.
BeginOp(o) ==
  /\ op.pc = "idle" /\ op.n < Len(Ops) /\ o \in Ops[op.n + 1]
  /\ Opens(o) => open = NoWire
  /\ OnFile(o) => open # NoWire
  /\ op' = [NotRunning(op.n + 1) EXCEPT
              !.o = o,
              !.stale = gfmd.up /\ ~OnFile(o) /\ \E c \in Cached : wires[c].st = "lost" /\ wires[c].pid,
              !.pc = IF OnFile(o) THEN "request" ELSE "acquire",
              !.c = IF OnFile(o) THEN open ELSE NoWire]
  /\ UNCHANGED <<wires, gfmd, open, log>>

\* gfm_client_connection_acquire finds a connection.
AcquireWire ==
  /\ op.pc = "acquire"
  /\ \E c \in Cached :
       /\ op' = [op EXCEPT !.c = c, !.pc = IF wires[c].pid THEN "request" ELSE "alloc"]
       /\ wires' = [wires EXCEPT ![c].held = @ + IF wires[c].pid THEN Refs(op.o) ELSE 1]
  /\ UNCHANGED <<gfmd, open, log>>

\* Mutant: it waits as long as gfmd is not there.
ConnectWireForever ==
  /\ op.pc = "acquire" /\ Cached = {}
  /\ \/ /\ gfmd.up /\ Gone # {}
        /\ LET c == CHOOSE d \in Gone : TRUE
           IN  /\ wires' = [wires EXCEPT ![c] = [NewWire EXCEPT !.st = "up", !.cached = TRUE, !.held = 1]]
               /\ op' = [op EXCEPT !.c = c, !.pc = "alloc", !.sleep = 0]
               /\ gfmd' = [gfmd EXCEPT !.skip[c] = FALSE, !.in[c] = FALSE]
     \/ ~gfmd.up /\ op' = [op EXCEPT !.sleep = SleepMax] /\ UNCHANGED <<wires, gfmd>>
  /\ UNCHANGED <<open, log>>

\* It makes one (gfm_client_connection0), waiting longer each time gfmd is not
\* there; any other failure, of authentication for example, ends the operation.
ConnectWire ==
  /\ op.pc = "acquire" /\ Cached = {}
  /\ \/ /\ gfmd.up /\ Gone # {}
        /\ LET c == CHOOSE d \in Gone : TRUE
           IN  /\ wires' = [wires EXCEPT ![c] = [NewWire EXCEPT !.st = "up", !.cached = TRUE, !.held = 1]]
               /\ op' = [op EXCEPT !.c = c, !.pc = "alloc", !.sleep = 0]
               /\ gfmd' = [gfmd EXCEPT !.skip[c] = FALSE, !.in[c] = FALSE]
        /\ UNCHANGED log
     \/ gfmd.up /\ EndOp("error", wires) /\ UNCHANGED gfmd
     \/ /\ ~gfmd.up
        /\ IF op.sleep = SleepMax THEN EndOp("connection", wires)
           ELSE /\ op' = [op EXCEPT !.sleep = IF @ = 0 THEN 1 ELSE 2 * @]
                /\ UNCHANGED <<wires, log>>
        /\ UNCHANGED gfmd
  /\ UNCHANGED open

\* gfm_client_process_alloc, of gfm_client_connection_and_process_acquire: no retry.
AllocProcess ==
  /\ op.pc = "alloc"
  /\ LET c == op.c
     IN  \/ /\ wires[c].st = "up"
            /\ \/ /\ wires' = [wires EXCEPT ![c].pid = TRUE, ![c].held = @ + Refs(op.o) - 1]
                  /\ op' = [op EXCEPT !.pc = "request"]
                  /\ UNCHANGED log
               \/ EndOp("error", Release(wires, c, 1))
         \/ wires[c].st = "lost" /\ EndOp("connection", Release(Purge(wires, c), c, 1))
  /\ UNCHANGED <<gfmd, open>>

\* The requests are written; gfm_client_rpc_result flushes them.
WriteRequests ==
  /\ op.pc = "request"
  /\ op' = [op EXCEPT !.pc = "result", !.i = 1]
  /\ LET rs == RequestsOf(op.o)
     IN  wires' = IF wires[op.c].st = "lost" THEN wires
                  ELSE [wires EXCEPT ![op.c].out = @ \o [k \in DOMAIN rs |-> [r |-> rs[k], n |-> op.n]]]
  /\ UNCHANGED <<gfmd, open, log>>

\* The operation is over.  The file that was opened keeps the connection, until its close
\* (gfs_pio_close, gfs_closedir) frees it whatever the result.
FinishOp(e, ls) ==
  LET opened == Opens(op.o) /\ e = "ok" /\ ~RootError(op.o)
  IN  /\ EndOp(IF RootError(op.o) THEN "root" ELSE e,
                 IF opened \/ op.o.kind = "fd" THEN ls ELSE Release(ls, op.c, Refs(op.o)))
      /\ open' = IF opened THEN op.c ELSE IF op.o.kind = "close" THEN NoWire ELSE open

\* Mutant: an error that gfmd answers is a reason to try again, too.
ReadResultAgain ==
  /\ op.pc = "result" /\ wires[op.c].in # <<>>
  /\ LET ls == [wires EXCEPT ![op.c].in = Tail(@)]
     IN  IF Head(wires[op.c].in).e # "ok" /\ op.retry < 1
         THEN /\ op' = [op EXCEPT !.pc = "acquire", !.c = NoWire, !.i = 1, !.retry = @ + 1, !.sleep = 0]
              /\ wires' = Release(ls, op.c, Refs(op.o))
              /\ UNCHANGED <<open, log>>
         ELSE IF op.i = Len(ResultsOf(op.o)) THEN FinishOp("ok", ls)
         ELSE op' = [op EXCEPT !.i = @ + 1] /\ wires' = ls /\ UNCHANGED <<open, log>>
  /\ UNCHANGED gfmd

\* gfm_client_rpc_result: the next result, which may be an error.
ReadResult ==
  /\ op.pc = "result" /\ wires[op.c].in # <<>>
  /\ LET ls == [wires EXCEPT ![op.c].in = Tail(@)]
     IN  IF Head(wires[op.c].in).e # "ok" THEN FinishOp("error", ls)
         ELSE IF op.i = Len(ResultsOf(op.o)) THEN FinishOp("ok", ls)
         ELSE op' = [op EXCEPT !.i = @ + 1] /\ wires' = ls /\ UNCHANGED <<open, log>>
  /\ UNCHANGED gfmd

\* Mutants: without retry; a retry that frees one reference.
ReadErrorFinal ==
  /\ op.pc = "result" /\ wires[op.c].in = <<>> /\ wires[op.c].st = "lost"
  /\ FinishOp("connection", Purge(wires, op.c))
  /\ UNCHANGED gfmd

ReadErrorHeld ==
  /\ op.pc = "result" /\ wires[op.c].in = <<>> /\ wires[op.c].st = "lost"
  /\ LET ls == Purge(wires, op.c)
     IN  IF op.i <= LookupLength(op.o) /\ op.retry < 1
         THEN /\ op' = [op EXCEPT !.pc = "acquire", !.c = NoWire, !.i = 1, !.retry = @ + 1, !.sleep = 0]
              /\ wires' = Release(ls, op.c, 1)
              /\ UNCHANGED <<open, log>>
         ELSE FinishOp("connection", ls)
  /\ UNCHANGED gfmd

\* A connection error: everything again if it was the lookup, once.
ReadError ==
  /\ op.pc = "result" /\ wires[op.c].in = <<>> /\ wires[op.c].st = "lost"
  /\ LET ls == Purge(wires, op.c)
     IN  IF op.i <= LookupLength(op.o) /\ op.retry < 1
         THEN /\ op' = [op EXCEPT !.pc = "acquire", !.c = NoWire, !.i = 1, !.retry = @ + 1, !.sleep = 0]
              /\ wires' = Release(ls, op.c, Refs(op.o))
              /\ UNCHANGED <<open, log>>
         ELSE FinishOp("connection", ls)
  /\ UNCHANGED gfmd

(***************************************************************************)
(* gfmd                                                                    *)
(***************************************************************************)
\* It executes the next request.  After an error the rest of the compound is
\* skipped and not answered.
Serve(c) ==
  /\ gfmd.up /\ wires[c].out # <<>>
  /\ LET q == Head(wires[c].out)
         Answer(e) == wires' = [wires EXCEPT ![c].out = Tail(@),
                                             ![c].in = IF wires[c].st = "up" THEN Append(@, [r |-> q.r, n |-> q.n, e |-> e])
                                                       ELSE @]
     IN  \/ /\ gfmd.skip[c]
            /\ wires' = [wires EXCEPT ![c].out = Tail(@)]
            /\ gfmd' = [gfmd EXCEPT !.skip[c] = q.r # "end", !.in[c] = q.r # "end"]
            /\ UNCHANGED log
         \/ /\ ~gfmd.skip[c]
            /\ Answer("ok")
            /\ gfmd' = [gfmd EXCEPT !.in[c] = (@ \/ q.r = "begin") /\ q.r # "end"]
            /\ log' = IF q.r = "op" THEN [log EXCEPT ![q.n].executed = @ + 1] ELSE log
         \/ /\ ~gfmd.skip[c] /\ q.r \notin {"begin", "end"}
            /\ Answer("error")
            /\ gfmd' = [gfmd EXCEPT !.skip[c] = gfmd.in[c]]
            /\ UNCHANGED log
  /\ UNCHANGED <<op, open>>

\* The connection is lost; what was on its way still arrives or is lost, too (a part
\* of it has arrived if the loss comes later).
Lost(l, i, j) == [l EXCEPT !.st = IF @ = "up" THEN "lost" ELSE @, !.out = SubSeq(@, 1, i),
                           !.in = SubSeq(@, 1, j)]

Fault == \/ op.pc = "idle" /\ UNCHANGED op
         \/ /\ op.pc # "idle" /\ op.faults < MaxFaults
            /\ op' = [op EXCEPT !.faults = @ + 1]

LoseWire(c) ==
  /\ wires[c].st = "up" /\ Fault
  /\ \E i \in {0, Len(wires[c].out)}, j \in {0, Len(wires[c].in)} :
       wires' = [wires EXCEPT ![c] = Lost(@, i, j)]
  /\ UNCHANGED gfmd
  /\ UNCHANGED <<open, log>>

\* gfmd goes down, and up again.
Crash ==
  /\ gfmd.up /\ Fault
  /\ wires' = [c \in Wire |-> Lost(wires[c], 0, Len(wires[c].in))]
  /\ gfmd' = [gfmd EXCEPT !.up = FALSE]
  /\ UNCHANGED <<open, log>>

Restart == /\ ~gfmd.up /\ gfmd' = [gfmd EXCEPT !.up = TRUE]
           /\ UNCHANGED <<op, wires, open, log>>

(***************************************************************************)
(* Specification                                                           *)
(***************************************************************************)
GfmInit ==
  /\ op = NotRunning(0)
  /\ wires = [c \in Wire |-> NewWire]
  /\ gfmd = [up |-> TRUE, skip |-> [c \in Wire |-> FALSE], in |-> [c \in Wire |-> FALSE]]
  /\ open = NoWire
  /\ log = [n \in DOMAIN Ops |-> [result |-> "none", executed |-> 0, stale |-> FALSE, faults |-> 0]]

GfmStep == AcquireWire \/ ConnectWire \/ AllocProcess \/ WriteRequests \/ ReadResult \/ ReadError

GfmServe == \E c \in Wire : Serve(c)

GfmNext == \/ \E o \in UNION Range(Ops) : BeginOp(o)
           \/ GfmStep
           \/ GfmServe
           \/ \E c \in Wire : LoseWire(c)
           \/ Crash \/ Restart

GfmFairness == WF_gfmvars(GfmStep) /\ WF_gfmvars(GfmServe)

GfmSpec == GfmInit /\ [][GfmNext]_gfmvars /\ GfmFairness

(***************************************************************************)
(* Properties                                                              *)
(***************************************************************************)
\* Every result that is read is the answer to the request it is taken for: what
\* an earlier operation left in the connection, at an error or a retry, is
\* never read, and both passes over the paths agree.
InStep == op.pc = "result" /\ wires[op.c].in # <<>> =>
            LET m == Head(wires[op.c].in)
            IN  m.n = op.n /\ m.r = ResultsOf(op.o)[op.i]

\* Whatever fails, an operation gives back the references it has acquired: one
\* is left for the open file, and no connection stays that nobody can find.
Balanced == op.pc = "idle" =>
              /\ \A c \in Wire : wires[c].held = IF c = open THEN 1 ELSE 0
              /\ \A c \in Wire : wires[c].st # "none" <=> wires[c].cached \/ c = open
              /\ Cardinality(Cached) <= 1

\* An operation leaves the connection as it found it, whatever fails: nothing of its
\* own to be read by the next one, and no reference.
OperationsWhole == InStep /\ Balanced

\* gfmd has executed an operation that succeeds, and executes one again only if
\* a connection was lost under it, so that the client cannot know.
Executed == \A n \in DOMAIN Ops :
              LET r == log[n]
                  f == IF op.n = n /\ op.pc # "idle" THEN op.faults ELSE r.faults
              IN  /\ r.result = "ok" => r.executed >= 1
                  /\ r.executed <= 1 + f

\* That the cached connection was lost while nobody used it is not noticed, if
\* it has a process (gfm_client_process_alloc is not retried) and gfmd is there:
\* the operation fails only for another reason.
StaleForgiven == \A n \in DOMAIN Ops :
                   log[n].stale /\ log[n].faults = 0 => log[n].result # "connection"

\* What an operation tells the program is what gfmd has done, however often it was
\* sent, and a connection that was lost before it is no reason to fail.
ToldAsDone == Executed /\ StaleForgiven
=============================================================================
