----------------------------- MODULE ReplicaRecv -----------------------------
(* gfs_client_replica_recv: a gfsd reads the contents of a file from another *)
(* one, in records of a size and as many bytes, and writes them to a local   *)
(* file.  A write that fails must not end the reading: the result of the     *)
(* call comes after the last record.                                         *)
EXTENDS Integers, Sequences, SequencesExt

CONSTANTS RecordSizes,  \* the sizes of the records a file may be sent in, sequences of numbers
          MaxWriteFails \* bound: writes that fail

VARIABLES rr,      \* the call
          stream,  \* what was sent and not read: sizes, bytes, and the result at the end
          local    \* the bytes written to the local file

rrvars == <<rr, stream, local>>

Size(k) == [t |-> "size", v |-> k]
Byte(k) == [t |-> "byte", v |-> k]
Status(e) == [t |-> "status", v |-> e]

\* The bytes of all records are numbered from 1.
SizesSum(s) == FoldSeq(LAMBDA a, b : a + b, 0, s)

RECURSIVE Records(_, _)
Records(s, from) ==
  IF s = <<>> THEN <<>>
  ELSE <<Size(Head(s))>> \o [k \in 1..Head(s) |-> Byte(from + k)] \o Records(Tail(s), from + Head(s))

\* What the server sends: the last size is 0, and -1 if it fails.
Sent(s, ok) == Records(s, 0) \o (IF ok THEN <<Size(0), Status(0)>> ELSE <<Size(-1), Status(1)>>)

ReplicaInit ==
  /\ \E s \in RecordSizes, ok \in BOOLEAN :
       /\ \E k \in 0..Len(Sent(s, ok)) : stream = SubSeq(Sent(s, ok), 1, k)
       /\ rr = [pc |-> "size", sizes |-> s, lost |-> stream # Sent(s, ok), size |-> 0,
                buffer |-> <<>>, skip |-> FALSE, e |-> "none", ewrite |-> FALSE, fails |-> 0,
                cached |-> TRUE]
  /\ local = <<>>

\* gfp_xdr_recv of the size.
RecvSize ==
  /\ rr.pc = "size"
  /\ stream # <<>>
  /\ rr' = [rr EXCEPT !.size = stream[1].v, !.skip = FALSE,
                      !.pc = IF stream[1].v <= 0 THEN "result" ELSE "data"]
  /\ stream' = Tail(stream) /\ UNCHANGED local

\* The end of a lost connection, in the size or in the bytes: a protocol error, after which
\* the result is read nevertheless.
RecvLost ==
  /\ rr.pc \in {"size", "data"}
  /\ stream = <<>>
  /\ rr' = [rr EXCEPT !.e = "protocol", !.pc = "result"]
  /\ UNCHANGED <<stream, local>>

\* gfp_xdr_recv_partial: some of the bytes.
RecvPartial ==
  /\ rr.pc = "data" /\ stream # <<>>
  /\ \E k \in 1..rr.size :
       /\ k <= Len(stream)
       /\ rr' = [rr EXCEPT !.size = @ - k, !.pc = "write",
                           !.buffer = IF rr.skip THEN <<>> ELSE SubSeq(stream, 1, k)]
       /\ stream' = SubSeq(stream, k + 1, Len(stream))
  /\ UNCHANGED local

\* Mutant: a write that fails ends the record.
WriteFailsEndsRecord ==
  /\ rr.pc = "write" /\ rr.buffer # <<>> /\ rr.fails < MaxWriteFails
  /\ rr' = [rr EXCEPT !.fails = @ + 1, !.ewrite = TRUE, !.buffer = <<>>, !.pc = "size"]
  /\ UNCHANGED <<stream, local>>

\* write(2) fails: "we should receive rest of data, even if write(2) fails".
WriteFails ==
  /\ rr.pc = "write" /\ rr.buffer # <<>> /\ rr.fails < MaxWriteFails
  /\ rr' = [rr EXCEPT !.fails = @ + 1, !.ewrite = TRUE, !.skip = TRUE, !.buffer = <<>>]
  /\ UNCHANGED <<stream, local>>

\* write(2) takes some of the bytes.
WritePartial ==
  /\ rr.pc = "write"
  /\ \E k \in 1..Len(rr.buffer) :
       /\ local' = local \o [i \in 1..k |-> rr.buffer[i].v]
       /\ rr' = [rr EXCEPT !.buffer = SubSeq(@, k + 1, Len(@))]
  /\ UNCHANGED stream

\* while (size > 0).
Written ==
  /\ rr.pc = "write" /\ rr.buffer = <<>>
  /\ rr' = [rr EXCEPT !.pc = IF rr.size > 0 THEN "data" ELSE "size"]
  /\ UNCHANGED <<stream, local>>

\* gfs_client_rpc_result: the first of three errors is returned.
ReplicaResult ==
  /\ rr.pc = "result"
  /\ LET rpc == IF stream = <<>> THEN "unexpected_eof" ELSE IF stream[1].v = 0 THEN "ok" ELSE "server"
         e   == IF rr.e # "none" THEN rr.e ELSE IF rr.ewrite THEN "write" ELSE rpc
     IN  rr' = [rr EXCEPT !.pc = "end", !.e = e, !.cached = stream # <<>>]
  /\ stream' = IF stream = <<>> THEN <<>> ELSE Tail(stream)
  /\ UNCHANGED local

ReplicaStep == \/ RecvSize \/ RecvLost \/ RecvPartial \/ WriteFails \/ WritePartial \/ Written
               \/ ReplicaResult

ReplicaNext == ReplicaStep

\* A replica that is reported complete has all bytes, in order; and whatever failed on the
\* local side, what has been read when the call ends is all that was sent, sizes as sizes and
\* the result as the result, or the connection is no longer used.
ReplicaWhole ==
  rr.pc = "end" =>
    /\ rr.e = "ok" => local = [k \in 1..SizesSum(rr.sizes) |-> k]
    /\ stream = <<>>
    /\ rr.lost => ~rr.cached
    /\ ~rr.lost => rr.e \in {"ok", "server", "write"} /\ (rr.e = "ok" => rr.fails = 0)
=============================================================================
