-------------------------------- MODULE Xdr --------------------------------
(* Remote procedure calls of libgfarm (gfp_xdr.c over iobuffer.c and        *)
(* io_fd.c, as gfs_client.c and gfm_client.c use them): values are converted*)
(* to bytes in a buffer, written in pieces, read in other pieces and        *)
(* converted back.  The server, gfsd or gfmd, uses the same functions.      *)
EXTENDS Integers, Sequences, SequencesExt, IoBuffer

CONSTANTS Base,       \* number of values of a byte
          BufSize,    \* GFP_XDR_BUFSIZE
          Procedures, \* by command: ins and outs, sequences of formats [f, sz], just,
                      \* and fd: a descriptor follows the result
          ItemValue,  \* by format: what an item may hold
          Scripts,    \* sequences of batches: commands whose requests go together
          MaxBreaks   \* bound: connections lost

VARIABLES end,   \* of both ends: send and recv buffer, error of the send buffer,
                 \* out: the put_writes to come, rd: what vrecv is reading
          wire,  \* by end: the bytes it has written and the other not read
          cl,    \* the client: script, at, and which of the batch it asks and gets
          sv,    \* the server: at, and the command it serves
          lost,  \* the connection is lost
          sent,  \* history: items given to vsend
          got    \* history: items delivered by vrecv

xdrvars == <<end, wire, cl, sv, lost, sent, got>>

End == {"client", "server"}
Other(e) == IF e = "client" THEN "server" ELSE "client"

Number(i) == [f |-> "i", v |-> i]
IntFormat == <<[f |-> "i", sz |-> 0]>>
Descriptor == [f |-> "descriptor", v |-> 0]

\* The byte that carries a descriptor, as sendmsg puts it into the stream.
FdByte == Base

(***************************************************************************)
(* Conversion: 'c' is one byte, 'i' two, the high one first (four in the   *)
(* code; 'h', 'l' and 'f' differ in their width), 's' and 'b' are a length *)
(* and their bytes.                                                        *)
(***************************************************************************)
htonl(i) == <<i \div Base, i % Base>>
ntohl(s) == s[1] * Base + s[2]

\* What gfp_xdr_vsend gives to gfarm_iobuffer_put_write for an item.
Pieces(x) == CASE x.f = "c" -> << <<x.v>> >>
               [] x.f = "i" -> <<htonl(x.v)>>
               [] OTHER     -> <<htonl(Len(x.v)), x.v>>

gfp_xdr_vsend(e, xs) ==
  /\ end' = [end EXCEPT ![e].out = FlattenSeq([k \in 1..Len(xs) |-> Pieces(xs[k])])]
  /\ sent' = [sent EXCEPT ![e] = @ \o xs]

Width(p) == IF p.f = "c" THEN 1 ELSE 2

\* What gfp_xdr_vrecv has to do: the formats to read, and of the first one which part
\* is read, the bytes due and those that have come, and its size.
Reading(formats, just) ==
  [formats |-> formats, just |-> just, part |-> "head", acc |-> <<>>, size |-> 0,
   due |-> IF formats = <<>> THEN 0 ELSE Width(formats[1])]

gfp_xdr_vrecv(e, formats, just) == end' = [end EXCEPT ![e].rd = Reading(formats, just)]

HasRead(e) == end[e].rd.formats = <<>>

(***************************************************************************)
(* iobuffer.c with the blocking operations of io_fd.c                      *)
(***************************************************************************)
\* gfarm_iobuffer_write: a part of the buffer.  On a lost connection it fails, or
\* the bytes never arrive.
Write(d) ==
  IF IsEmpty(d.send) THEN {[d |-> d, w |-> <<>>]}
  ELSE {[d |-> [d EXCEPT !.send = Consumed(@, n)],
         w |-> IF lost THEN <<>> ELSE Taken(d.send, n)] : n \in 1..Len(d.send.bytes)}
       \cup {[d |-> [d EXCEPT !.error = TRUE], w |-> <<>>] : l \in {lost} \cap {TRUE}}

WriteIfFull(d) == IF IsFull(d.send) THEN Write(d) ELSE {[d |-> d, w |-> <<>>]}

\* One turn of gfarm_iobuffer_put_write.  Where a write failed the buffer stays
\* full, and the rest of the data is dropped.
PutWrite(e) ==
  /\ end[e].out # <<>>
  /\ \E x \in WriteIfFull(end[e]) :
       LET s == Head(x.d.out)
           n == PutLength(x.d.send, Len(s))
           d == [x.d EXCEPT !.send = Stored(@, s)]
       IN  IF n > 0 /\ n < Len(s)
           THEN /\ end' = [end EXCEPT ![e] = [d EXCEPT !.out[1] = SubSeq(s, n + 1, Len(s))]]
                /\ wire' = [wire EXCEPT ![e] = @ \o x.w]
           ELSE \E y \in WriteIfFull([d EXCEPT !.out = Tail(@)]) :
                  /\ end' = [end EXCEPT ![e] = y.d]
                  /\ wire' = [wire EXCEPT ![e] = @ \o x.w \o y.w]
  /\ UNCHANGED <<cl, sv, lost, sent, got>>

Flushed(e) == IsEmpty(end[e].send) \/ end[e].error

\* One turn of gfarm_iobuffer_flush_write.
FlushWrite(e) == /\ ~Flushed(e)
                 /\ \E x \in Write(end[e]) : /\ end' = [end EXCEPT ![e] = x.d]
                                             /\ wire' = [wire EXCEPT ![e] = @ \o x.w]
                 /\ UNCHANGED <<cl, sv, lost, sent, got>>

\* The limit of a read: what is due, or anything.
Limit(rd, b) == IF rd.just THEN rd.due ELSE Space(b)

\* gfarm_iobuffer_read: a part of what has arrived.  A descriptor that arrives with
\* the bytes of read(2) is lost.
Read(e) ==
  LET d == end[e]
      s == wire[Other(e)]
      most == Least(ReadMost(d.recv, Limit(d.rd, d.recv)), Len(s))
  IN  IF ~IsEmpty(d.recv) THEN {[b |-> d.recv, s |-> s]}
      ELSE {[b |-> Received(d.recv, Limit(d.rd, d.recv),
                            [i \in 1..n |-> IF s[i] = FdByte THEN 0 ELSE s[i]]),
             s |-> SubSeq(s, n + 1, Len(s))] : n \in 1..most}

\* One turn of gfarm_iobuffer_get_read_x, or of gfarm_iobuffer_purge_read_x.
GetRead(e) ==
  /\ end[e].rd.due > 0
  /\ \E x \in Read(e) :
       LET n == Least(end[e].rd.due, Len(x.b.bytes))
       IN  /\ end' = [end EXCEPT ![e].recv = Consumed(x.b, n),
                                 ![e].rd.due = @ - n,
                                 ![e].rd.acc = IF end[e].rd.part = "rest" THEN @
                                               ELSE @ \o Taken(x.b, n)]
           /\ wire' = [wire EXCEPT ![Other(e)] = x.s]
  /\ UNCHANGED <<cl, sv, lost, sent, got>>

\* End of file or an error, where more is due.
ReadFails(e) == /\ end[e].rd.due > 0 /\ lost
                /\ IsEmpty(end[e].recv) /\ wire[Other(e)] = <<>>

\* Mutant: the bytes that do not fit are left in the stream.
RestNot(rd) == [rd EXCEPT !.part = "rest", !.due = 0]

\* The bytes of a 'b' that do not fit are purged.
Rest(rd) == [rd EXCEPT !.part = "rest", !.due = rd.size - Least(rd.size, rd.formats[1].sz)]

\* The next part of the item, when nothing is due: of 's' and 'b' the bytes, of 'b'
\* what does not fit; then the item is delivered, and the next one begins.
Convert(e) ==
  LET rd == end[e].rd
      p == rd.formats[1]
      size == ntohl(rd.acc)
      body == [rd EXCEPT !.part = "body", !.acc = <<>>, !.size = size,
                         !.due = IF p.f = "b" THEN Least(size, p.sz) ELSE size]
      item == CASE p.f = "c" -> [f |-> "c", v |-> rd.acc[1]]
                [] p.f = "i" -> Number(size)
                [] p.f = "s" -> [f |-> "s", v |-> rd.acc]
                [] p.f = "b" -> [f |-> "b", v |-> rd.acc, size |-> rd.size, sz |-> p.sz]
  IN  /\ rd.formats # <<>> /\ rd.due = 0
      /\ IF rd.part = "head" /\ p.f \in {"s", "b"}
         THEN end' = [end EXCEPT ![e].rd = body] /\ UNCHANGED got
         ELSE IF rd.part = "body" /\ p.f = "b"
         THEN end' = [end EXCEPT ![e].rd = Rest(rd)] /\ UNCHANGED got
         ELSE /\ end' = [end EXCEPT ![e].rd = Reading(Tail(rd.formats), rd.just)]
              /\ got' = [got EXCEPT ![e] = Append(@, item)]
      /\ UNCHANGED <<wire, cl, sv, lost, sent>>

(***************************************************************************)
(* The client: requests of a batch, then its results                       *)
(***************************************************************************)
Batch == Head(cl.script)
Asked == Procedures[Batch[cl.ask]]
Got   == Procedures[Batch[cl.get]]

ClientIdle == end["client"].out = <<>> /\ HasRead("client")

\* gfp_xdr_vrpc_request: the command, ...
Request ==
  /\ cl.at = "request" /\ ClientIdle /\ ~end["client"].error
  /\ cl.ask <= Len(Batch)
  /\ gfp_xdr_vsend("client", <<Number(Batch[cl.ask])>>)
  /\ cl' = [cl EXCEPT !.at = "args"]
  /\ UNCHANGED <<wire, sv, lost, got>>

Items(formats) ==
  {xs \in [1..Len(formats) -> UNION {[f : {p.f}, v : ItemValue[p.f]] : p \in ToSet(formats)}] :
     \A k \in 1..Len(formats) : xs[k].f = formats[k].f}

\* ... and its arguments.
Arguments ==
  /\ cl.at = "args" /\ ClientIdle /\ ~end["client"].error
  /\ \E xs \in Items(Asked.ins) : gfp_xdr_vsend("client", xs)
  /\ cl' = [cl EXCEPT !.at = "request", !.ask = @ + 1]
  /\ UNCHANGED <<wire, sv, lost, got>>

\* gfp_xdr_flush, by gfp_xdr_vrpc after the request and by the others before each result.
Flush == /\ cl.at = "request" /\ ClientIdle /\ ~end["client"].error
         /\ cl.ask > Len(Batch)
         /\ cl' = [cl EXCEPT !.at = "flush"]
         /\ UNCHANGED <<end, wire, sv, lost, sent, got>>

\* gfp_xdr_vrpc_result: the error code, ...
Result ==
  /\ cl.at = "flush" /\ ClientIdle /\ Flushed("client") /\ ~end["client"].error
  /\ gfp_xdr_vrecv("client", IntFormat, Got.just)
  /\ cl' = [cl EXCEPT !.at = "code"]
  /\ UNCHANGED <<wire, sv, lost, sent, got>>

\* ... and the results, if it is 0.
Outs ==
  /\ cl.at = "code" /\ ClientIdle
  /\ IF Last(got["client"]).v = 0
     THEN /\ gfp_xdr_vrecv("client", Got.outs, Got.just)
          /\ cl' = [cl EXCEPT !.at = IF Got.fd THEN "descriptor" ELSE "results"]
     ELSE /\ cl' = [cl EXCEPT !.at = "results"]
          /\ UNCHANGED end
  /\ UNCHANGED <<wire, sv, lost, sent, got>>

\* gfarm_fd_receive_message, which reads the socket past the buffer.
ReceiveDescriptor ==
  /\ cl.at = "descriptor" /\ ClientIdle
  /\ wire["server"] # <<>>
  /\ got' = [got EXCEPT !["client"] = Append(@, IF Head(wire["server"]) = FdByte THEN Descriptor
                                                ELSE [f |-> "none", v |-> 0])]
  /\ wire' = [wire EXCEPT !["server"] = Tail(@)]
  /\ cl' = [cl EXCEPT !.at = "results"]
  /\ UNCHANGED <<end, sv, lost, sent>>

\* The next result, or the next batch.
Returned ==
  /\ cl.at = "results" /\ ClientIdle
  /\ cl' = IF cl.get < Len(Batch) THEN [cl EXCEPT !.at = "flush", !.get = @ + 1]
           ELSE [script |-> Tail(cl.script), ask |-> 1, get |-> 1,
                 at |-> IF Len(cl.script) > 1 THEN "request" ELSE "done"]
  /\ UNCHANGED <<end, wire, sv, lost, sent, got>>

\* A connection error: the connection is not used again.
Fails ==
  /\ cl.at \notin {"done", "failed"}
  /\ \/ ReadFails("client")
     \/ end["client"].out = <<>> /\ end["client"].error
     \/ cl.at = "descriptor" /\ ClientIdle /\ lost /\ wire["server"] = <<>>
  /\ cl' = [cl EXCEPT !.at = "failed"]
  /\ end' = [end EXCEPT !["client"].rd = Reading(<<>>, FALSE), !["client"].out = <<>>]
  /\ UNCHANGED <<wire, sv, lost, sent, got>>

(***************************************************************************)
(* The server: a request, its results, and the descriptor after them       *)
(***************************************************************************)
ServerIdle == end["server"].out = <<>> /\ HasRead("server")

\* A command that there is none of ends the connection.
ServerCommand ==
  /\ sv.at = "command" /\ ServerIdle
  /\ LET c == Last(got["server"]).v
     IN  IF c \in DOMAIN Procedures
         THEN /\ gfp_xdr_vrecv("server", Procedures[c].ins, FALSE)
              /\ sv' = [at |-> "args", command |-> c]
         ELSE sv' = [sv EXCEPT !.at = "ended"] /\ UNCHANGED end
  /\ UNCHANGED <<wire, cl, lost, sent, got>>

NothingAhead == /\ cl.at \notin {"request", "args"}
                /\ IsEmpty(end["client"].send) /\ wire["client"] = <<>>
                /\ IsEmpty(end["server"].recv)

\* What follows an error inside a batch is not decided here: only the last
\* procedure of one may fail.
ServerReply ==
  /\ sv.at = "args" /\ ServerIdle
  /\ \E code \in {0, 1} :
       /\ code # 0 => NothingAhead
       /\ \E xs \in IF code = 0 THEN Items(Procedures[sv.command].outs) ELSE {<<>>} :
            gfp_xdr_vsend("server", <<Number(code)>> \o xs)
       /\ sv' = [sv EXCEPT !.at = IF code = 0 /\ Procedures[sv.command].fd THEN "descriptor"
                                  ELSE "flush"]
  /\ UNCHANGED <<wire, cl, lost, got>>

ServerDescriptor ==
  /\ sv.at = "descriptor" /\ ServerIdle /\ Flushed("server")
  /\ wire' = [wire EXCEPT !["server"] = IF lost THEN @ ELSE Append(@, FdByte)]
  /\ sent' = [sent EXCEPT !["server"] = Append(@, Descriptor)]
  /\ sv' = [sv EXCEPT !.at = "flush"]
  /\ UNCHANGED <<end, cl, lost, got>>

ServerNext ==
  /\ sv.at = "flush" /\ ServerIdle /\ Flushed("server")
  /\ gfp_xdr_vrecv("server", IntFormat, FALSE)
  /\ sv' = [sv EXCEPT !.at = "command"]
  /\ UNCHANGED <<wire, cl, lost, sent, got>>

\* The bytes that were not read may go with it.
ConnectionLost ==
  /\ ~lost /\ MaxBreaks > 0
  /\ lost' = TRUE
  /\ \E n \in 0..Len(wire["client"]), k \in 0..Len(wire["server"]) :
       wire' = [e \in End |-> SubSeq(wire[e], 1, IF e = "client" THEN n ELSE k)]
  /\ UNCHANGED <<end, cl, sv, sent, got>>

XdrInit ==
  /\ end = [e \in End |-> [send |-> NewBuffer(BufSize), recv |-> NewBuffer(BufSize),
                           error |-> FALSE, out |-> <<>>,
                           rd |-> Reading(IF e = "server" THEN IntFormat ELSE <<>>, FALSE)]]
  /\ wire = [e \in End |-> <<>>]
  /\ \E s \in Scripts : cl = [script |-> s, at |-> "request", ask |-> 1, get |-> 1]
  /\ sv = [at |-> "command", command |-> 0]
  /\ lost = FALSE
  /\ sent = [e \in End |-> <<>>]
  /\ got = [e \in End |-> <<>>]

Buffers(e) == PutWrite(e) \/ GetRead(e) \/ Convert(e)

XdrClient == \/ cl.at \notin {"done", "failed"} /\ Buffers("client")
             \/ cl.at = "flush" /\ end["client"].out = <<>> /\ FlushWrite("client")
             \/ Request \/ Arguments \/ Flush \/ Result \/ Outs \/ ReceiveDescriptor \/ Returned
             \/ Fails

XdrServer == \/ sv.at # "ended" /\ Buffers("server")
             \/ sv.at \in {"flush", "descriptor"} /\ ServerIdle /\ FlushWrite("server")
             \/ ServerCommand \/ ServerReply \/ ServerDescriptor \/ ServerNext

XdrNext == XdrClient \/ XdrServer \/ ConnectionLost

XdrSpec == XdrInit /\ [][XdrNext]_xdrvars /\ WF_xdrvars(XdrClient) /\ WF_xdrvars(XdrServer)

(***************************************************************************)
(* Properties                                                              *)
(***************************************************************************)
\* An item that arrived is the one that was sent, a 'b' up to the size of the
\* buffer it was read into, together with its own size.
SameItem(x, y) == /\ x.f = y.f
                  /\ IF x.f = "b" THEN /\ y.size = Len(x.v)
                                       /\ y.v = SubSeq(x.v, 1, Least(y.size, y.sz))
                     ELSE y.v = x.v

\* However the bytes are cut by the sizes of the buffers and by the socket, and
\* whatever is sent ahead, either end receives the items the other has sent, in
\* their order and converted back; only a lost connection makes a call fail;
\* nothing is stored outside of a buffer.
Delivered ==
  /\ \A e \in End : /\ Len(got[e]) <= Len(sent[Other(e)])
                    /\ \A k \in 1..Len(got[e]) : SameItem(sent[Other(e)][k], got[e][k])
                    /\ WithinArray(end[e].send) /\ WithinArray(end[e].recv)
  /\ cl.at = "failed" \/ sv.at = "ended" => lost

\* Every call returns, the ones too that read the socket past the buffer: what they
\* wait for was not read into it.
RpcEnded == cl.at \in {"done", "failed"}
=============================================================================
