----------------------------- MODULE EventQueue -----------------------------
(* The event queue of libgfarm (gfevent.c) and what the search of a node    *)
(* runs over it: for each host a request of its load, then a connection,    *)
(* its authentication and a request of its disk space (the multiplexed      *)
(* procedures of gfs_client.c and auth_client.c).  A turn of the queue      *)
(* calls select and then the callbacks; a callback removes its event, adds  *)
(* the next one and may close its descriptor, whose number the next socket  *)
(* takes.  What the authentication says is modelled in Auth.                *)
EXTENDS Integers, Sequences, FiniteSets, SequencesExt, FiniteSetsExt

CONSTANTS Peers,          \* the hosts asked, in the order of the search
          LocalPeers,     \* those connected by a UNIX socket, at once
          Authenticated,  \* those a method is enabled for
          LoadTimeouts,   \* gfs_client_datagram_timeouts
          AuthTimeout,    \* GFARM_AUTH_TIMEOUT
          StatfsTimeout,  \* GFS_CLIENT_COMMAND_TIMEOUT
          MuxLimit,       \* CONCURRENCY
          Breaks          \* bound: answers lost, peers gone or refusing

Peer == Range(Peers)

ASSUME EventAssumption ==
  /\ Peers \in Seq(Peer)
  /\ LocalPeers \subseteq Peer /\ Authenticated \subseteq Peer
  /\ LoadTimeouts \in Seq(Nat \ {0}) /\ LoadTimeouts # <<>>
  /\ AuthTimeout \in Nat \ {0} /\ StatfsTimeout \in Nat \ {0}
  /\ MuxLimit \in Nat \ {0} /\ Breaks \in Nat

VARIABLES queue,  \* the events, in the order they were added
          turn,   \* where the program is in a turn, and the sets of select
          req,    \* the request of each host
          sock    \* the descriptors, by number

evvars == <<queue, turn, req, sock>>

\* An event of host h: its callback, its descriptor, the ticks left to its
\* timeout (-1: not specified), and whether it is over at end_time.
Event(h, callback, fd, timeout) ==
  [h |-> h, callback |-> callback, fd |-> fd, left |-> timeout, due |-> FALSE]

NoTimeout == -1

\* The filter of an event: its callback sends, or it receives.
Writes == {"get_load_send", "connect_start_auth", "ask_method", "send_keytype", "statfs_send"}

(***************************************************************************)
(* Sockets                                                                 *)
(***************************************************************************)
ClosedFd == [open |-> FALSE, kind |-> "none", state |-> "none", wire |-> <<>>, inbox |-> <<>>,
             late |-> FALSE]

FreeFd(S) == Min({f \in DOMAIN S : ~S[f].open})

\* socket and connect: the smallest number that is free.
Socket(S, f, kind, state) ==
  [S EXCEPT ![f] = [ClosedFd EXCEPT !.open = TRUE, !.kind = kind, !.state = state]]

\* The peer will answer a message.
Sent(S, f, answers) == [S EXCEPT ![f].wire = @ \o answers]

Received(S, f) == [S EXCEPT ![f].inbox = Tail(@)]

ReadReady(f)  == sock[f].inbox # <<>>
WriteReady(f) == sock[f].state # "progress"

Failing(f) == \/ sock[f].state = "refused"
              \/ sock[f].inbox # <<>> /\ Head(sock[f].inbox) = "error"

(***************************************************************************)
(* What a callback does after its event has left the queue: Q              *)
(***************************************************************************)
\* gfarm_eventqueue_add_event: EINVAL if the event is in the queue already.
Added(Q, e) == Append(Q, e)

\* It has added the next event of its request; S are the sockets.
GoesOn(Q, h, callback, f, timeout, S) ==
  /\ queue' = Added(Q, Event(h, callback, f, timeout))
  /\ req' = [req EXCEPT ![h].at = callback, ![h].fd = f]
  /\ sock' = S

\* The request of h has ended; the continuation has freed its events.
Ends(Q, h, at, S) ==
  /\ queue' = Q
  /\ req' = [req EXCEPT ![h].at = at]
  /\ sock' = S

\* The load or the connection has failed: the descriptor is closed.
Drops(Q, h) == Ends(Q, h, "failed", [sock EXCEPT ![req[h].fd] = ClosedFd])

\* The disk space is not known: the connection stays in the cache, unless the
\* error was one of the connection, which purges it.
Keeps(Q, h, late) == Ends(Q, h, "failed", [sock EXCEPT ![req[h].fd].late = late])

\* gfarm_auth_request_multiplexed, or its error if no method can be used.
StartAuth(Q, h, f, S) ==
  IF h \in Authenticated THEN GoesOn(Q, h, "receive_methods", f, AuthTimeout, S)
  ELSE Ends(Q, h, "denied", [S EXCEPT ![f] = ClosedFd])

\* gfs_client_connect_request_multiplexed, called by search_idle_load_callback
\* after the descriptor f of the load is closed.
Connect(Q, h, S) ==
  LET f == FreeFd(S)
  IN  IF h \in LocalPeers
      THEN StartAuth(Q, h, f, Sent(Socket(S, f, "stream", "connected"), f, <<"methods">>))
      ELSE GoesOn(Q, h, "connect_start_auth", f, NoTimeout, Socket(S, f, "stream", "progress"))

(***************************************************************************)
(* The callbacks of writable events                                        *)
(***************************************************************************)
\* gfs_client_get_load_send.
GetLoadSend(Q, h, f) ==
  IF Failing(f) THEN Drops(Q, h)
  ELSE GoesOn(Q, h, "get_load_receive", f, LoadTimeouts[req[h].try], Sent(sock, f, <<"load">>))

\* gfs_client_connect_start_auth: SO_ERROR tells a refused connection only.
ConnectStartAuth(Q, h, f) ==
  IF sock[f].state = "refused" THEN Drops(Q, h) ELSE StartAuth(Q, h, f, sock)

\* gfarm_auth_request_loop_ask_method,
\* gfarm_auth_request_sharedsecret_send_keytype.
AuthSend(Q, h, f, callback, answers) ==
  IF Failing(f) THEN Drops(Q, h) ELSE GoesOn(Q, h, callback, f, AuthTimeout, Sent(sock, f, answers))

\* gfs_client_statfs_send_request.
StatfsSend(Q, h, f) ==
  IF Failing(f) THEN Drops(Q, h)
  ELSE GoesOn(Q, h, "statfs_receive", f, StatfsTimeout, Sent(sock, f, <<"statfs">>))

WriteCallback(Q, e) ==
  LET h == e.h f == e.fd
  IN  \/ e.callback = "get_load_send"      /\ GetLoadSend(Q, h, f)
      \/ e.callback = "connect_start_auth" /\ ConnectStartAuth(Q, h, f)
      \/ e.callback = "ask_method"   /\ AuthSend(Q, h, f, "dispatch_method", <<"method">>)
      \/ e.callback = "send_keytype" /\ AuthSend(Q, h, f, "receive_keytype", <<"keytype", "challenge">>)
      \/ e.callback = "statfs_send"        /\ StatfsSend(Q, h, f)

(***************************************************************************)
(* The callbacks of readable events                                        *)
(***************************************************************************)
\* GFARM_EVENT_TIMEOUT: the load is asked for again, as long as a timeout is
\* left, anything else fails.
TimeoutCallback(Q, e) ==
  LET h == e.h
  IN  IF e.callback # "get_load_receive"
      THEN IF e.callback = "statfs_receive" THEN Keeps(Q, h, TRUE) ELSE Drops(Q, h)
      ELSE IF req[h].try = Len(LoadTimeouts) THEN Drops(Q, h)
      ELSE /\ queue' = Added(Q, Event(h, "get_load_send", e.fd, NoTimeout))
           /\ req' = [req EXCEPT ![h].at = "get_load_send", ![h].try = @ + 1]
           /\ UNCHANGED sock

\* GFARM_EVENT_READ, with something to read.
ReadCallback(Q, e) ==
  LET h == e.h  f == e.fd  S == Received(sock, f)
  IN  IF Failing(f) THEN Drops(Q, h)
      ELSE \/ /\ e.callback = "get_load_receive"
              /\ Connect(Q, h, [sock EXCEPT ![f] = ClosedFd])
           \/ /\ e.callback \in {"receive_methods", "dispatch_method"}
              /\ GoesOn(Q, h, IF e.callback = "receive_methods" THEN "ask_method" ELSE "send_keytype",
                        f, NoTimeout, S)
           \/ /\ e.callback = "receive_keytype"
              /\ GoesOn(Q, h, "receive_challenge", f, AuthTimeout, S)
           \/ /\ e.callback = "receive_challenge"
              /\ GoesOn(Q, h, "receive_result", f, AuthTimeout, Sent(S, f, <<"result">>))
           \/ /\ e.callback = "receive_result"
              /\ GoesOn(Q, h, "statfs_send", f, NoTimeout, S)
           \/ /\ e.callback = "statfs_receive"
              /\ Ends(Q, h, "ok", S)

(***************************************************************************)
(* gfarm_eventqueue_turn                                                   *)
(***************************************************************************)
IsReady(e) == IF e.callback \in Writes THEN e.fd \in turn.wset ELSE e.fd \in turn.rset

\* select has found descriptors ready, or the time of an event is over.
Select ==
  LET r == {queue[i].fd : i \in {j \in DOMAIN queue : queue[j].callback \notin Writes}}
      w == {queue[i].fd : i \in {j \in DOMAIN queue : queue[j].callback \in Writes}}
      rset == {f \in r : ReadReady(f)}
      wset == {f \in w : WriteReady(f)}
  IN  /\ turn.pc = "idle" /\ queue # <<>>
      /\ rset # {} \/ wset # {} \/ \E i \in DOMAIN queue : queue[i].left = 0
      /\ turn' = [turn EXCEPT !.pc = "visit", !.i = 1, !.rset = rset, !.wset = wset]
      /\ queue' = [i \in DOMAIN queue |-> [queue[i] EXCEPT !.due = queue[i].left = 0]]
  /\ UNCHANGED <<req, sock>>

\* The next event of the list, n, is taken down before the callback is called:
\* what a callback of the last event adds has to wait for the next turn.  What
\* other callbacks add is visited in this one, with the sets of its select; a
\* callback that finds nothing to read waits in gfp_xdr_recv.
VisitedTo(i) == turn' = IF turn.i = Len(queue)
                        THEN [turn EXCEPT !.pc = "idle", !.i = 0, !.rset = {}, !.wset = {}]
                        ELSE [turn EXCEPT !.i = i]

\* Mutant: an event is not taken out of the queue for its timeout.
VisitKeeping ==
  /\ turn.pc = "visit"
  /\ LET e == queue[turn.i]
         Q == RemoveAt(queue, turn.i)
     IN  IF IsReady(e)
         THEN IF e.callback \in Writes THEN VisitedTo(turn.i) /\ WriteCallback(Q, e)
              ELSE ReadReady(e.fd) /\ VisitedTo(turn.i) /\ ReadCallback(Q, e)
         ELSE IF e.due THEN VisitedTo(turn.i + 1) /\ TimeoutCallback(queue, e)
         ELSE VisitedTo(turn.i + 1) /\ UNCHANGED <<queue, req, sock>>

\* Mutant: the timeout is tested first.
VisitDueFirst ==
  /\ turn.pc = "visit"
  /\ LET e == queue[turn.i]
         Q == RemoveAt(queue, turn.i)
     IN  IF e.due THEN VisitedTo(turn.i) /\ TimeoutCallback(Q, e)
         ELSE IF ~IsReady(e) THEN VisitedTo(turn.i + 1) /\ UNCHANGED <<queue, req, sock>>
         ELSE IF e.callback \in Writes THEN VisitedTo(turn.i) /\ WriteCallback(Q, e)
         ELSE ReadReady(e.fd) /\ VisitedTo(turn.i) /\ ReadCallback(Q, e)

Visit ==
  /\ turn.pc = "visit"
  /\ LET e == queue[turn.i]
         Q == RemoveAt(queue, turn.i)
     IN  IF IsReady(e)
         THEN IF e.callback \in Writes THEN VisitedTo(turn.i) /\ WriteCallback(Q, e)
              ELSE ReadReady(e.fd) /\ VisitedTo(turn.i) /\ ReadCallback(Q, e)
         ELSE IF e.due THEN VisitedTo(turn.i) /\ TimeoutCallback(Q, e)
         ELSE VisitedTo(turn.i + 1) /\ UNCHANGED <<queue, req, sock>>

(***************************************************************************)
(* The program                                                             *)
(***************************************************************************)
InProgress == {h \in Peer : req[h].at \notin {"none", "ok", "failed", "denied"}}

\* search_idle_try_host, between turns: gfs_client_get_load_request_multiplexed.
GetLoadRequest(h) ==
  /\ turn.pc = "idle" /\ req[h].at = "none" /\ Cardinality(InProgress) < MuxLimit
  /\ \A i \in DOMAIN Peers : Peers[i] = h => \A j \in 1 .. i - 1 : req[Peers[j]].at # "none"
  /\ LET f == FreeFd(sock)
     IN  GoesOn(queue, h, "get_load_send", f, NoTimeout, Socket(sock, f, "datagram", "connected"))
  /\ UNCHANGED turn

\* Later, a procedure on the connection that the search has left in the cache
\* takes what it reads first for its answer.
CachedRpc(h) ==
  /\ turn.pc = "idle" /\ InProgress = {} /\ req[h].at \in {"ok", "failed"} /\ req[h].first = "none"
  /\ sock[req[h].fd].open
  /\ LET answers == sock[req[h].fd].inbox \o sock[req[h].fd].wire \o <<"rpc">>
     IN  req' = [req EXCEPT ![h].first = Head(answers)]
  /\ UNCHANGED <<queue, turn, sock>>

(***************************************************************************)
(* The network and the clock                                               *)
(***************************************************************************)
\* An answer arrives.
Arrive(f) == /\ sock[f].wire # <<>>
             /\ sock' = [sock EXCEPT ![f].wire = Tail(@), ![f].inbox = Append(@, Head(sock[f].wire))]
             /\ UNCHANGED <<queue, turn, req>>

\* The connection is established, and gfsd tells its methods.
Establish(f) == /\ sock[f].state = "progress"
                /\ sock' = [sock EXCEPT ![f].state = "connected", ![f].wire = <<"methods">>]
                /\ UNCHANGED <<queue, turn, req>>

\* It is refused, the peer goes away, or a datagram is refused or lost.
Break(f, fault) ==
  /\ turn.breaks > 0 /\ sock[f].open
  /\ \/ /\ fault = "refused" /\ sock[f].state = "progress"
        /\ sock' = [sock EXCEPT ![f].state = "refused", ![f].inbox = <<"error">>]
     \/ /\ fault = "gone" /\ sock[f].state = "connected"
        /\ sock' = [sock EXCEPT ![f].wire = <<>>, ![f].inbox = Append(@, "error")]
     \/ /\ fault = "lost" /\ sock[f].kind = "datagram" /\ sock[f].wire # <<>>
        /\ sock' = [sock EXCEPT ![f].wire = Tail(@)]
  /\ turn' = [turn EXCEPT !.breaks = @ - 1]
  /\ req' = [h \in Peer |-> IF h \in InProgress /\ req[h].fd = f
                            THEN [req[h] EXCEPT !.excused = @ \/ fault # "lost"] ELSE req[h]]
  /\ UNCHANGED queue

\* A tick; an event whose time is over without an answer is an excuse, if it is
\* the last one that the request waits for.
ClockTick ==
  /\ \E i \in DOMAIN queue : queue[i].left > 0
  /\ queue' = [i \in DOMAIN queue |->
                 IF queue[i].left > 0 THEN [queue[i] EXCEPT !.left = @ - 1] ELSE queue[i]]
  /\ LET over == {queue[i].h : i \in {j \in DOMAIN queue : queue[j].left = 1 /\ ~ReadReady(queue[j].fd)}}
         last == {h \in over : req[h].at = "get_load_receive" => req[h].try = Len(LoadTimeouts)}
     IN  req' = [h \in Peer |-> IF h \in last THEN [req[h] EXCEPT !.excused = TRUE] ELSE req[h]]
  /\ UNCHANGED <<turn, sock>>

(***************************************************************************)
(* Specification                                                           *)
(***************************************************************************)
EventInit ==
  /\ queue = <<>>
  /\ turn = [pc |-> "idle", i |-> 0, rset |-> {}, wset |-> {}, breaks |-> Breaks]
  /\ req = [h \in Peer |-> [at |-> "none", fd |-> 0, try |-> 1, excused |-> FALSE, first |-> "none"]]
  /\ sock = [f \in 1 .. Len(Peers) |-> ClosedFd]

EventStep == Select \/ Visit \/ \E h \in Peer : GetLoadRequest(h)

\* Connections are established, answers arrive, time passes.
Outside == ClockTick \/ \E f \in DOMAIN sock : Arrive(f) \/ Establish(f)

EventNext ==
  \/ EventStep
  \/ \E h \in Peer : CachedRpc(h)
  \/ \E f \in DOMAIN sock, fault \in {"refused", "gone", "lost"} : Break(f, fault)
  \/ Outside

\* The program runs, and so does what is outside of it.
EventFairness == WF_evvars(EventStep) /\ WF_evvars(Outside)

EventSpec == EventInit /\ [][EventNext]_evvars /\ EventFairness

(***************************************************************************)
(* Properties                                                              *)
(***************************************************************************)
\* Each request in progress has exactly one event in the queue, of the step that
\* it has come to and of a descriptor that is its own and open: no callback is
\* called on a request that is over, whose events have been freed, no request is
\* forgotten, and select is never given a closed descriptor.
OneEvent ==
  /\ \A i \in DOMAIN queue :
       LET e == queue[i]
       IN  e.h \in InProgress /\ req[e.h].at = e.callback /\ req[e.h].fd = e.fd /\ sock[e.fd].open
  /\ \A h \in InProgress : Cardinality({i \in DOMAIN queue : queue[i].h = h}) = 1
  /\ \A g, h \in InProgress : g # h => req[g].fd # req[h].fd

\* assert(events == GFARM_EVENT_READ), in every callback of a readable event: it is
\* called when there is something to read, so that it never waits for one host
\* while others could be served, nor beyond the timeout of its event.
ReadOnReady == turn.pc = "visit" /\ queue[turn.i].callback \notin Writes /\ IsReady(queue[turn.i])
                 => ReadReady(queue[turn.i].fd)

\* A request fails for a reason only: its host has refused, gone away, or not
\* answered by the end of its last timeout.
FailsForReason == \A h \in Peer : req[h].at = "failed" => req[h].excused

\* A connection that the search leaves in the cache is not owed an answer that the
\* next procedure would take for its own, unless the search has given up waiting
\* for it: then nothing purges the connection.
CachedClean == \A h \in Peer : req[h].first \notin {"none", "rpc", "error"} => sock[req[h].fd].late

\* A request has its event while it is in progress, ends for a reason, and leaves
\* nothing behind.
RequestsRight == OneEvent /\ FailsForReason /\ CachedClean
=============================================================================
