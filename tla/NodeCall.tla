------------------------------ MODULE NodeCall -------------------------------
(* How a client opens, copies and examines files on file system nodes        *)
(* (gfs_pio_section.c, gfs_replicate.c, gfs_statfsnode.c): a connection from *)
(* the cache, which may be stale, or a new one, the process set on it once,  *)
(* the call, and the retries of each, while the nodes go down and come back. *)
EXTENDS Integers, FiniteSets

CONSTANTS Node,        \* file system nodes
          LocalNode,   \* the node of the client: reached by a unix socket
          Link,        \* struct gfs_connection
          NoLink,      \* no connection
          NoNode,      \* no node chosen yet: host == NULL
          Holders,     \* the nodes with a replica of the file at first
          Kinds,       \* of calls
          OnDemand,    \* the settings of gf_on_demand_replication
          MaxRetry,    \* max_retry
          MaxCalls,    \* bound of the calls
          MaxProbes,   \* bound of the connections that schedule.c leaves in the cache
          MaxLost      \* bound of the times connections break or a node goes down

ASSUME NodeCallAssumption == /\ LocalNode \in Node /\ NoLink \notin Link /\ NoNode \notin Node
                             /\ Holders \in (SUBSET Node) \ {{}}
                             /\ Kinds \subseteq {"open", "replicate", "statfs"}
                             /\ OnDemand \subseteq BOOLEAN /\ MaxRetry \in Nat
                             /\ MaxCalls \in Nat /\ MaxProbes \in Nat /\ MaxLost \in Nat

\* There is memory for a connection to each node.
ASSUME EnoughLinks == /\ IsFiniteSet(Node) /\ IsFiniteSet(Link)
                      /\ Cardinality(Node) <= Cardinality(Link)

VARIABLES links,  \* of each connection: live, node, ok, pid (process set), cached, refs
          nodes,  \* up, replicas, ondemand (the client's setting), and lost and probes,
                  \* what the bounds count
          nc      \* the call: kind, pc, host, link, retry, tries (within connect_and_open),
                  \* again (connect_and_open is called again), assigned, sub (the copy to
                  \* the local node inside gfarm_schedule_file), how many calls, and what
                  \* happened since its node was chosen: away (a node was down or refused),
                  \* breaks, unset (a stale connection without process) and gaveup: the
                  \* requests for which a connection error was final

ncvars == <<links, nodes, nc>>

NoCall == [kind |-> "none", pc |-> "idle", host |-> NoNode, link |-> NoLink, retry |-> 0, tries |-> 0,
           again |-> FALSE, assigned |-> FALSE, sub |-> FALSE, calls |-> 0, away |-> FALSE,
           breaks |-> 0, unset |-> FALSE, gaveup |-> {}]

NodeCallInit ==
  /\ links = [c \in Link |-> [live |-> FALSE, node |-> LocalNode, ok |-> FALSE, pid |-> FALSE,
                              cached |-> FALSE, refs |-> 0]]
  /\ nodes \in [up : {Node}, replicas : {Holders}, ondemand : OnDemand, lost : {0}, probes : {0}]
  /\ nc = NoCall

\* Where the connection goes: the copy inside gfarm_schedule_file is made by the local node.
Target == IF nc.sub THEN LocalNode ELSE nc.host

\* What is called there: GFS_PROTO_OPEN, _REPLICA_ADD_FROM or _STATFS.
NodeRequest == CASE nc.sub \/ nc.kind = "replicate" -> "copy"
                 [] ~nc.sub /\ nc.kind = "open"      -> "open"
                 [] ~nc.sub /\ nc.kind = "statfs"    -> "statfs"

\* The nodes that the call needs.
Involved(n) == {n.host} \cup (IF n.kind = "open" /\ nodes.ondemand THEN {LocalNode} ELSE {})

\* A connection that is stale, and on which no process was set.
StaleUnset(h) == \E c \in Link : /\ links[c].live /\ links[c].cached /\ links[c].node = h
                               /\ ~links[c].ok /\ ~links[c].pid

(***************************************************************************)
(* References, as conn_cache.c counts them                                 *)
(***************************************************************************)
Cached(h) == {c \in Link : links[c].live /\ links[c].cached /\ links[c].node = h}
Spare     == CHOOSE c \in Link : ~links[c].live

\* gfs_client_purge_from_cache.
Purged(l, c) == [l EXCEPT ![c].cached = FALSE]

\* gfs_client_connection_free: with the last reference an uncached one goes.
Freed(l, c) == [l EXCEPT ![c].refs = @ - 1, ![c].live = @ /\ (l[c].refs > 1 \/ l[c].cached)]

New(h, refs) == [live |-> TRUE, node |-> h, ok |-> TRUE, pid |-> FALSE, cached |-> TRUE, refs |-> refs]

(***************************************************************************)
(* The ends of an attempt                                                  *)
(***************************************************************************)
Ended(n) == [NoCall EXCEPT !.calls = n.calls, !.away = n.away, !.breaks = n.breaks,
                           !.unset = n.unset, !.gaveup = n.gaveup]

\* Mutant: the retries of a file without node are not counted.
RescheduleForever(n, e) ==
  IF e = "nonode" \/ (n.retry < MaxRetry /\ e = "conn" /\ n.assigned)
  THEN [n EXCEPT !.host = NoNode, !.link = NoLink, !.pc = "schedule",
                 !.tries = 0, !.again = FALSE, !.sub = FALSE]
  ELSE Ended(n)

\* gfs_pio_internal_set_view_section after an error e of the schedule or of the
\* open: "reschedule another host unless host is explicitly specified".
Reschedule(n, e) ==
  IF n.retry < MaxRetry /\ (e = "nonode" \/ (e = "conn" /\ n.assigned))
  THEN [n EXCEPT !.retry = @ + 1, !.host = NoNode, !.link = NoLink, !.pc = "schedule",
                 !.tries = 0, !.again = FALSE, !.sub = FALSE]
  ELSE Ended(n)

\* The attempt at the target is over, with an error.  Inside gfarm_schedule_file the
\* node chosen serves if there is a replica at the local node already, or if that is
\* unknown ("local host is too busy to select or unknown host"); and
\* connect_and_open_with_reconnection tries once more.
AttemptOver(m, e) ==
  LET n == [m EXCEPT !.link = NoLink, !.tries = 0,
                     !.gaveup = IF e = "conn" /\ (NodeRequest # "open" \/ m.again)
                                THEN @ \cup {NodeRequest} ELSE @]
  IN  CASE nc.sub /\ e \in {"exists", "unknown"} ->
             [n EXCEPT !.sub = FALSE, !.assigned = TRUE, !.pc = "acquire"]
        [] nc.sub /\ e \notin {"exists", "unknown"} -> Reschedule(n, e)
        [] NodeRequest = "open" /\ (e # "conn" \/ n.again) -> Reschedule(n, e)
        [] NodeRequest = "open" /\ e = "conn" /\ ~n.again ->
             [n EXCEPT !.again = TRUE, !.pc = "acquire"]
        [] nc.kind # "open" -> Ended(n)

\* Mutant: connect_and_open tries another connection as the others do.
AfterRequestError(n, e) ==
  IF e = "conn" /\ n.tries = 0 /\ n.pc = "request"
  THEN [n EXCEPT !.tries = 1, !.link = NoLink, !.pc = "acquire"]
  ELSE AttemptOver(n, e)

\* After a connection error one more connection is tried: by connect_and_open
\* whatever it was that failed, by the others if it was the request.
AfterError(n, e) ==
  IF e = "conn" /\ n.tries = 0 /\ (NodeRequest = "open" \/ n.pc = "request")
  THEN [n EXCEPT !.tries = 1, !.link = NoLink, !.pc = "acquire"]
  ELSE AttemptOver(n, e)

\* Mutant: the connection is not released before another one is tried.
CallFailedKeeps(l, n, e) ==
  /\ links' = IF AfterError(n, e).tries = 1 THEN l ELSE Freed(l, nc.link)
  /\ nc' = AfterError(n, e)

\* The connection is released in any case.
CallFailed(l, n, e) == links' = Freed(l, nc.link) /\ nc' = AfterError(n, e)

(***************************************************************************)
(* The steps of a call                                                     *)
(***************************************************************************)
\* The first access to an open file, gfs_replicate_to or gfs_statfsnode.
Start(kind, h) ==
  /\ nc.pc = "idle" /\ nc.calls < MaxCalls
  /\ nc' = [NoCall EXCEPT !.kind = kind, !.host = IF kind = "open" THEN NoNode ELSE h,
                          !.pc = IF kind = "open" THEN "schedule" ELSE "acquire",
                          !.calls = nc.calls + 1, !.away = h \notin nodes.up,
                          !.unset = StaleUnset(h)]
  /\ UNCHANGED <<links, nodes>>

\* gfarm_schedule_file chose a node, which may be down by now, and copies the file
\* to the local node first (sub), unless gfmd does not know that node.
gfarm_schedule_file(h) ==
  /\ nc.pc = "schedule" /\ h \in nodes.replicas
  /\ \E sub \in IF nodes.ondemand /\ h # LocalNode THEN BOOLEAN ELSE {FALSE} :
       nc' = [nc EXCEPT !.host = h, !.pc = "acquire", !.sub = sub, !.assigned = @ \/ ~sub,
                        !.away = ~(Involved([nc EXCEPT !.host = h]) \subseteq nodes.up),
                        !.breaks = 0, !.gaveup = {}, !.unset = StaleUnset(LocalNode)]
  /\ UNCHANGED <<links, nodes>>

\* It found no node, or failed for another reason.
gfarm_schedule_file_failed ==
  /\ nc.pc = "schedule"
  /\ \E e \in {"other"} \cup (IF nodes.replicas \cap nodes.up = {} THEN {"nonode"} ELSE {}) :
       nc' = Reschedule(nc, e)
  /\ UNCHANGED <<links, nodes>>

\* gfs_client_connection_acquire_by_host: from the cache, or a new one, that the node
\* may refuse; connect_and_open then keeps the error of the first try.
Acquire ==
  /\ nc.pc = "acquire"
  /\ IF Cached(Target) # {}
     THEN LET c == CHOOSE k \in Cached(Target) : TRUE
          IN  /\ links' = [links EXCEPT ![c].refs = @ + 1]
              /\ nc' = [nc EXCEPT !.link = c, !.pc = IF links[c].pid THEN "request" ELSE "set"]
     ELSE IF Target \in nodes.up
     THEN \/ /\ links' = [links EXCEPT ![Spare] = New(Target, 1)]
             /\ nc' = [nc EXCEPT !.link = Spare, !.pc = "set"]
          \/ /\ nc' = AttemptOver([nc EXCEPT !.away = TRUE],
                          IF NodeRequest = "open" /\ nc.tries = 1 THEN "conn" ELSE "other")
             /\ UNCHANGED links
     ELSE nc' = AttemptOver(nc, "conn") /\ UNCHANGED links
  /\ UNCHANGED nodes

\* gfarm_client_process_set.
ProcessSet ==
  /\ nc.pc = "set"
  /\ IF links[nc.link].ok
     THEN \/ /\ links' = [links EXCEPT ![nc.link].pid = TRUE]
             /\ nc' = [nc EXCEPT !.pc = "request"]
          \/ CallFailed(links, nc, "other")
     ELSE CallFailed(Purged(links, nc.link), nc, "conn")
  /\ UNCHANGED nodes

\* The request succeeded: the file is open, or the connection is released, and an
\* open that was waiting for the copy goes on at the local node.
Done ==
  IF NodeRequest = "open" THEN nc' = [nc EXCEPT !.pc = "opened"] /\ UNCHANGED <<links, nodes>>
  ELSE /\ links' = Freed(links, nc.link)
       /\ nc' = IF nc.sub THEN [nc EXCEPT !.sub = FALSE, !.assigned = TRUE, !.host = LocalNode,
                                          !.link = NoLink, !.tries = 0, !.pc = "acquire"]
                ELSE Ended(nc)
       /\ nodes' = IF NodeRequest = "copy" THEN [nodes EXCEPT !.replicas = @ \cup {Target}] ELSE nodes

\* gfs_client_open, _open_local, _replica_add_from or _statfs on a connection that works.
RequestAnswered ==
  /\ nc.pc = "request" /\ links[nc.link].ok
  /\ \/ /\ NodeRequest = "copy" => Target \notin nodes.replicas
        /\ Done
     \/ /\ NodeRequest = "copy" /\ Target \in nodes.replicas
        /\ CallFailed(links, nc, "exists") /\ UNCHANGED nodes
     \/ \E e \in {"other"} \cup (IF NodeRequest = "copy" THEN {"unknown"} ELSE {}) :
          CallFailed(links, nc, e) /\ UNCHANGED nodes

\* ... on one that is lost.
RequestFailed == /\ nc.pc = "request" /\ ~links[nc.link].ok
                 /\ CallFailed(Purged(links, nc.link), nc, "conn")
                 /\ UNCHANGED nodes

\* The connection breaks after the node did what was asked; if the answer has been
\* read and only the descriptor is missing, nobody purges the connection.
AnswerLost ==
  /\ nc.pc = "request" /\ links[nc.link].ok /\ nodes.lost < MaxLost
  /\ LET l == [links EXCEPT ![nc.link].ok = FALSE]
     IN  \E k \in {Purged(l, nc.link)} \cup
                  (IF NodeRequest = "open" /\ Target = LocalNode THEN {l} ELSE {}) :
           CallFailed(k, [nc EXCEPT !.breaks = @ + 1], "conn")
  /\ nodes' = [nodes EXCEPT !.lost = @ + 1,
                            !.replicas = IF NodeRequest = "copy" THEN @ \cup {Target} ELSE @]

\* A read, a write or a stat of the open file.
Access == /\ nc.pc = "opened" /\ ~links[nc.link].ok
          /\ links' = Purged(links, nc.link)
          /\ UNCHANGED <<nodes, nc>>

\* gfs_pio_view_section_close.
Close == /\ nc.pc = "opened"
         /\ links' = Freed(IF links[nc.link].ok THEN links ELSE Purged(links, nc.link), nc.link)
         /\ nc' = Ended(nc)
         /\ UNCHANGED nodes

(***************************************************************************)
(* The nodes                                                               *)
(***************************************************************************)
\* search_idle_connect_callback: an authenticated connection enters the cache.
Probe(h) == /\ nc.pc = "idle" /\ h \in nodes.up /\ Cached(h) = {} /\ nodes.probes < MaxProbes
            /\ links' = [links EXCEPT ![Spare] = New(h, 0)]
            /\ nodes' = [nodes EXCEPT !.probes = @ + 1]
            /\ UNCHANGED nc

Break(h) == /\ \E c \in Link : links[c].live /\ links[c].ok /\ links[c].node = h
            /\ nodes.lost < MaxLost
            /\ links' = [c \in Link |-> IF links[c].node = h THEN [links[c] EXCEPT !.ok = FALSE]
                                        ELSE links[c]]
            /\ nodes' = [nodes EXCEPT !.lost = @ + 1]
            /\ nc' = IF nc.pc # "idle" /\ h \in Involved(nc) THEN [nc EXCEPT !.breaks = @ + 1] ELSE nc

Down(h) == /\ h \in nodes.up /\ nodes.lost < MaxLost
           /\ links' = [c \in Link |-> IF links[c].node = h THEN [links[c] EXCEPT !.ok = FALSE]
                                       ELSE links[c]]
           /\ nodes' = [nodes EXCEPT !.up = @ \ {h}, !.lost = @ + 1]
           /\ nc' = IF nc.pc # "idle" /\ h \in Involved(nc) THEN [nc EXCEPT !.away = TRUE] ELSE nc

Up(h) == /\ h \notin nodes.up
         /\ nodes' = [nodes EXCEPT !.up = @ \cup {h}]
         /\ UNCHANGED <<links, nc>>

CallStep == \/ \E h \in Node : gfarm_schedule_file(h)
            \/ gfarm_schedule_file_failed
            \/ Acquire \/ ProcessSet \/ RequestAnswered \/ RequestFailed \/ AnswerLost
            \/ Close

NodeCallNext == \/ CallStep \/ Access
                \/ \E h \in Node : \/ \E kind \in Kinds : Start(kind, h)
                                   \/ Probe(h) \/ Break(h) \/ Down(h) \/ Up(h)

NodeCallSpec == NodeCallInit /\ [][NodeCallNext]_ncvars

(***************************************************************************)
(* Properties                                                              *)
(***************************************************************************)
\* Every way through the retries keeps exactly the reference of the connection in
\* use, and none after a failure: otherwise connections pile up, or one that the
\* cache still finds is disposed of.
ReferencesKept ==
  \A c \in Link : /\ links[c].refs = (IF c = nc.link THEN 1 ELSE 0)
                  /\ links[c].live <=> links[c].refs > 0 \/ links[c].cached
                  /\ links[c].live /\ links[c].cached => Cached(links[c].node) = {c}

\* A stale connection alone never costs a caller more than a retry: an open leaves a
\* node that stayed up only after two more connections broke, also when the first
\* break was in the middle of the descriptor and left the connection in the cache;
\* a copy or a statfs fails only if one broke during the call, or if the stale one
\* came from the scheduling and had no process yet.
StaleOnce ==
  \A r \in nc.gaveup : nc.away \/ nc.breaks >= (IF r = "open" THEN 2 ELSE 1)
                               \/ (r # "open" /\ nc.unset)

\* The retries neither lose a connection nor give up a node that only a stale one
\* makes look lost.
NodesReached == ReferencesKept /\ StaleOnce
=============================================================================
