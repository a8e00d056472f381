----------------------------- MODULE SearchIdle -----------------------------
(* How libgfarm selects a file system node (schedule.c): the hosts of the   *)
(* local network, then of the others by round trip time, are asked for      *)
(* their load, authenticated and asked for their disk space, several at a   *)
(* time, until enough idle ones are found.  What is learnt is cached for    *)
(* the next search.  The callbacks run only in a turn of the event queue.   *)
EXTENDS Integers, Sequences, FiniteSets, SequencesExt

CONSTANTS Order,        \* every host, in the order the metadata server lists them
          NetOf,        \* the network of a host
          Nets,         \* search_idle_network_list
          LocalNet,     \* search_idle_local_net
          Ncpu,         \* of a host
          Modes,        \* default_search_method: "loadavg", "auth"
          Desired,      \* desired_number
          EnoughRate,   \* ENOUGH_RATE
          Concurrency,  \* CONCURRENCY
          PerNet,       \* PER_NET_CONCURRENCY
          RttThresh,    \* RTT_THRESH
          IdleLoad, SemiLoad, VirtualLoad, MinDisk,  \* configuration
          RttOf,        \* how far a host is
          Loads, Disks, \* what each host, and any host, may answer
          Infos,        \* what the metadata server may say of each: <<>>, <<load, disk>>
          Plans,        \* the searches, by the hosts that are up at each of them
          Olds,         \* sets of hosts whose cache may expire
          MaxFails      \* bound: requests that fail

Hosts == Range(Order)

ASSUME SearchAssumption ==
  /\ Order \in Seq(Hosts) /\ Nets \in Seq(Range(Nets)) /\ Plans \subseteq Seq(SUBSET Hosts)
  /\ NetOf \in [Hosts -> Range(Nets)] /\ LocalNet \in Range(Nets)
  /\ Concurrency \in Nat \ {0} /\ PerNet \in Nat \ {0} /\ Desired \in Nat \ {0}
  /\ Ncpu \in [Hosts -> Nat \ {0}] /\ IdleLoad \in Nat /\ SemiLoad \in Nat
  /\ VirtualLoad \in Nat /\ MinDisk \in Nat /\ Disks \subseteq Nat
  /\ Loads \in [Hosts -> SUBSET Nat] /\ Infos \subseteq [Hosts -> {<<>>} \cup Nat \X Nat]

VARIABLES host,  \* search_idle_host_state of each host
          net,   \* rtt_usec (0: unknown) and ongoing of each network
          out,   \* the request in progress of each host, and its do_record
          si,    \* where the search is and its search_idle_state
          plan   \* the hosts that are up at each search

searchvars == <<host, net, out, si, plan>>

NoRequest == [request |-> "none", record |-> FALSE]

NotSearching(mode, searches, faults, write, chosen) ==
  [pc |-> "idle", ret |-> "idle", phase |-> "local", mode |-> mode, write |-> write,
   cand |-> {}, nets |-> {}, left |-> {}, todo |-> {}, pass |-> {},
   cursor |-> [n \in Range(Nets) |-> {}], again |-> FALSE, unknown |-> FALSE,
   alltried |-> FALSE, available |-> 0, usable |-> 0, idle |-> 0, semi |-> 0,
   concurrency |-> 0, chosen |-> chosen, searches |-> searches, faults |-> faults]

\* The candidates of these networks, and the first of a set in the order of a list.
InNets(ns) == {h \in si.cand : NetOf[h] \in ns}

First(list, S) ==
  LET places == {i \in DOMAIN list : list[i] \in S}
  IN  list[CHOOSE i \in places : \A j \in places : i <= j]

(***************************************************************************)
(* Counting                                                                *)
(***************************************************************************)
\* search_idle_count.
HostLoad(H, h) == H[h].load + H[h].scheduled * VirtualLoad
HostUsable(H, h) == ~(si.write /\ H[h].statfs /\ H[h].disk < MinDisk)
HostIdle(H, h) == HostUsable(H, h) /\ HostLoad(H, h) <= IdleLoad * Ncpu[h]
HostSemiIdle(H, h) == HostUsable(H, h) /\ HostLoad(H, h) <= SemiLoad

\* search_idle_record_host, for every host of a set, whose state is H.
RecordHosts(s, H, hs) ==
  [s EXCEPT !.available = @ + Cardinality(hs),
            !.usable = @ + Cardinality({h \in hs : HostUsable(H, h)}),
            !.idle = @ + Cardinality({h \in hs : HostIdle(H, h)}),
            !.semi = @ + Cardinality({h \in hs : HostSemiIdle(H, h)})]

\* search_idle_is_satisfied.
Satisfied(s) == \/ s.idle >= Desired
                \/ s.semi >= Desired * EnoughRate
                \/ s.available >= Cardinality(s.cand)

\* search_idle_cache_should_be_used; a candidate has an address.
CacheShouldBeUsed(h) == host[h].tried /\ host[h].fresh

\* search_idle_cache_is_available.
CacheIsAvailable(h) ==
  /\ host[h].tried /\ host[h].fresh
  /\ \/ si.write /\ host[h].auth /\ host[h].statfs /\ host[h].diskfresh
     \/ ~si.write /\ si.mode = "auth" /\ host[h].auth
     \/ ~si.write /\ si.mode = "loadavg" /\ host[h].rttavail

(***************************************************************************)
(* gfarm_schedule_select_host                                              *)
(***************************************************************************)
\* What search_idle_candidate_list_add takes from the metadata server: nothing,
\* or a load and a disk space, newer than a load that is not cached any more.
Informed(r, info) ==
  IF info = <<>> THEN r
  ELSE [r EXCEPT !.load = IF r.rttavail /\ r.fresh THEN @ ELSE info[1], !.fresh = TRUE,
                 !.disk = info[2], !.diskfresh = TRUE, !.statfs = TRUE]

\* search_idle_candidate_list_init, search_idle_candidate_list_add of the hosts that
\* are up, search_idle_init_state: since the last search the caches of the hosts
\* "old" have expired.
gfarm_schedule_select_host(up, old, info, write) ==
  /\ si.pc = "idle" /\ si.searches < Len(plan) /\ up = plan[si.searches + 1]
  /\ host' = [h \in Hosts |->
                LET r == [host[h] EXCEPT !.just = FALSE, !.available = FALSE, !.used = FALSE,
                                         !.fresh = @ /\ h \notin old,
                                         !.diskfresh = @ /\ h \notin old]
                IN  IF h \in up THEN Informed(r, info[h]) ELSE r]
  /\ net' = [n \in Range(Nets) |-> [net[n] EXCEPT !.ongoing = 0]]
  /\ si' = [si EXCEPT !.pc = "cached", !.phase = "local", !.searches = @ + 1, !.write = write,
                      !.cand = up, !.nets = {LocalNet},
                      !.chosen = <<>>]
  /\ UNCHANGED <<out, plan>>

\* gfarm_schedule_host_cache_reset.
gfarm_schedule_host_cache_reset(hs) ==
  /\ si.pc = "idle" /\ si.searches < Len(plan)
  /\ \A h \in hs : host[h].tried
  /\ host' = [h \in Hosts |-> IF h \in hs THEN [host[h] EXCEPT !.tried = FALSE, !.just = FALSE,
                                                 !.available = FALSE, !.used = FALSE]
                              ELSE host[h]]
  /\ UNCHANGED <<net, out, si, plan>>

(***************************************************************************)
(* search_idle_try_host                                                    *)
(***************************************************************************)
NeedsTrial(h) == ~host[h].just /\ ~CacheShouldBeUsed(h)

\* The load of h is asked for unless it is known; the request may fail at once.
\* The search goes on as skipped or, a request sent, as sent; or it waits first:
\* "We limit concurrency here".
TryHost(h, record, skipped, sent) ==
  IF ~NeedsTrial(h) THEN si' = skipped /\ UNCHANGED <<host, net, out>>
  ELSE IF si.concurrency >= Concurrency
  THEN si' = [si EXCEPT !.pc = "turn", !.ret = si.pc] /\ UNCHANGED <<host, net, out>>
  ELSE /\ host' = [host EXCEPT ![h].just = TRUE, ![h].tried = TRUE]
       /\ \/ si.faults > 0 /\ si' = [skipped EXCEPT !.faults = @ - 1] /\ UNCHANGED <<net, out>>
          \/ /\ si' = [sent EXCEPT !.concurrency = @ + 1]
             /\ net' = [net EXCEPT ![NetOf[h]].ongoing = @ + 1]
             /\ out' = [out EXCEPT ![h] = [request |-> "load", record |-> record]]

Outstanding == {h \in Hosts : out[h].request # "none"}

\* The turn has called the callbacks of what has arrived, or there is nothing
\* to wait for.
TurnEnds == /\ \/ si.pc = "turned"
               \/ si.pc = "turn" /\ Outstanding = {}
            /\ si' = [si EXCEPT !.pc = si.ret]
            /\ UNCHANGED <<host, net, out>>

(***************************************************************************)
(* The callbacks                                                           *)
(***************************************************************************)
InTurn == si.pc \in {"turn", "turned", "drain"}

Processed(s) == [s EXCEPT !.pc = IF @ = "turn" THEN "turned" ELSE @]

\* The request of h is over; H is what is known of the hosts, N of the
\* networks, s of the search.
Over(h, H, N, s) == /\ out' = [out EXCEPT ![h] = NoRequest]
                    /\ net' = [N EXCEPT ![NetOf[h]].ongoing = @ - 1]
                    /\ host' = H /\ si' = Processed(s)

\* It has succeeded; the host is recorded if that is what it was tried for.
Completed(h, H, N) ==
  LET s == [si EXCEPT !.concurrency = @ - 1]
  IN  IF out[h].record THEN Over(h, [H EXCEPT ![h].available = TRUE], N, RecordHosts(s, H, {h}))
      ELSE Over(h, H, N, s)

\* It has failed; concurrency is decremented by less.
Failed(h, H, N, less) ==
  /\ si.faults > 0
  /\ Over(h, H, N, [si EXCEPT !.concurrency = @ - less, !.faults = @ - 1])

\* It goes on with another request.
Continues(h, request, H, N) ==
  /\ out' = [out EXCEPT ![h].request = request]
  /\ host' = H /\ net' = N /\ si' = Processed(si)

\* search_idle_load_callback.
LoadCallback(h) ==
  /\ InTurn /\ out[h].request = "load"
  /\ \/ Failed(h, host, net, 1)
     \/ \E load \in Loads[h] :
          LET H == [host EXCEPT ![h].rttavail = TRUE, ![h].load = load, ![h].fresh = TRUE,
                                ![h].scheduled = 0]
              n == NetOf[h]
              N == [net EXCEPT ![n].rtt = IF @ = 0 \/ @ > RttOf[h] THEN RttOf[h] ELSE @]
          IN  \/ /\ si.mode = "loadavg" /\ ~si.write
                 /\ Completed(h, H, N)
              \/ /\ si.mode = "auth" \/ si.write
                 /\ \/ Continues(h, "connect", H, N)
                    \/ Failed(h, H, N, 1)

\* search_idle_connect_callback: when it fails, concurrency is decremented twice.
ConnectCallback(h) ==
  /\ InTurn /\ out[h].request = "connect"
  /\ \/ Failed(h, host, net, 2)
     \/ LET H == [host EXCEPT ![h].auth = TRUE]
        IN  \/ Continues(h, "statfs", H, net)
            \/ Failed(h, H, net, 2)

\* search_idle_statfs_callback.
StatfsCallback(h) ==
  /\ InTurn /\ out[h].request = "statfs"
  /\ \/ Failed(h, host, net, 1)
     \/ \E disk \in Disks :
          Completed(h, [host EXCEPT ![h].statfs = TRUE, ![h].diskfresh = TRUE, ![h].disk = disk],
                    net)

(***************************************************************************)
(* search_idle_in_networks                                                 *)
(***************************************************************************)
\* After the networks of this round.
Leave(s) == [s EXCEPT !.pc = IF Satisfied(s) THEN "select"
                             ELSE IF s.phase = "local" THEN "rtt" ELSE "order"]

\* The hosts of whom enough is cached are recorded.
SeeCached ==
  /\ si.pc = "cached"
  /\ LET hs == {h \in InNets(si.nets) : CacheIsAvailable(h)}
         s == RecordHosts(si, host, hs)
     IN  /\ host' = [h \in Hosts |-> IF h \in hs THEN [host[h] EXCEPT !.available = TRUE, !.used = TRUE]
                                     ELSE host[h]]
         /\ si' = IF Satisfied(s) THEN Leave(s)
                  ELSE [s EXCEPT !.pc = "try", !.todo = InNets(si.nets)]
  /\ UNCHANGED <<net, out>>

\* The others are tried, until enough are found.
TryNextHost ==
  /\ si.pc = "try"
  /\ \/ /\ si.todo = {}
        /\ si' = [si EXCEPT !.pc = "drain"] /\ UNCHANGED <<host, net, out>>
     \/ /\ si.todo # {}
        /\ LET h == First(Order, si.todo)
               next == [si EXCEPT !.todo = IF Satisfied(si) THEN {} ELSE @ \ {h}]
           IN  TryHost(h, TRUE, next, next)

\* gfarm_eventqueue_loop has nothing left.  Unless that was enough, the hosts
\* that the cache has made look busy are counted again without what has been
\* scheduled on them (search_idle_forget_scheduled).
ForgetScheduled ==
  /\ si.pc = "drain" /\ si.phase # "rtt" /\ Outstanding = {}
  /\ LET hs == {h \in InNets(si.nets) : host[h].used}
         H == [h \in Hosts |-> IF h \in hs THEN [host[h] EXCEPT !.scheduled = 0] ELSE host[h]]
         s == [si EXCEPT !.idle = @ + Cardinality({h \in hs : ~HostIdle(host, h) /\ HostIdle(H, h)}),
                         !.semi = @ + Cardinality({h \in hs : ~HostSemiIdle(host, h) /\ HostSemiIdle(H, h)})]
     IN  IF Satisfied(si) THEN host' = host /\ si' = Leave(si)
         ELSE host' = H /\ si' = Leave(s)
  /\ UNCHANGED <<net, out>>

(***************************************************************************)
(* search_idle_examine_rtt_of_all_networks                                 *)
(***************************************************************************)
\* A network with candidates, whose round trip time is not known.
RttUnknown(n) == net[n].rtt = 0 /\ \E h \in si.cand : NetOf[h] = n

\* The networks whose round trip time is known already are left out at once.
StartPass(s) == [s EXCEPT !.pc = "pass", !.pass = {n \in Range(Nets) : RttUnknown(n)}, !.again = FALSE,
                          !.unknown = FALSE, !.alltried = TRUE]

ExamineRtt == /\ si.pc = "rtt"
              /\ si' = StartPass([si EXCEPT !.phase = "rtt",
                                            !.cursor = [n \in Range(Nets) |-> InNets({n})]])
              /\ UNCHANGED <<host, net, out>>

\* One network of the pass: its next host is tried, unless enough are.
ExamineNet ==
  /\ si.pc = "pass" /\ si.pass # {}
  /\ LET n == First(Nets, si.pass)
         unknown == RttUnknown(n)
         s == [si EXCEPT !.unknown = @ \/ unknown,
                         !.alltried = @ /\ ~(unknown /\ si.cursor[n] # {})]
     IN  si' = IF unknown /\ si.cursor[n] # {} /\ net[n].ongoing < PerNet
               THEN [s EXCEPT !.pc = "trycursor"] ELSE [s EXCEPT !.pass = @ \ {n}]
  /\ UNCHANGED <<host, net, out>>

\* It is tried, and the cursor of the network advances.
TryCursor ==
  /\ si.pc = "trycursor"
  /\ LET n == First(Nets, si.pass)
         h == First(Order, si.cursor[n])
         Advance(sent) ==
           [si EXCEPT !.pc = "pass", !.pass = @ \ {n}, !.cursor[n] = @ \ {h},
                      !.again = @ \/ (net[n].ongoing + sent < PerNet /\ si.cursor[n] # {h})]
     IN  TryHost(h, FALSE, Advance(0), Advance(1))

\* Mutant: that all hosts have been tried does not matter.
PassEndsKnown ==
  /\ si.pc = "pass" /\ si.pass = {}
  /\ si' = IF si.again THEN StartPass(si)
           ELSE IF ~si.unknown THEN [si EXCEPT !.pc = "drain"]
           ELSE [si EXCEPT !.pc = "turn", !.ret = "newpass"]
  /\ UNCHANGED <<host, net, out>>

\* Another pass, at once or after a turn, or the end of the examination.
PassEnds ==
  /\ si.pc = "pass" /\ si.pass = {}
  /\ si' = IF si.again THEN StartPass(si)
           ELSE IF ~si.unknown \/ si.alltried THEN [si EXCEPT !.pc = "drain"]
           ELSE [si EXCEPT !.pc = "turn", !.ret = "newpass"]
  /\ UNCHANGED <<host, net, out>>

NewPass == si.pc = "newpass" /\ si' = StartPass(si) /\ UNCHANGED <<host, net, out>>

(***************************************************************************)
(* search_idle_by_rtt_order, and the rest of search_idle                   *)
(***************************************************************************)
Rtt(n) == net[n].rtt

\* The networks that are left, nearest first, as far as the first is similar.
NearestOf(ns) == LET near == CHOOSE n \in ns : \A m \in ns : Rtt(n) <= Rtt(m)
                 IN  {n \in ns : Rtt(n) < Rtt(near) * RttThresh}

\* Mutant: the local network is searched again.
ByRttOrderAll ==
  /\ si.pc = "drain" /\ si.phase = "rtt" /\ Outstanding = {}
  /\ si' = [si EXCEPT !.pc = "order", !.phase = "order",
                      !.left = {n \in Range(Nets) : InNets({n}) # {} /\ Rtt(n) # 0}]
  /\ UNCHANGED <<host, net, out>>

ByRttOrder ==
  /\ si.pc = "drain" /\ si.phase = "rtt" /\ Outstanding = {}
  /\ si' = [si EXCEPT !.pc = "order", !.phase = "order", !.unknown = FALSE, !.alltried = FALSE,
                      !.cursor = [n \in Range(Nets) |-> {}],
                      !.left = {n \in Range(Nets) \ {LocalNet} : InNets({n}) # {} /\ Rtt(n) # 0}]
  /\ UNCHANGED <<host, net, out>>

NextNetworks ==
  /\ si.pc = "order"
  /\ LET ns == NearestOf(si.left)
     IN  si' = IF si.left = {} THEN [si EXCEPT !.pc = "select"]
               ELSE [si EXCEPT !.pc = "cached", !.nets = ns, !.left = @ \ ns]
  /\ UNCHANGED <<host, net, out>>

\* qsort of the first n hosts, where Q has the lists to choose from: any of them that
\* agrees with the comparison; Behind(p, n) are those that go on like p behind n.
Orders(S) == Bijection(1..Cardinality(S), S)
Behind(p, n) == {q \in Orders(Range(p)) : \A i \in DOMAIN p : i > n => q[i] = p[i]}
Sorted(Q, n, Less(_, _)) == {q \in Q : \A i, j \in 1..n : i < j => ~Less(q[j], q[i])}

MoreSpace(g, h) == host[g].disk > host[h].disk
LessLoad(g, h) == HostLoad(host, g) * Ncpu[h] < HostLoad(host, h) * Ncpu[g]

AvailableHosts == {h \in si.cand : host[h].available}

\* Mutant: to write, too, by load only.
ResultsByLoad == Sorted(Orders(AvailableHosts), Cardinality(AvailableHosts), LessLoad)

\* The hosts search_idle may choose from, and how many of them.
Results ==
  LET rs == Orders(AvailableHosts)
      all == Cardinality(AvailableHosts)
      few == si.idle < Desired /\ si.semi < Desired * EnoughRate
      n == IF si.idle >= Desired THEN si.idle ELSE si.semi
  IN  IF ~si.write THEN Sorted(rs, all, LessLoad)
      ELSE IF si.usable < Desired THEN Sorted(rs, all, MoreSpace)
      ELSE UNION {UNION {IF few THEN {q} ELSE Sorted(Behind(q, n), n, MoreSpace)
                           : q \in Sorted(Behind(p, si.usable), si.usable, LessLoad)}
                    : p \in Sorted(rs, all, MoreSpace)}

Chosen == LET n == IF ~si.write THEN si.available
                   ELSE IF si.usable < Desired THEN si.usable ELSE Desired
          IN  IF n < Desired THEN n ELSE Desired

\* The result, and "scheduled" of the hosts chosen.
SelectHosts ==
  /\ si.pc = "select"
  /\ IF si.usable = 0
     THEN si' = NotSearching(si.mode, si.searches, si.faults, si.write, <<>>) /\ UNCHANGED host
     ELSE \E rs \in Results :
            LET chosen == SubSeq(rs, 1, Chosen)
            IN  /\ si' = NotSearching(si.mode, si.searches, si.faults, si.write, chosen)
                /\ host' = [h \in Hosts |-> IF h \in Range(chosen)
                                            THEN [host[h] EXCEPT !.scheduled = @ + 1] ELSE host[h]]
  /\ UNCHANGED <<net, out>>

(***************************************************************************)
(* Specification                                                           *)
(***************************************************************************)
SearchInit ==
  /\ host = [h \in Hosts |-> [tried |-> FALSE, rttavail |-> FALSE, auth |-> FALSE, statfs |-> FALSE,
                              fresh |-> FALSE, diskfresh |-> FALSE, load |-> 0, disk |-> 0,
                              scheduled |-> 0, just |-> FALSE, available |-> FALSE, used |-> FALSE]]
  /\ net = [n \in Range(Nets) |-> [rtt |-> IF n = LocalNet THEN 1 ELSE 0, ongoing |-> 0]]
  /\ out = [h \in Hosts |-> NoRequest]
  /\ \E mode \in Modes : si = NotSearching(mode, 0, MaxFails, FALSE, <<>>)
  /\ plan \in Plans

SearchStep == /\ \/ SeeCached \/ TryNextHost \/ ForgetScheduled
                 \/ ExamineRtt \/ ExamineNet \/ TryCursor \/ PassEnds \/ NewPass
                 \/ ByRttOrder \/ NextNetworks \/ SelectHosts \/ TurnEnds
              /\ UNCHANGED plan

SearchEvent == /\ \E h \in Hosts : LoadCallback(h) \/ ConnectCallback(h) \/ StatfsCallback(h)
               /\ UNCHANGED plan

SearchNext ==
  \/ \E up \in Range(plan), old \in Olds, info \in Infos, write \in BOOLEAN :
       gfarm_schedule_select_host(up, old, info, write)
  \/ \E hs \in Range(plan) : gfarm_schedule_host_cache_reset(hs)
  \/ SearchStep
  \/ SearchEvent

\* The search runs, and every request is answered, refused or times out.
SearchFairness == WF_searchvars(SearchStep) /\ WF_searchvars(SearchEvent)

SearchSpec == SearchInit /\ [][SearchNext]_searchvars /\ SearchFairness

(***************************************************************************)
(* Properties                                                              *)
(***************************************************************************)
\* The counters are those of the hosts that are marked available.
CountsAgree ==
  si.pc = "select" =>
    /\ si.available = Cardinality(AvailableHosts)
    /\ si.usable = Cardinality({h \in AvailableHosts : HostUsable(host, h)})
    /\ si.idle <= si.usable /\ si.semi <= si.usable

\* No callback is left behind when the search returns: its closure points to
\* the search_idle_state on the stack, and the event queue is freed.
NoneLeft == si.pc \in {"idle", "select"} =>
              Outstanding = {} /\ \A n \in Range(Nets) : net[n].ongoing = 0

\* The assertions of search_idle, where it counts what it has found, and what it
\* takes for granted of its callbacks when it returns: with requests answered in
\* any order, within and outside search_idle_try_host, nothing is counted twice,
\* forgotten or still to come.
SearchAsserts == CountsAgree /\ NoneLeft

\* A host chosen to write to has the free space it takes, as far as is known.
ChosenHaveSpace == si.pc = "idle" /\ si.write =>
                     \A h \in Range(si.chosen) : host[h].statfs => host[h].disk >= MinDisk

=============================================================================
