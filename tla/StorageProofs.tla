---------------------------- MODULE StorageProofs ----------------------------
(* The connections to file system nodes, for any number of nodes and        *)
(* connections, retries, and losses: each is referred to by the call that   *)
(* uses it, and a stale one in the cache costs no caller more than a retry. *)
(* The invariant counts, for the attempt that is going on, the connection   *)
(* errors so far and the stale connections that can still cause one.        *)
(* And the search for idle nodes, for any hosts, networks and limits: what  *)
(* it counts, and the requests it waits for, are those of the hosts.        *)
EXTENDS NodeCall, SearchIdle, FiniteSetTheorems, WellFoundedInduction, TLAPS

(***************************************************************************)
(* The invariant                                                           *)
(***************************************************************************)
LinkStates == [live : BOOLEAN, node : Node, ok : BOOLEAN, pid : BOOLEAN, cached : BOOLEAN,
               refs : Nat]

NodesType ==
  nodes \in [up : SUBSET Node, replicas : SUBSET Node, ondemand : BOOLEAN, lost : Nat, probes : Nat]

CallStates ==
  [kind : {"none", "open", "replicate", "statfs"},
   pc : {"idle", "schedule", "acquire", "set", "request", "opened"},
   host : Node \cup {NoNode}, link : Link \cup {NoLink}, retry : Nat, tries : {0, 1},
   again : BOOLEAN, assigned : BOOLEAN, sub : BOOLEAN, calls : Nat, away : BOOLEAN,
   breaks : Nat, unset : BOOLEAN, gaveup : SUBSET {"open", "copy", "statfs"}]

NodeCallTypeOK == links \in [Link -> LinkStates] /\ NodesType /\ nc \in CallStates

\* The call has chosen its node, and has not got the file.
Trying == nc.pc \in {"acquire", "set", "request"}

\* What the call is about, and which connection it uses.
Placed ==
  /\ nc.pc # "idle" => nc.kind \in {"open", "replicate", "statfs"}
  /\ nc.pc \in {"idle", "schedule"} => nc.tries = 0 /\ ~nc.again /\ ~nc.sub
  /\ nc.pc = "schedule" => nc.kind = "open"
  /\ nc.pc \in {"idle", "schedule", "acquire"} <=> nc.link = NoLink
  /\ Trying \/ nc.pc = "opened" => nc.host \in Node
  /\ nc.pc = "opened" => nc.kind = "open" /\ ~nc.sub
  /\ nc.sub => nc.kind = "open" /\ nodes.ondemand
  /\ nc.again => NodeRequest = "open"
  /\ nc.pc \in {"set", "request"} =>
       /\ links[nc.link].node = Target /\ links[nc.link].cached
       /\ links[nc.link].pid <=> nc.pc = "request"

\* A node that is needed is up, or was down since it was chosen.
AwayKnown == Trying => \A h \in Involved(nc) : h \in nodes.up \/ nc.away

\* A connection of the target that is lost, without anyone knowing.
Stale(c) == links[c].live /\ links[c].node = Target /\ ~links[c].ok

\* The errors that the opens at this node have had.
Errors == nc.tries + (IF nc.again THEN 2 ELSE 0)

\* Each break causes two errors at most: the one of the call it meets, and, if the
\* connection stays in the cache, that of the next one; a stale connection causes one.
OpenCounted ==
  Trying /\ NodeRequest = "open" /\ ~nc.away =>
    /\ Errors <= 1 + 2 * nc.breaks
    /\ \A c \in Link : Stale(c) => Errors + 1 <= 1 + 2 * nc.breaks

\* The others have one error at most, unless a connection broke, or the stale one
\* had no process.
OthersCounted ==
  Trying /\ NodeRequest # "open" /\ ~nc.away /\ nc.breaks = 0 =>
    \A c \in Link : Stale(c) => (links[c].pid \/ nc.unset) /\ nc.tries = 0

NodeCallInv ==
  /\ NodeCallTypeOK /\ ReferencesKept /\ Placed
  /\ AwayKnown /\ OpenCounted /\ OthersCounted /\ StaleOnce

USE NodeCallAssumption

(***************************************************************************)
(* References                                                              *)
(***************************************************************************)
\* The connections l, of which k is referred to.
LinksRight(l, k) ==
  /\ l \in [Link -> LinkStates]
  /\ \A c \in Link : /\ l[c].refs = (IF c = k THEN 1 ELSE 0)
                     /\ l[c].live <=> l[c].refs > 0 \/ l[c].cached
                     /\ l[c].live /\ l[c].cached =>
                          \A d \in Link : l[d].live /\ l[d].cached /\ l[d].node = l[c].node => d = c

LEMMA ReferencesRight ==
  links \in [Link -> LinkStates] => (ReferencesKept <=> LinksRight(links, nc.link))
  BY DEF ReferencesKept, LinksRight, Cached

LEMMA ReferencesRightNext ==
  LinksRight(links', nc'.link) => ReferencesKept'
  BY DEF ReferencesKept, LinksRight, Cached

\* ok and pid do not matter.
LEMMA LinksAlike ==
  ASSUME NEW l, NEW m, NEW k, LinksRight(l, k), m \in [Link -> LinkStates],
         \A d \in Link : /\ m[d].live = l[d].live /\ m[d].node = l[d].node
                        /\ m[d].refs = l[d].refs /\ m[d].cached = l[d].cached
  PROVE  LinksRight(m, k)
  BY DEF LinksRight

LEMMA FreedRight ==
  ASSUME NEW l, NEW k \in Link, LinksRight(l, k)
  PROVE  /\ LinksRight(Freed(l, k), NoLink)
         /\ \A c \in Link :
              /\ Freed(l, k)[c].node = l[c].node /\ Freed(l, k)[c].ok = l[c].ok
              /\ Freed(l, k)[c].pid = l[c].pid
              /\ Freed(l, k)[c].live => l[c].live
         /\ Freed(l, k)[k].live => l[k].cached
<1>1. /\ l \in [Link -> LinkStates] /\ l[k] \in LinkStates /\ l[k].refs = 1
      /\ l[k].refs - 1 = 0 /\ ~(l[k].refs > 1)
  BY DEF LinksRight, LinkStates
<1>2. Freed(l, k) = [l EXCEPT ![k].refs = 0, ![k].live = l[k].live /\ l[k].cached]
  BY <1>1 DEF Freed, LinkStates
<1>3. Freed(l, k) \in [Link -> LinkStates]
  <2>1. (l[k].live /\ l[k].cached) \in BOOLEAN
    OBVIOUS
  <2>2. [l[k] EXCEPT !.refs = 0, !.live = l[k].live /\ l[k].cached] \in LinkStates
    BY <1>1, <2>1 DEF LinkStates
  <2> QED
    BY <1>1, <1>2, <2>2
<1>4. ASSUME NEW c \in Link
      PROVE  /\ Freed(l, k)[c].node = l[c].node /\ Freed(l, k)[c].ok = l[c].ok
             /\ Freed(l, k)[c].pid = l[c].pid /\ Freed(l, k)[c].cached = l[c].cached
             /\ Freed(l, k)[c].live = (l[c].live /\ (c = k => l[c].cached))
             /\ Freed(l, k)[c].refs = 0
  BY <1>1, <1>2 DEF LinkStates, LinksRight
<1> QED
  BY <1>1, <1>3, <1>4, NodeCallAssumption DEF LinksRight, LinkStates

LEMMA PurgedRight ==
  ASSUME NEW l, NEW k \in Link, LinksRight(l, k)
  PROVE  /\ LinksRight(Purged(l, k), k) /\ ~Purged(l, k)[k].cached
         /\ \A c \in Link : /\ c # k => Purged(l, k)[c] = l[c]
                            /\ Purged(l, k)[c].node = l[c].node
<1>0. /\ l \in [Link -> LinkStates] /\ [l[k] EXCEPT !.cached = FALSE] \in LinkStates
      /\ Purged(l, k) = [l EXCEPT ![k] = [l[k] EXCEPT !.cached = FALSE]]
  <2>1. l \in [Link -> LinkStates] /\ l[k] \in LinkStates
    BY DEF LinksRight
  <2>2. [l[k] EXCEPT !.cached = FALSE] \in LinkStates
    BY <2>1 DEF LinkStates
  <2>3. Purged(l, k) = [l EXCEPT ![k] = [l[k] EXCEPT !.cached = FALSE]]
    BY DEF Purged
  <2> QED
    BY <2>1, <2>2, <2>3
<1>1. Purged(l, k) \in [Link -> LinkStates]
  BY <1>0
<1>2. ASSUME NEW c \in Link
      PROVE  /\ Purged(l, k)[c].node = l[c].node /\ Purged(l, k)[c].live = l[c].live
             /\ Purged(l, k)[c].refs = l[c].refs
             /\ Purged(l, k)[c].cached = (l[c].cached /\ c # k)
             /\ c # k => Purged(l, k)[c] = l[c]
  <2>1. l[c] \in LinkStates
    BY <1>0
  <2>2. CASE c = k
    BY <1>0, <2>1, <2>2 DEF LinkStates
  <2>3. CASE c # k
    BY <1>0, <2>1, <2>3 DEF LinkStates
  <2> QED
    BY <2>2, <2>3
<1> QED
  BY <1>1, <1>2 DEF LinksRight, LinkStates

\* There is one to spare for a node to which there is none.
LEMMA SpareIsFree ==
  ASSUME NEW h \in Node, LinksRight(links, NoLink), Cached(h) = {}
  PROVE  Spare \in Link /\ ~links[Spare].live
<1>1. ASSUME \A c \in Link : links[c].live PROVE FALSE
  <2> DEFINE f == [c \in Link |-> links[c].node]
  <2>1. \A c \in Link : links[c].live /\ links[c].cached /\ links[c].node \in Node \ {h}
    BY <1>1, NodeCallAssumption DEF LinksRight, LinkStates, Cached
  <2>2. f \in [Link -> Node \ {h}]
    BY <2>1
  <2>3. IsFiniteSet(Node \ {h}) /\ Cardinality(Node \ {h}) = Cardinality(Node) - 1
    BY EnoughLinks, FS_RemoveElement
  <2>4. Cardinality(Node \ {h}) < Cardinality(Link)
    BY <2>3, EnoughLinks, FS_CardinalityType
  <2>5. \A c \in Link : f[c] = links[c].node
    OBVIOUS
  <2> HIDE DEF f
  <2>6. \E c, d \in Link : c # d /\ f[c] = f[d]
    BY <2>2, <2>3, <2>4, EnoughLinks, FS_PigeonHole
  <2> QED
    BY <2>1, <2>5, <2>6 DEF LinksRight
<1> QED
  BY <1>1 DEF Spare

(***************************************************************************)
(* The ends of an attempt                                                  *)
(***************************************************************************)
LEMMA RequestIs ==
  NodeCallInv /\ (Trying \/ nc.pc = "opened") =>
    /\ nc.sub \in BOOLEAN /\ nc.kind \in {"open", "replicate", "statfs"} /\ nc.host \in Node
    /\ NodeRequest \in {"open", "copy", "statfs"}
    /\ NodeRequest = "open" <=> ~nc.sub /\ nc.kind = "open"
    /\ nc.sub => nc.kind = "open" /\ NodeRequest = "copy" /\ ~nc.again
    /\ Target \in Node /\ Target \in Involved(nc)
  BY DEF NodeCallInv, NodeCallTypeOK, CallStates, Placed, Trying, NodeRequest, Target, Involved

\* What is kept when an attempt is over.
After(n, e) ==
  IF e = "conn" /\ (NodeRequest # "open" \/ n.again) THEN n.gaveup \cup {NodeRequest} ELSE n.gaveup

\* The call is over, or looks for another node.
Left(n, e) ==
  /\ nc' \in CallStates
  /\ nc'.pc = "idle" \/ (nc'.pc = "schedule" /\ nc'.kind = "open")
  /\ nc'.link = NoLink /\ nc'.tries = 0 /\ ~nc'.again /\ ~nc'.sub
  /\ nc'.away = n.away /\ nc'.breaks = n.breaks /\ nc'.unset = n.unset /\ nc'.gaveup = After(n, e)

\* It goes on, with another connection.
GoesOn(n, sub, again, tries) ==
  /\ nc' \in CallStates
  /\ nc'.pc = "acquire" /\ nc'.link = NoLink /\ nc'.kind = n.kind /\ nc'.host = n.host
  /\ nc'.sub = sub /\ nc'.again = again /\ nc'.tries = tries
  /\ nc'.away = n.away /\ nc'.breaks = n.breaks /\ nc'.unset = n.unset /\ nc'.gaveup = n.gaveup

LEMMA EndedLeaves ==
  ASSUME NEW n \in CallStates, NEW m \in CallStates, NEW e,
         n.away = m.away, n.breaks = m.breaks, n.unset = m.unset, n.gaveup = After(m, e),
         nc' = Ended(n)
  PROVE  Left(m, e)
<1>1. nc' = [kind |-> "none", pc |-> "idle", host |-> NoNode, link |-> NoLink, retry |-> 0,
             tries |-> 0, again |-> FALSE, assigned |-> FALSE, sub |-> FALSE, calls |-> n.calls,
             away |-> n.away, breaks |-> n.breaks, unset |-> n.unset, gaveup |-> n.gaveup]
  BY DEF Ended, NoCall
<1>2. /\ n.calls \in Nat /\ n.away \in BOOLEAN /\ n.breaks \in Nat /\ n.unset \in BOOLEAN
      /\ n.gaveup \in SUBSET {"open", "copy", "statfs"}
  BY DEF CallStates
<1>3. nc' \in CallStates
  BY <1>1, <1>2 DEF CallStates
<1> QED
  BY <1>1, <1>3 DEF Left

LEMMA RescheduleLeaves ==
  ASSUME NEW n \in CallStates, NEW m \in CallStates, NEW e, n.kind = "open",
         n.away = m.away, n.breaks = m.breaks, n.unset = m.unset, n.gaveup = After(m, e),
         nc' = Reschedule(n, e)
  PROVE  Left(m, e)
<1>1. CASE nc' = Ended(n)
  BY <1>1, EndedLeaves
<1>2. CASE nc' = [n EXCEPT !.retry = @ + 1, !.host = NoNode, !.link = NoLink, !.pc = "schedule",
                           !.tries = 0, !.again = FALSE, !.sub = FALSE]
  <2>1. n.retry + 1 \in Nat
    BY DEF CallStates
  <2>2. nc' \in CallStates
    <3> DEFINE r == n.retry + 1
    <3>1. nc' = [n EXCEPT !.retry = r, !.host = NoNode, !.link = NoLink, !.pc = "schedule",
                          !.tries = 0, !.again = FALSE, !.sub = FALSE]
      BY <1>2
    <3>2. r \in Nat
      BY <2>1
    <3> DEFINE k == [n EXCEPT !.retry = r, !.host = NoNode, !.link = NoLink]
    <3> HIDE DEF r
    <3>3. k \in CallStates
      BY <3>2 DEF CallStates
    <3>4. nc' = [k EXCEPT !.pc = "schedule", !.tries = 0, !.again = FALSE, !.sub = FALSE]
      BY <3>1
    <3> HIDE DEF k
    <3> QED
      BY <3>3, <3>4 DEF CallStates
  <2>3. /\ nc'.pc = "schedule" /\ nc'.kind = "open" /\ nc'.link = NoLink /\ nc'.tries = 0
        /\ ~nc'.again /\ ~nc'.sub /\ nc'.away = n.away /\ nc'.breaks = n.breaks
        /\ nc'.unset = n.unset /\ nc'.gaveup = n.gaveup
    BY <1>2 DEF CallStates
  <2> QED
    BY <2>2, <2>3 DEF Left
<1> QED
  BY <1>1, <1>2 DEF Reschedule

LEMMA AttemptForms ==
  ASSUME NodeCallInv, Trying, NEW e \in {"conn", "other", "exists", "unknown"},
         NEW n \in CallStates, n.sub = nc.sub, n.kind = nc.kind, n.again = nc.again,
         nc' = AttemptOver(n, e)
  PROVE  \/ nc.sub /\ e \in {"exists", "unknown"} /\ GoesOn(n, FALSE, FALSE, 0)
         \/ NodeRequest = "open" /\ e = "conn" /\ ~nc.again /\ GoesOn(n, FALSE, TRUE, 0)
         \/ Left(n, e)
<1> DEFINE m == [n EXCEPT !.link = NoLink, !.tries = 0, !.gaveup = After(n, e)]
<1>1. After(n, e) \in SUBSET {"open", "copy", "statfs"}
  BY RequestIs DEF After, CallStates
<1>2. /\ m \in CallStates /\ m.kind = n.kind /\ m.away = n.away /\ m.breaks = n.breaks
      /\ m.unset = n.unset /\ m.gaveup = After(n, e) /\ m.again = n.again
  BY <1>1 DEF CallStates
<1>3. nc' = CASE nc.sub /\ e \in {"exists", "unknown"} ->
                  [m EXCEPT !.sub = FALSE, !.assigned = TRUE, !.pc = "acquire"]
             [] nc.sub /\ e \notin {"exists", "unknown"} -> Reschedule(m, e)
             [] NodeRequest = "open" /\ (e # "conn" \/ m.again) -> Reschedule(m, e)
             [] NodeRequest = "open" /\ e = "conn" /\ ~m.again ->
                  [m EXCEPT !.again = TRUE, !.pc = "acquire"]
             [] nc.kind # "open" -> Ended(m)
  BY DEF AttemptOver, After
<1>9. m.host = n.host /\ m.sub = n.sub /\ m.link = NoLink /\ m.tries = 0
  BY DEF CallStates
<1>4. nc.sub => NodeRequest = "copy" /\ n.kind = "open"
  BY RequestIs
<1>5. CASE nc.sub /\ e \in {"exists", "unknown"}
  <2>1. nc' = [m EXCEPT !.sub = FALSE, !.assigned = TRUE, !.pc = "acquire"]
    BY <1>3, <1>4, <1>5
  <2>2. After(n, e) = n.gaveup
    BY <1>5 DEF After
  <2>3. ~n.again
    BY <1>5, RequestIs
  <2> HIDE DEF m
  <2>4. nc' \in CallStates
    BY <1>2, <2>1 DEF CallStates
  <2>5. GoesOn(n, FALSE, FALSE, 0)
    BY <1>2, <1>9, <2>1, <2>2, <2>3, <2>4 DEF CallStates, GoesOn
  <2> QED
    BY <1>5, <2>5
<1>6. CASE \/ nc.sub /\ e \notin {"exists", "unknown"}
           \/ ~nc.sub /\ NodeRequest = "open" /\ (e # "conn" \/ n.again)
  <2>1. nc' = Reschedule(m, e) /\ m.kind = "open"
    BY <1>2, <1>3, <1>4, <1>6, RequestIs
  <2> HIDE DEF m
  <2> QED
    BY <1>2, <2>1, RescheduleLeaves
<1>7. CASE NodeRequest = "open" /\ e = "conn" /\ ~n.again
  <2>1. nc' = [m EXCEPT !.again = TRUE, !.pc = "acquire"]
    BY <1>2, <1>3, <1>4, <1>7, RequestIs
  <2>2. After(n, e) = n.gaveup
    BY <1>7 DEF After
  <2>3. ~n.sub
    BY <1>7, RequestIs
  <2> HIDE DEF m
  <2>4. nc' \in CallStates
    BY <1>2, <2>1 DEF CallStates
  <2>5. GoesOn(n, FALSE, TRUE, 0)
    BY <1>2, <1>9, <2>1, <2>2, <2>3, <2>4 DEF CallStates, GoesOn
  <2> QED
    BY <1>7, <2>5
<1>8. CASE ~nc.sub /\ NodeRequest # "open"
  <2>1. nc' = Ended(m)
    BY <1>3, <1>8, RequestIs
  <2> HIDE DEF m
  <2> QED
    BY <1>2, <2>1, EndedLeaves
<1> QED
  BY <1>5, <1>6, <1>7, <1>8

\* Of the call that goes on as n, the stale connections that are left.
StaleLeft(h) == \E c \in Link : links'[c].live /\ links'[c].node = h /\ ~links'[c].ok

\* What an attempt leaves alone.
NodesStay == NodesType' /\ nodes'.up = nodes.up /\ nodes'.ondemand = nodes.ondemand

\* What a call adds to its account.
Worse(n) == /\ n \in CallStates /\ (nc.away => n.away) /\ nc.breaks <= n.breaks
            /\ n.kind = nc.kind /\ n.host = nc.host /\ n.sub = nc.sub /\ n.again = nc.again
            /\ n.unset = nc.unset /\ n.gaveup = nc.gaveup

LEMMA GaveUpKept ==
  ASSUME NodeCallInv, NEW n, Worse(n), nc'.away = n.away, nc'.breaks = n.breaks,
         nc'.unset = n.unset, nc'.gaveup = n.gaveup
  PROVE  StaleOnce'
  BY DEF NodeCallInv, NodeCallTypeOK, CallStates, Worse, StaleOnce

LEMMA LeftKeeps ==
  ASSUME NodeCallInv, NodesStay, LinksRight(links', NoLink), NEW n, NEW e, Worse(n), Left(n, e),
         e = "conn" /\ ~n.away =>
           /\ nc.again => n.breaks >= 2
           /\ NodeRequest # "open" => n.breaks >= 1 \/ n.unset
  PROVE  NodeCallInv'
<1>1. NodeCallTypeOK' /\ ReferencesKept'
  BY ReferencesRightNext DEF NodeCallTypeOK, NodesStay, LinksRight, Left
<1>2. Placed'
  BY DEF Placed, Left, Trying
<1>3. AwayKnown' /\ OpenCounted' /\ OthersCounted'
  BY DEF AwayKnown, OpenCounted, OthersCounted, Left, Trying
<1>4. StaleOnce'
  <2> SUFFICES ASSUME NEW r \in nc'.gaveup, ~nc'.away
               PROVE  \/ nc'.breaks >= (IF r = "open" THEN 2 ELSE 1)
                      \/ r # "open" /\ nc'.unset
    BY DEF StaleOnce
  <2>1. CASE r \in nc.gaveup
    BY <2>1 DEF NodeCallInv, NodeCallTypeOK, CallStates, Worse, StaleOnce, Left
  <2>2. CASE r = NodeRequest /\ e = "conn" /\ (NodeRequest # "open" \/ n.again)
    BY <2>2 DEF NodeCallInv, NodeCallTypeOK, CallStates, Worse, Left
  <2> QED
    BY <2>1, <2>2 DEF Left, After, Worse
<1> QED
  BY <1>1, <1>2, <1>3, <1>4 DEF NodeCallInv

LEMMA GoesOnKeeps ==
  ASSUME NodeCallInv, Trying, NodesStay, LinksRight(links', NoLink), NEW n, Worse(n),
         GoesOn(n, nc'.sub, nc'.again, nc'.tries),
         \/ nc'.sub = nc.sub
         \/ ~nc'.sub /\ ~nc'.again /\ nc'.tries = 0,
         nc'.again => NodeRequest = "open",
         ~nc'.sub /\ nc.kind = "open" /\ ~n.away =>
           LET f == nc'.tries + (IF nc'.again THEN 2 ELSE 0)
           IN  /\ f <= 1 + 2 * n.breaks
               /\ StaleLeft(nc.host) => f + 1 <= 1 + 2 * n.breaks,
         nc'.sub \/ nc.kind # "open" =>
           n.away \/ n.breaks >= 1 \/ ~StaleLeft(Target)
  PROVE  NodeCallInv'
<1>1. NodeCallTypeOK' /\ ReferencesKept'
  BY ReferencesRightNext DEF NodeCallTypeOK, NodesStay, LinksRight, GoesOn
<1>2. /\ nc.kind \in {"open", "replicate", "statfs"} /\ nc.host \in Node
      /\ nc'.sub => nc.sub
      /\ nc.sub => nc.kind = "open" /\ nodes.ondemand
      /\ NodeRequest = "open" <=> ~nc.sub /\ nc.kind = "open"
      /\ nc.sub => NodeRequest = "copy"
  BY RequestIs DEF NodeCallInv, NodeCallTypeOK, CallStates, Placed
<1>3. Placed'
  BY <1>2 DEF Placed, Trying, GoesOn, Worse, NodesStay, NodeRequest
<1>4. AwayKnown'
  BY DEF NodeCallInv, NodeCallTypeOK, CallStates, AwayKnown, Involved, Trying, GoesOn, Worse,
     NodesStay
<1>5. ~nc'.sub => Target' = nc.host
  BY DEF Target, GoesOn, Worse
<1>6. nc'.sub = nc.sub => Target' = Target
  BY DEF Target, GoesOn, Worse
<1>7. (NodeRequest = "open")' <=> ~nc'.sub /\ nc.kind = "open"
  BY <1>2 DEF NodeRequest, GoesOn, Worse
<1>8. OpenCounted'
  BY <1>5, <1>7 DEF OpenCounted, Errors, Stale, StaleLeft, GoesOn
<1>9. OthersCounted'
  <2>1. nc'.sub \/ nc.kind # "open" => nc'.sub = nc.sub
    BY <1>1, <1>2 DEF NodeCallInv, NodeCallTypeOK, CallStates
  <2> QED
    BY <1>6, <1>7, <2>1 DEF NodeCallInv, NodeCallTypeOK, CallStates, OthersCounted, Stale,
       StaleLeft,
                            GoesOn, Worse
<1>10. StaleOnce'
  BY GaveUpKept DEF GoesOn
<1> QED
  BY <1>1, <1>3, <1>4, <1>8, <1>9, <1>10 DEF NodeCallInv

LEMMA AttemptOverKeeps ==
  ASSUME NodeCallInv, Trying, NodesStay, LinksRight(links', NoLink),
         NEW e \in {"conn", "other", "exists", "unknown"}, NEW n, Worse(n),
         nc' = AttemptOver(n, e),
         e = "conn" /\ ~n.away /\ NodeRequest = "open" =>
           /\ Errors + 1 <= 1 + 2 * n.breaks /\ nc.tries = 1
           /\ StaleLeft(Target) => Errors + 2 <= 1 + 2 * n.breaks,
         e = "conn" /\ ~n.away /\ NodeRequest # "open" => n.breaks >= 1 \/ n.unset
  PROVE  NodeCallInv'
<1>1. /\ n \in CallStates /\ n.sub = nc.sub /\ n.kind = nc.kind /\ n.again = nc.again
      /\ n.breaks \in Nat
  BY DEF Worse, CallStates
<1>2. /\ nc.again => NodeRequest = "open"
      /\ NodeRequest = "open" <=> ~nc.sub /\ nc.kind = "open"
      /\ nc.tries \in {0, 1} /\ nc.sub \in BOOLEAN
  BY RequestIs DEF NodeCallInv, NodeCallTypeOK, CallStates, Placed
<1>3. CASE nc.sub /\ e \in {"exists", "unknown"} /\ GoesOn(n, FALSE, FALSE, 0)
  <2>1. /\ GoesOn(n, nc'.sub, nc'.again, nc'.tries) /\ ~nc'.sub /\ ~nc'.again /\ nc'.tries = 0
        /\ 0 + 0 <= 1 + 2 * n.breaks /\ 0 + 0 + 1 <= 1 + 2 * n.breaks
    BY <1>1, <1>3 DEF GoesOn
  <2>2. nc.kind = "open"
    BY <1>3, RequestIs
  <2> QED
    BY <1>3, <2>1, <2>2, GoesOnKeeps
<1>4. CASE NodeRequest = "open" /\ e = "conn" /\ ~nc.again /\ GoesOn(n, FALSE, TRUE, 0)
  <2>1. ~nc.sub /\ nc.kind = "open" /\ Target = nc.host
    BY <1>2, <1>4 DEF Target
  <2>2. ~n.away => Errors = 1
    BY <1>4 DEF Errors
  <2>3. ~n.away => /\ 0 + 2 <= 1 + 2 * n.breaks
                   /\ StaleLeft(nc.host) => 0 + 2 + 1 <= 1 + 2 * n.breaks
    BY <1>1, <1>4, <2>1, <2>2
  <2>4. /\ GoesOn(n, nc'.sub, nc'.again, nc'.tries) /\ nc'.again /\ nc'.tries = 0
        /\ nc'.sub = nc.sub
    BY <1>2, <1>4, <2>1 DEF GoesOn
  <2> QED
    BY <1>2, <1>4, <2>1, <2>3, <2>4, GoesOnKeeps
<1>5. CASE Left(n, e)
  <2>1. e = "conn" /\ ~n.away /\ nc.again => n.breaks >= 2
    BY <1>1, <1>2 DEF Errors
  <2> QED
    BY <1>5, <2>1, LeftKeeps
<1> QED
  BY <1>1, <1>3, <1>4, <1>5, AttemptForms

\* The call fails on a connection, which is given back.
LEMMA CallFailedKeepsInv ==
  ASSUME NodeCallInv, nc.pc \in {"set", "request"}, NodesStay,
         NEW l, LinksRight(l, nc.link),
         \A c \in Link : c # nc.link => l[c] = links[c],
         l[nc.link].node = links[nc.link].node,
         NEW e \in {"conn", "other", "exists", "unknown"}, NEW n, Worse(n), n.pc = nc.pc, n.tries = nc.tries,
         CallFailed(l, n, e),
         e = "conn" /\ ~n.away =>
           /\ NodeRequest = "open" =>
                /\ Errors + 1 <= 1 + 2 * n.breaks
                /\ l[nc.link].cached => Errors + 2 <= 1 + 2 * n.breaks
           /\ NodeRequest # "open" /\ n.breaks = 0 =>
                ~l[nc.link].cached /\ (nc.pc = "request" \/ nc.unset) /\ nc.tries = 0
  PROVE  NodeCallInv'
<1> DEFINE k == nc.link
<1>1. /\ k \in Link /\ links[k].node = Target /\ links[k].cached /\ links[k].live
      /\ LinksRight(links, k) /\ n.breaks \in Nat /\ nc.tries \in {0, 1} /\ nc.again \in BOOLEAN
      /\ Trying
  BY ReferencesRight DEF NodeCallInv, NodeCallTypeOK, Placed, LinksRight, CallStates, Worse, Trying
<1>2. /\ links' = Freed(l, k) /\ nc' = AfterError(n, e)
      /\ LinksRight(links', NoLink)
      /\ \A c \in Link : /\ links'[c].node = l[c].node /\ links'[c].ok = l[c].ok
                         /\ links'[c].live => l[c].live
      /\ links'[k].live => l[k].cached
  BY <1>1, FreedRight DEF CallFailed
<1>3. StaleLeft(Target) => l[k].cached
  <2> SUFFICES ASSUME NEW c \in Link, links'[c].live, links'[c].node = Target, c # k PROVE FALSE
    BY <1>2 DEF StaleLeft
  <2>1. links[c].live /\ links[c].node = Target /\ links[c].refs = 0
    BY <1>1, <1>2 DEF LinksRight
  <2> QED
    BY <1>1, <2>1 DEF LinksRight
<1>4. CASE e = "conn" /\ n.tries = 0 /\ (NodeRequest = "open" \/ n.pc = "request")
  <2>1. nc' = [n EXCEPT !.tries = 1, !.link = NoLink, !.pc = "acquire"]
    BY <1>2, <1>4 DEF AfterError
  <2>2. /\ GoesOn(n, nc'.sub, nc'.again, nc'.tries)
        /\ nc'.sub = nc.sub /\ nc'.again = nc.again /\ nc'.tries = 1
    BY <2>1 DEF GoesOn, Worse, CallStates
  <2>3. ~nc.sub /\ nc.kind = "open" /\ ~n.away =>
          /\ 1 + (IF nc.again THEN 2 ELSE 0) <= 1 + 2 * n.breaks
          /\ StaleLeft(nc.host) => 1 + (IF nc.again THEN 2 ELSE 0) + 1 <= 1 + 2 * n.breaks
    BY <1>1, <1>3, <1>4, RequestIs DEF Errors, Target
  <2>4. nc.sub \/ nc.kind # "open" => n.away \/ n.breaks >= 1 \/ ~StaleLeft(Target)
    BY <1>1, <1>3, <1>4, RequestIs
  <2>5. nc.again => NodeRequest = "open"
    BY DEF NodeCallInv, Placed
  <2> QED
    BY <1>1, <1>2, <2>2, <2>3, <2>4, <2>5, RequestIs, GoesOnKeeps
<1>5. CASE ~(e = "conn" /\ n.tries = 0 /\ (NodeRequest = "open" \/ n.pc = "request"))
  <2>1. nc' = AttemptOver(n, e)
    BY <1>2, <1>5 DEF AfterError
  <2>2. e = "conn" /\ ~n.away /\ NodeRequest = "open" =>
           /\ Errors + 1 <= 1 + 2 * n.breaks /\ nc.tries = 1
           /\ StaleLeft(Target) => Errors + 2 <= 1 + 2 * n.breaks
    BY <1>1, <1>3, <1>5
  <2>3. e = "conn" /\ ~n.away /\ NodeRequest # "open" => n.breaks >= 1 \/ n.unset
    BY <1>1, <1>5 DEF Worse
  <2> QED
    BY <1>1, <1>2, <2>1, <2>2, <2>3, AttemptOverKeeps
<1> QED
  BY <1>4, <1>5

(***************************************************************************)
(* The steps of a call                                                     *)
(***************************************************************************)
LEMMA StartKeeps ==
  ASSUME NEW kind \in Kinds, NEW h \in Node PROVE NodeCallInv /\ Start(kind, h) => NodeCallInv'
<1> SUFFICES ASSUME NodeCallInv, Start(kind, h) PROVE NodeCallInv'
  OBVIOUS
<1>1. /\ UNCHANGED <<links, nodes>> /\ nc.pc = "idle" /\ nc.link = NoLink
      /\ nc.calls + 1 \in Nat /\ StaleUnset(h) \in BOOLEAN
      /\ kind \in {"open", "replicate", "statfs"}
  BY NodeCallAssumption DEF Start, NodeCallInv, NodeCallTypeOK, CallStates, Placed, StaleUnset
<1>2. nc' = [kind |-> kind, pc |-> IF kind = "open" THEN "schedule" ELSE "acquire",
             host |-> IF kind = "open" THEN NoNode ELSE h, link |-> NoLink, retry |-> 0,
             tries |-> 0, again |-> FALSE, assigned |-> FALSE, sub |-> FALSE,
             calls |-> nc.calls + 1, away |-> h \notin nodes.up, breaks |-> 0,
             unset |-> StaleUnset(h), gaveup |-> {}]
  BY DEF Start, NoCall
<1>3. nc' \in CallStates
  BY <1>1, <1>2 DEF CallStates
<1>4. NodeCallTypeOK' /\ ReferencesKept'
  BY <1>1, <1>2, <1>3, ReferencesRight, ReferencesRightNext DEF NodeCallInv, NodeCallTypeOK,
     NodesType
<1>5. Placed'
  BY <1>1, <1>2 DEF Placed, Trying, NodeRequest
<1>6. AwayKnown'
  BY <1>1, <1>2 DEF AwayKnown, Trying, Involved
<1>7. OpenCounted'
  BY <1>2 DEF OpenCounted, Trying, NodeRequest
<1>8. OthersCounted'
  <2>1. ASSUME NEW c \in Link, Stale(c)', Trying' PROVE links'[c].pid \/ nc'.unset
    <3>1. links[c].live /\ links[c].node = h /\ ~links[c].ok /\ links[c].cached
      BY <1>1, <1>2, <2>1, ReferencesRight
      DEF Stale, Target, Trying, NodeCallInv, NodeCallTypeOK, LinksRight, LinkStates
    <3> QED
      BY <1>1, <1>2, <3>1 DEF StaleUnset
  <2> QED
    BY <1>2, <2>1 DEF OthersCounted
<1>9. StaleOnce'
  BY <1>2 DEF StaleOnce
<1> QED
  BY <1>4, <1>5, <1>6, <1>7, <1>8, <1>9 DEF NodeCallInv

LEMMA ScheduleKeeps ==
  ASSUME NEW h \in Node PROVE NodeCallInv /\ gfarm_schedule_file(h) => NodeCallInv'
<1> SUFFICES ASSUME NodeCallInv, gfarm_schedule_file(h) PROVE NodeCallInv'
  OBVIOUS
<1>1. /\ UNCHANGED <<links, nodes>> /\ nc.pc = "schedule" /\ nc.link = NoLink /\ nc.kind = "open"
      /\ nc.tries = 0 /\ ~nc.again /\ nc \in CallStates /\ nodes.ondemand \in BOOLEAN
  BY DEF gfarm_schedule_file, NodeCallInv, NodeCallTypeOK, NodesType, Placed
<1> DEFINE a == ~(Involved([nc EXCEPT !.host = h]) \subseteq nodes.up)
           u == StaleUnset(LocalNode)
<1>3. PICK s \in BOOLEAN :
        /\ s => nodes.ondemand /\ h # LocalNode
        /\ nc' = [nc EXCEPT !.host = h, !.pc = "acquire", !.sub = s, !.assigned = @ \/ ~s,
                            !.away = a, !.breaks = 0, !.gaveup = {}, !.unset = u]
  BY DEF gfarm_schedule_file
<1>2. /\ nc' \in CallStates
      /\ nc'.pc = "acquire" /\ nc'.host = h /\ nc'.kind = "open" /\ nc'.link = NoLink
      /\ (nc'.sub => nodes.ondemand /\ h # LocalNode) /\ nc'.breaks = 0 /\ nc'.gaveup = {}
      /\ nc'.unset = StaleUnset(LocalNode) /\ nc'.tries = 0 /\ nc'.again = FALSE
      /\ nc'.away = ~(Involved(nc') \subseteq nodes.up)
  <2> DEFINE g == nc.assigned \/ ~s
  <2>1. nc' = [nc EXCEPT !.host = h, !.pc = "acquire", !.sub = s, !.assigned = g, !.away = a,
                         !.breaks = 0, !.gaveup = {}, !.unset = u]
    BY <1>3
  <2>2. a \in BOOLEAN /\ s \in BOOLEAN /\ u \in BOOLEAN /\ g \in BOOLEAN
    BY DEF StaleUnset
  <2>3. a = ~(({h} \cup (IF nodes.ondemand THEN {LocalNode} ELSE {})) \subseteq nodes.up)
    BY <1>1 DEF Involved, CallStates
  <2> HIDE DEF a, u, g
  <2>4. nc' \in CallStates
    <3> DEFINE m == [nc EXCEPT !.host = h, !.pc = "acquire", !.sub = s, !.assigned = g]
    <3>1. m \in CallStates
      BY <1>1, <2>2 DEF CallStates
    <3>2. nc' = [m EXCEPT !.away = a, !.breaks = 0, !.gaveup = {}, !.unset = u]
      BY <2>1
    <3> HIDE DEF m
    <3> QED
      BY <2>2, <3>1, <3>2 DEF CallStates
  <2>5. /\ nc'.pc = "acquire" /\ nc'.host = h /\ nc'.kind = "open" /\ nc'.link = NoLink
        /\ nc'.sub = s /\ nc'.breaks = 0 /\ nc'.gaveup = {} /\ nc'.unset = u /\ nc'.tries = 0
        /\ ~nc'.again /\ nc'.away = a
    BY <1>1, <2>1 DEF CallStates
  <2>6. Involved(nc') = {h} \cup (IF nodes.ondemand THEN {LocalNode} ELSE {})
    BY <2>5 DEF Involved
  <2>7. nc'.sub => nodes.ondemand /\ h # LocalNode
    BY <1>3, <2>5
  <2>8. nc'.unset = StaleUnset(LocalNode)
    BY <2>5 DEF u
  <2> QED
    BY <2>3, <2>4, <2>5, <2>6, <2>7, <2>8 DEF CallStates
<1>4. NodeCallTypeOK' /\ ReferencesKept'
  BY <1>1, <1>2, ReferencesRight, ReferencesRightNext DEF NodeCallInv, NodeCallTypeOK, NodesType
<1>5. Placed'
  BY <1>1, <1>2 DEF Placed, Trying
<1>6. AwayKnown'
  <2>1. Involved(nc)' = Involved(nc')
    BY <1>1 DEF Involved
  <2> QED
    BY <1>1, <1>2, <2>1 DEF AwayKnown
<1>7. OpenCounted'
  BY <1>2 DEF OpenCounted, Errors
<1>8. OthersCounted'
  <2>1. ASSUME NEW c \in Link, Stale(c)', ~(NodeRequest' = "open")
        PROVE  links'[c].pid \/ nc'.unset
    <3>1. nc'.sub
      BY <1>2, <2>1 DEF NodeRequest
    <3>2. links[c].live /\ links[c].node = LocalNode /\ ~links[c].ok /\ links[c].cached
      BY <1>1, <2>1, <3>1, ReferencesRight
      DEF Stale, Target, NodeCallInv, NodeCallTypeOK, LinksRight, LinkStates
    <3> QED
      BY <1>1, <1>2, <3>2 DEF StaleUnset
  <2> QED
    BY <1>2, <2>1 DEF OthersCounted
<1>9. StaleOnce'
  BY <1>2 DEF StaleOnce
<1> QED
  BY <1>4, <1>5, <1>6, <1>7, <1>8, <1>9 DEF NodeCallInv

LEMMA ScheduleFailedKeeps == NodeCallInv /\ gfarm_schedule_file_failed => NodeCallInv'
<1> SUFFICES ASSUME NodeCallInv, gfarm_schedule_file_failed PROVE NodeCallInv'
  OBVIOUS
<1>1. PICK e \in {"other", "nonode"} : nc' = Reschedule(nc, e)
  BY DEF gfarm_schedule_file_failed
<1>2. /\ UNCHANGED <<links, nodes>> /\ nc.link = NoLink /\ nc.kind = "open" /\ ~nc.again
      /\ nc \in CallStates /\ NodesStay /\ LinksRight(links', NoLink) /\ Worse(nc)
  BY ReferencesRight DEF gfarm_schedule_file_failed, NodeCallInv, NodeCallTypeOK, NodesType,
     Placed,
     NodesStay, Worse, CallStates
<1>3. After(nc, e) = nc.gaveup
  BY <1>1 DEF After
<1>4. Left(nc, e)
  BY <1>1, <1>2, <1>3, RescheduleLeaves
<1> QED
  BY <1>1, <1>2, <1>4, LeftKeeps

\* A call gets a connection, which was cached, or is new.
LEMMA GotKeeps ==
  ASSUME NodeCallInv, nc.pc = "acquire", UNCHANGED nodes, NEW c \in Link,
         LinksRight(links', c), links'[c].cached, links'[c].node = Target,
         nc' = [nc EXCEPT !.link = c, !.pc = IF links'[c].pid THEN "request" ELSE "set"],
         \A d \in Link : /\ links'[d].live /\ ~links'[d].ok => links[d].live /\ ~links[d].ok
                         /\ links'[d].live /\ ~links'[d].ok =>
                              links'[d].node = links[d].node /\ links'[d].pid = links[d].pid
  PROVE  NodeCallInv'
<1>1. /\ nc \in CallStates /\ Trying /\ c # NoLink /\ links'[c].pid \in BOOLEAN
      /\ nodes' = nodes
  BY DEF NodeCallInv, NodeCallTypeOK, Trying, LinksRight, LinkStates
<1>2. /\ nc' \in CallStates
      /\ nc'.link = c /\ nc'.pc = (IF links'[c].pid THEN "request" ELSE "set")
      /\ nc'.kind = nc.kind /\ nc'.host = nc.host /\ nc'.sub = nc.sub /\ nc'.again = nc.again
      /\ nc'.tries = nc.tries /\ nc'.away = nc.away /\ nc'.breaks = nc.breaks
      /\ nc'.unset = nc.unset /\ nc'.gaveup = nc.gaveup
  BY <1>1 DEF CallStates
<1>3. Target' = Target /\ NodeRequest' = NodeRequest /\ Errors' = Errors /\ Trying'
  BY <1>2 DEF Target, NodeRequest, Errors, Trying
<1>4. ASSUME NEW d \in Link, Stale(d)' PROVE Stale(d) /\ links'[d].pid = links[d].pid
  <2>1. links'[d].live /\ ~links'[d].ok /\ links'[d].node = Target
    BY <1>3, <1>4 DEF Stale
  <2> QED
    BY <2>1 DEF Stale
<1>5. NodeCallTypeOK' /\ ReferencesKept'
  BY <1>1, <1>2, ReferencesRightNext DEF NodeCallInv, NodeCallTypeOK, NodesType, LinksRight
<1>6. Placed'
  BY <1>1, <1>2, <1>3 DEF NodeCallInv, Placed, Trying
<1>7. AwayKnown'
  BY <1>1, <1>2 DEF NodeCallInv, AwayKnown, Involved
<1>8. OpenCounted' /\ OthersCounted'
  BY <1>1, <1>2, <1>3, <1>4 DEF NodeCallInv, OpenCounted, OthersCounted
<1>9. StaleOnce'
  BY <1>2 DEF NodeCallInv, StaleOnce
<1> QED
  BY <1>5, <1>6, <1>7, <1>8, <1>9 DEF NodeCallInv

LEMMA NewRight ==
  ASSUME NEW h \in Node, NEW c \in Link, NEW k \in {c, NoLink}, LinksRight(links, NoLink),
         Cached(h) = {}, ~links[c].live,
         links' = [links EXCEPT ![c] = New(h, IF k = c THEN 1 ELSE 0)]
  PROVE  /\ LinksRight(links', k) /\ links'[c].cached /\ links'[c].node = h /\ ~links'[c].pid
         /\ links'[c].ok
         /\ \A d \in Link : d # c => links'[d] = links[d]
<1> DEFINE r == IF k = c THEN 1 ELSE 0
<1>1. /\ links \in [Link -> LinkStates] /\ New(h, r) \in LinkStates /\ c # NoLink
      /\ New(h, r) = [live |-> TRUE, node |-> h, ok |-> TRUE, pid |-> FALSE, cached |-> TRUE,
                      refs |-> r]
  BY DEF LinksRight, LinkStates, New
<1>2. /\ links' \in [Link -> LinkStates] /\ links'[c] = New(h, r)
      /\ \A d \in Link : d # c => links'[d] = links[d]
  BY <1>1
<1>3. \A d \in Link : ~(links[d].live /\ links[d].cached /\ links[d].node = h)
  BY DEF Cached
<1> QED
  BY <1>1, <1>2, <1>3 DEF LinksRight, LinkStates

LEMMA AcquireKeeps == NodeCallInv /\ Acquire => NodeCallInv'
<1> SUFFICES ASSUME NodeCallInv, Acquire PROVE NodeCallInv'
  OBVIOUS
<1>1. /\ nodes' = nodes /\ nc.pc = "acquire" /\ nc.link = NoLink /\ Trying /\ nc \in CallStates
      /\ LinksRight(links, NoLink) /\ NodesStay /\ Target \in Node
  BY ReferencesRight, RequestIs DEF Acquire, NodeCallInv, NodeCallTypeOK, NodesType, Placed,
     NodesStay, Trying
<1>2. CASE Cached(Target) # {}
  <2> DEFINE c == CHOOSE k \in Cached(Target) : TRUE
  <2>1. c \in Cached(Target)
    BY <1>2
  <2>2. /\ links' = [links EXCEPT ![c].refs = @ + 1]
        /\ nc' = [nc EXCEPT !.link = c, !.pc = IF links[c].pid THEN "request" ELSE "set"]
    BY <1>2 DEF Acquire
  <2> HIDE DEF c
  <2>3. /\ c \in Link /\ links[c].live /\ links[c].cached /\ links[c].node = Target /\ c # NoLink
        /\ links[c] \in LinkStates /\ links[c].refs = 0 /\ links \in [Link -> LinkStates]
    BY <1>1, <2>1 DEF Cached, LinksRight
  <2>4. links' = [links EXCEPT ![c] = [links[c] EXCEPT !.refs = 1]]
    BY <2>2, <2>3 DEF LinkStates
  <2>5. [links[c] EXCEPT !.refs = 1] \in LinkStates
    BY <2>3 DEF LinkStates
  <2>6. /\ links' \in [Link -> LinkStates]
        /\ \A d \in Link : /\ links'[d].live = links[d].live /\ links'[d].node = links[d].node
                           /\ links'[d].ok = links[d].ok /\ links'[d].pid = links[d].pid
                           /\ links'[d].cached = links[d].cached
                           /\ links'[d].refs = IF d = c THEN 1 ELSE links[d].refs
    BY <2>3, <2>4, <2>5 DEF LinkStates
  <2>7. LinksRight(links', c)
    BY <1>1, <2>3, <2>6 DEF LinksRight
  <2> QED
    BY <1>1, <2>2, <2>3, <2>6, <2>7, GotKeeps
<1>3. CASE /\ Cached(Target) = {} /\ links' = [links EXCEPT ![Spare] = New(Target, 1)]
           /\ nc' = [nc EXCEPT !.link = Spare, !.pc = "set"]
  <2>1. Spare \in Link /\ ~links[Spare].live
    BY <1>1, <1>3, SpareIsFree
  <2> DEFINE c == Spare
             h == Target
  <2>2. /\ c \in Link /\ h \in Node /\ ~links[c].live /\ Cached(h) = {}
        /\ links' = [links EXCEPT ![c] = New(h, 1)]
    BY <1>1, <1>3, <2>1
  <2>3. nc' = [nc EXCEPT !.link = c, !.pc = "set"] /\ h = Target
    BY <1>3
  <2> HIDE DEF c, h
  <2>4. /\ LinksRight(links', c) /\ links'[c].cached /\ links'[c].node = h
        /\ ~links'[c].pid /\ links'[c].ok
        /\ \A d \in Link : d # c => links'[d] = links[d]
    <3>1. links' = [links EXCEPT ![c] = New(h, IF c = c THEN 1 ELSE 0)]
      BY <2>2
    <3>2. c \in {c, NoLink} /\ LinksRight(links, NoLink)
      BY <1>1
    <3> QED
      BY <2>2, <3>1, <3>2, NewRight
  <2> QED
    BY <1>1, <2>2, <2>3, <2>4, GotKeeps
<1>4. CASE \E e \in {"conn", "other"} :
             /\ nc' = AttemptOver([nc EXCEPT !.away = TRUE], e) /\ UNCHANGED links
  <2>0. [nc EXCEPT !.away = TRUE] \in CallStates
    BY <1>1 DEF CallStates
  <2>1. Worse([nc EXCEPT !.away = TRUE]) /\ [nc EXCEPT !.away = TRUE].away
    BY <1>1, <2>0 DEF Worse, CallStates
  <2> QED
    BY <1>1, <1>4, <2>1, AttemptOverKeeps
<1>5. CASE Target \notin nodes.up /\ nc' = AttemptOver(nc, "conn") /\ UNCHANGED links
  <2>1. Worse(nc) /\ nc.away
    BY <1>1, <1>5, RequestIs DEF Worse, CallStates, NodeCallInv, AwayKnown
  <2> QED
    BY <1>1, <1>5, <2>1, AttemptOverKeeps
<1> QED
  BY <1>2, <1>3, <1>4, <1>5 DEF Acquire

\* What is known while a connection is in use.
LEMMA InUse ==
  NodeCallInv /\ nc.pc \in {"set", "request"} =>
    /\ nc \in CallStates /\ links \in [Link -> LinkStates] /\ NodesType /\ nc.link \in Link
    /\ links[nc.link].live /\ links[nc.link].cached /\ links[nc.link].node = Target
    /\ links[nc.link].pid <=> nc.pc = "request"
    /\ LinksRight(links, nc.link) /\ Trying /\ Worse(nc) /\ Target \in Node
    /\ ~nc.away /\ ~links[nc.link].ok =>
         /\ NodeRequest = "open" => Errors + 1 <= 1 + 2 * nc.breaks
         /\ NodeRequest # "open" /\ nc.breaks = 0 =>
              (nc.pc = "request" \/ nc.unset) /\ nc.tries = 0
<1> SUFFICES ASSUME NodeCallInv, nc.pc \in {"set", "request"}
             PROVE  /\ nc \in CallStates /\ links \in [Link -> LinkStates] /\ NodesType
                    /\ nc.link \in Link
                    /\ links[nc.link].live /\ links[nc.link].cached /\ links[nc.link].node = Target
                    /\ links[nc.link].pid <=> nc.pc = "request"
                    /\ LinksRight(links, nc.link) /\ Trying /\ Worse(nc) /\ Target \in Node
                    /\ ~nc.away /\ ~links[nc.link].ok =>
                         /\ NodeRequest = "open" => Errors + 1 <= 1 + 2 * nc.breaks
                         /\ NodeRequest # "open" /\ nc.breaks = 0 =>
                              (nc.pc = "request" \/ nc.unset) /\ nc.tries = 0
  OBVIOUS
<1>1. /\ nc \in CallStates /\ links \in [Link -> LinkStates] /\ NodesType /\ Trying
      /\ LinksRight(links, nc.link) /\ nc.link \in Link
  BY ReferencesRight DEF NodeCallInv, NodeCallTypeOK, Trying, Placed, CallStates
<1>2. /\ links[nc.link].cached /\ links[nc.link].node = Target
      /\ links[nc.link].pid <=> nc.pc = "request"
  BY DEF NodeCallInv, Placed
<1>3. links[nc.link].live
  BY <1>1, <1>2 DEF LinksRight
<1>4. Worse(nc) /\ Target \in Node
  BY <1>1, RequestIs DEF Worse, CallStates
<1>5. ~links[nc.link].ok => Stale(nc.link)
  BY <1>2, <1>3 DEF Stale
<1>6. ~nc.away /\ ~links[nc.link].ok =>
        /\ NodeRequest = "open" => Errors + 1 <= 1 + 2 * nc.breaks
        /\ NodeRequest # "open" /\ nc.breaks = 0 =>
             (links[nc.link].pid \/ nc.unset) /\ nc.tries = 0
  BY <1>1, <1>5 DEF NodeCallInv, OpenCounted, OthersCounted
<1> QED
  BY <1>1, <1>2, <1>3, <1>4, <1>6

\* A connection that was lost is purged, and the call fails.
LEMMA LostKeeps ==
  ASSUME NodeCallInv, nc.pc \in {"set", "request"}, ~links[nc.link].ok, UNCHANGED nodes,
         CallFailed(Purged(links, nc.link), nc, "conn")
  PROVE  NodeCallInv'
<1> DEFINE l == Purged(links, nc.link)
<1>1. /\ LinksRight(l, nc.link) /\ ~l[nc.link].cached
      /\ \A c \in Link : c # nc.link => l[c] = links[c]
      /\ l[nc.link].node = links[nc.link].node
  BY InUse, PurgedRight
<1>2. NodesStay
  BY InUse DEF NodesStay, NodesType
<1> HIDE DEF l
<1>3. CallFailed(l, nc, "conn")
  BY DEF l
<1> QED
  BY <1>1, <1>2, <1>3, InUse, CallFailedKeepsInv

\* The node answered with an error.
LEMMA RefusedKeeps ==
  ASSUME NodeCallInv, nc.pc \in {"set", "request"}, UNCHANGED nodes,
         NEW e \in {"other", "exists", "unknown"}, CallFailed(links, nc, e)
  PROVE  NodeCallInv'
<1>1. NodesStay
  BY InUse DEF NodesStay, NodesType
<1> QED
  BY <1>1, InUse, CallFailedKeepsInv

LEMMA ProcessSetKeeps == NodeCallInv /\ ProcessSet => NodeCallInv'
<1> SUFFICES ASSUME NodeCallInv, ProcessSet PROVE NodeCallInv'
  OBVIOUS
<1>1. CASE /\ links' = [links EXCEPT ![nc.link].pid = TRUE] /\ links[nc.link].ok
           /\ nc' = [nc EXCEPT !.pc = "request"]
  <2> DEFINE c == nc.link
  <2>1. /\ nc.pc = "set" /\ nodes' = nodes /\ c \in Link /\ nc \in CallStates
        /\ links \in [Link -> LinkStates] /\ links[c] \in LinkStates /\ LinksRight(links, c)
        /\ links[c].cached /\ links[c].node = Target /\ Trying
    BY InUse DEF ProcessSet
  <2>2. /\ links' = [links EXCEPT ![c] = [links[c] EXCEPT !.pid = TRUE]]
        /\ [links[c] EXCEPT !.pid = TRUE] \in LinkStates
    BY <1>1, <2>1 DEF LinkStates
  <2>3. /\ links' \in [Link -> LinkStates]
        /\ \A d \in Link : /\ links'[d].live = links[d].live /\ links'[d].node = links[d].node
                           /\ links'[d].ok = links[d].ok /\ links'[d].refs = links[d].refs
                           /\ links'[d].cached = links[d].cached
                           /\ links'[d].pid = IF d = c THEN TRUE ELSE links[d].pid
    BY <2>1, <2>2 DEF LinkStates
  <2>4. LinksRight(links', c)
    <3>1. \A d \in Link : /\ links'[d].live = links[d].live /\ links'[d].node = links[d].node
                         /\ links'[d].refs = links[d].refs /\ links'[d].cached = links[d].cached
      BY <2>3
    <3>2. links' \in [Link -> LinkStates] /\ LinksRight(links, c)
      BY <2>1, <2>3
    <3> HIDE DEF c
    <3> QED
      BY ONLY <3>1, <3>2, LinksAlike
  <2>5. /\ nc' \in CallStates
        /\ nc'.link = c /\ nc'.pc = "request"
        /\ nc'.kind = nc.kind /\ nc'.host = nc.host /\ nc'.sub = nc.sub /\ nc'.again = nc.again
        /\ nc'.tries = nc.tries /\ nc'.away = nc.away /\ nc'.breaks = nc.breaks
        /\ nc'.unset = nc.unset /\ nc'.gaveup = nc.gaveup
    BY <1>1, <2>1 DEF CallStates
  <2>6. Target' = Target /\ NodeRequest' = NodeRequest /\ Errors' = Errors /\ Trying'
    BY <2>5 DEF Target, NodeRequest, Errors, Trying
  <2>7. ASSUME NEW d \in Link, Stale(d)' PROVE Stale(d) /\ (links[d].pid => links'[d].pid)
    <3>1. links'[d].live /\ ~links'[d].ok /\ links'[d].node = Target
      BY <2>6, <2>7 DEF Stale
    <3> QED
      BY <2>3, <3>1 DEF Stale
  <2>8. NodeCallTypeOK' /\ ReferencesKept'
    BY <2>1, <2>3, <2>4, <2>5, ReferencesRightNext DEF NodeCallInv, NodeCallTypeOK, NodesType
  <2>9. Placed'
    <3>1. c # NoLink /\ links'[c].node = Target' /\ links'[c].cached /\ links'[c].pid
      BY <2>1, <2>3, <2>6
    <3>2. nc.sub => nc.kind = "open" /\ nodes'.ondemand
      BY <2>1 DEF NodeCallInv, Placed
    <3>3. nc.again => NodeRequest' = "open"
      BY <2>6 DEF NodeCallInv, Placed
    <3>4. nc.kind \in {"open", "replicate", "statfs"} /\ nc.host \in Node
      BY <2>1, RequestIs
    <3> HIDE DEF c
    <3> QED
      BY <2>5, <3>1, <3>2, <3>3, <3>4 DEF Placed
  <2>10. AwayKnown'
    BY <2>1, <2>5 DEF NodeCallInv, AwayKnown, Involved
  <2>11. OpenCounted' /\ OthersCounted'
    BY <2>1, <2>5, <2>6, <2>7 DEF NodeCallInv, OpenCounted, OthersCounted
  <2>12. StaleOnce'
    BY <2>5 DEF NodeCallInv, StaleOnce
  <2> QED
    BY <2>8, <2>9, <2>10, <2>11, <2>12 DEF NodeCallInv
<1>2. CASE CallFailed(links, nc, "other")
  BY <1>2, RefusedKeeps DEF ProcessSet
<1>3. CASE ~links[nc.link].ok /\ CallFailed(Purged(links, nc.link), nc, "conn")
  BY <1>3, LostKeeps DEF ProcessSet
<1> QED
  BY <1>1, <1>2, <1>3 DEF ProcessSet

LEMMA RequestFailedKeeps == NodeCallInv /\ RequestFailed => NodeCallInv'
  BY LostKeeps DEF RequestFailed

\* The copy for the local node is made, or the answer of a copy or of a statfs is read.
LEMMA DoneKeeps ==
  ASSUME NodeCallInv, nc.pc = "request", NodeRequest # "open", NodesStay,
         links' = Freed(links, nc.link),
         nc' = IF nc.sub THEN [nc EXCEPT !.sub = FALSE, !.assigned = TRUE, !.host = LocalNode,
                                         !.link = NoLink, !.tries = 0, !.pc = "acquire"]
               ELSE Ended(nc)
  PROVE  NodeCallInv'
<1>1. LinksRight(links', NoLink) /\ nc \in CallStates /\ Worse(nc)
  BY InUse, FreedRight
<1>2. CASE nc' = Ended(nc)
  <2>1. After(nc, "other") = nc.gaveup
    BY DEF After
  <2>2. Left(nc, "other")
    BY <1>1, <1>2, <2>1, EndedLeaves
  <2> QED
    BY <1>1, <2>2, LeftKeeps
<1>3. CASE nc.sub
  <2>1. nc' = [nc EXCEPT !.sub = FALSE, !.assigned = TRUE, !.host = LocalNode, !.link = NoLink,
                         !.tries = 0, !.pc = "acquire"]
    BY <1>3
  <2>2. nc' \in CallStates
    <3> DEFINE m == [nc EXCEPT !.sub = FALSE, !.assigned = TRUE, !.host = LocalNode]
    <3>1. m \in CallStates
      BY <1>1 DEF CallStates
    <3>2. nc' = [m EXCEPT !.link = NoLink, !.tries = 0, !.pc = "acquire"]
      BY <2>1
    <3> HIDE DEF m
    <3> QED
      BY <3>1, <3>2 DEF CallStates
  <2>3. nc.kind = "open" /\ nodes.ondemand /\ ~nc.again /\ Trying
    BY <1>3, RequestIs DEF NodeCallInv, Placed, Trying
  <2>4. /\ nc'.pc = "acquire" /\ nc'.kind = "open" /\ nc'.host = LocalNode /\ nc'.link = NoLink
        /\ ~nc'.sub /\ ~nc'.again /\ nc'.tries = 0 /\ nc'.away = nc.away
        /\ nc'.breaks = nc.breaks /\ nc'.unset = nc.unset /\ nc'.gaveup = nc.gaveup
    <3>1. nc'.kind = nc.kind /\ nc'.again = nc.again
      BY <1>1, <2>1 DEF CallStates
    <3>2. /\ nc'.pc = "acquire" /\ nc'.host = LocalNode /\ nc'.link = NoLink
          /\ nc'.sub = FALSE /\ nc'.tries = 0 /\ nc'.away = nc.away
          /\ nc'.breaks = nc.breaks /\ nc'.unset = nc.unset /\ nc'.gaveup = nc.gaveup
      BY <1>1, <2>1 DEF CallStates
    <3> QED
      BY <2>3, <3>1, <3>2
  <2>5. NodeCallTypeOK' /\ ReferencesKept'
    BY <1>1, <2>2, <2>4, ReferencesRightNext DEF NodeCallTypeOK, NodesStay, LinksRight
  <2>6. Placed'
    BY <2>4 DEF Placed, Trying
  <2>7. AwayKnown'
    <3>1. Involved(nc)' = {LocalNode} /\ LocalNode \in Involved(nc)
      BY <2>3, <2>4 DEF Involved, NodesStay
    <3> QED
      BY <2>3, <2>4, <3>1 DEF NodeCallInv, AwayKnown, NodesStay
  <2>8. OpenCounted' /\ OthersCounted'
    <3>1. Errors' = 0
      BY <2>4 DEF Errors
    <3>2. NodeRequest' = "open"
      BY <2>4 DEF NodeRequest
    <3>3. nc'.breaks \in Nat
      BY <2>2 DEF CallStates
    <3> QED
      BY <3>1, <3>2, <3>3 DEF OpenCounted, OthersCounted
  <2>9. StaleOnce'
    BY <1>1, <2>4, GaveUpKept
  <2> QED
    BY <2>5, <2>6, <2>7, <2>8, <2>9 DEF NodeCallInv
<1> QED
  BY <1>2, <1>3

LEMMA RequestAnsweredKeeps == NodeCallInv /\ RequestAnswered => NodeCallInv'
<1> SUFFICES ASSUME NodeCallInv, RequestAnswered PROVE NodeCallInv'
  OBVIOUS
<1>1. /\ nc.pc = "request" /\ nc \in CallStates /\ Target \in Node /\ NodesType /\ Trying
      /\ links \in [Link -> LinkStates]
  BY InUse DEF RequestAnswered
<1>2. CASE CallFailed(links, nc, "exists") /\ UNCHANGED nodes
  BY <1>1, <1>2, RefusedKeeps
<1>3. ASSUME NEW e \in {"other", "unknown"}, CallFailed(links, nc, e), UNCHANGED nodes
      PROVE  NodeCallInv'
  BY <1>1, <1>3, RefusedKeeps
<1>4. CASE Done /\ NodeRequest = "open"
  <2>1. nc' = [nc EXCEPT !.pc = "opened"] /\ UNCHANGED <<links, nodes>>
    BY <1>4 DEF Done
  <2>2. /\ nc' \in CallStates /\ nc'.pc = "opened" /\ nc'.link = nc.link /\ nc'.kind = nc.kind
        /\ nc'.host = nc.host /\ nc'.sub = nc.sub /\ nc'.again = nc.again
        /\ nc'.away = nc.away /\ nc'.breaks = nc.breaks /\ nc'.unset = nc.unset
        /\ nc'.gaveup = nc.gaveup
    BY <1>1, <2>1 DEF CallStates
  <2>3. /\ nc.kind = "open" /\ ~nc.sub /\ nc.host \in Node /\ nc.link \in Link
        /\ NodeRequest' = NodeRequest
    BY <1>1, <1>4, <2>2, RequestIs, InUse DEF NodeRequest
  <2>4. NodeCallTypeOK' /\ ReferencesKept'
    BY <1>1, <2>1, <2>2, InUse, ReferencesRightNext DEF NodeCallTypeOK, NodesType
  <2>5. Placed'
    BY <1>4, <2>2, <2>3 DEF Placed, Trying
  <2>6. AwayKnown' /\ OpenCounted' /\ OthersCounted'
    BY <2>2 DEF AwayKnown, OpenCounted, OthersCounted, Trying
  <2>7. StaleOnce'
    BY <2>2 DEF NodeCallInv, StaleOnce
  <2> QED
    BY <2>4, <2>5, <2>6, <2>7 DEF NodeCallInv
<1>5. CASE Done /\ NodeRequest # "open"
  <2>1. NodesStay
    <3>1. nodes' = [nodes EXCEPT !.replicas = @ \cup {Target}] \/ nodes' = nodes
      BY <1>5 DEF Done
    <3> QED
      BY <1>1, <3>1 DEF NodesStay, NodesType
  <2> QED
    BY <1>1, <1>5, <2>1, DoneKeeps DEF Done
<1> QED
  BY <1>2, <1>3, <1>4, <1>5 DEF RequestAnswered

LEMMA AnswerLostKeeps == NodeCallInv /\ AnswerLost => NodeCallInv'
<1> SUFFICES ASSUME NodeCallInv, AnswerLost PROVE NodeCallInv'
  OBVIOUS
<1> DEFINE c == nc.link
           l == [links EXCEPT ![c].ok = FALSE]
           n == [nc EXCEPT !.breaks = nc.breaks + 1]
<1>1. /\ nc.pc = "request" /\ nc \in CallStates /\ NodesType /\ Trying
      /\ c \in Link /\ Target \in Node
      /\ LinksRight(links, c) /\ links \in [Link -> LinkStates] /\ links[c] \in LinkStates
      /\ Worse(nc) /\ links[c].ok
  BY InUse DEF AnswerLost
<1>2. PICK k \in {Purged(l, c), l} : CallFailed(k, n, "conn")
  BY DEF AnswerLost
<1>3. /\ LinksRight(l, c) /\ l[c].node = links[c].node
      /\ \A d \in Link : d # c => l[d] = links[d]
  <2>1. /\ l = [links EXCEPT ![c] = [links[c] EXCEPT !.ok = FALSE]]
        /\ [links[c] EXCEPT !.ok = FALSE] \in LinkStates
    BY <1>1 DEF LinkStates
  <2>2. /\ l \in [Link -> LinkStates] /\ l[c].node = links[c].node
        /\ \A d \in Link : d # c => l[d] = links[d]
    BY <1>1, <2>1 DEF LinkStates
  <2>3. \A d \in Link : /\ l[d].live = links[d].live /\ l[d].node = links[d].node
                       /\ l[d].refs = links[d].refs /\ l[d].cached = links[d].cached
    BY <1>1, <2>1 DEF LinkStates
  <2>4. LinksRight(links, c)
    BY <1>1
  <2> HIDE DEF l, c
  <2> QED
    BY <2>2, <2>3, <2>4, LinksAlike
<1>4. /\ LinksRight(k, c) /\ k[c].node = links[c].node
      /\ \A d \in Link : d # c => k[d] = links[d]
  <2>1. c \in Link /\ k \in {Purged(l, c), l}
    BY <1>1, <1>2
  <2> HIDE DEF l, c
  <2> QED
    BY <1>3, <2>1, PurgedRight
<1>5. nc.breaks \in Nat /\ nc.breaks + 1 \in Nat
  BY <1>1 DEF CallStates
<1>6. /\ Worse(n) /\ n.pc = nc.pc /\ n.tries = nc.tries /\ n.breaks = nc.breaks + 1
      /\ n.away = nc.away
  <2>1. n \in CallStates
    BY <1>1, <1>5 DEF CallStates
  <2> QED
    BY <1>1, <1>5, <2>1 DEF Worse, CallStates
<1>7. NodesStay
  <2> DEFINE r == IF NodeRequest = "copy" THEN nodes.replicas \cup {Target} ELSE nodes.replicas
  <2>1. nodes' = [nodes EXCEPT !.lost = nodes.lost + 1, !.replicas = r]
    BY <1>1 DEF AnswerLost, NodesType
  <2>2. r \in SUBSET Node /\ nodes.lost + 1 \in Nat
    BY <1>1 DEF NodesType
  <2> HIDE DEF r
  <2> QED
    BY <1>1, <2>1, <2>2 DEF NodesStay, NodesType
<1>8. ~n.away => /\ NodeRequest = "open" =>
                      Errors + 1 <= 1 + 2 * n.breaks /\ Errors + 2 <= 1 + 2 * n.breaks
                 /\ n.breaks # 0
  <2>1. Errors \in Nat
    BY <1>1 DEF Errors, CallStates
  <2>2. ~nc.away /\ NodeRequest = "open" => Errors <= 1 + 2 * nc.breaks
    BY <1>1 DEF NodeCallInv, OpenCounted
  <2> HIDE DEF n
  <2> QED
    BY <1>5, <1>6, <2>1, <2>2
<1> HIDE DEF n, l
<1> QED
  BY <1>1, <1>2, <1>4, <1>6, <1>7, <1>8, CallFailedKeepsInv

LEMMA OpenedKeeps ==
  ASSUME NodeCallInv, nc.pc = "opened"
  PROVE  /\ nc.link \in Link /\ LinksRight(links, nc.link)
         /\ LinksRight(Purged(links, nc.link), nc.link)
         /\ nc \in CallStates /\ NodesType /\ Worse(nc)
<1>1. nc.link \in Link /\ LinksRight(links, nc.link) /\ nc \in CallStates /\ NodesType
  BY ReferencesRight DEF NodeCallInv, NodeCallTypeOK, Placed, CallStates
<1> QED
  BY <1>1, PurgedRight DEF Worse, CallStates

LEMMA AccessKeeps == NodeCallInv /\ Access => NodeCallInv'
<1> SUFFICES ASSUME NodeCallInv, Access PROVE NodeCallInv'
  OBVIOUS
<1>1. /\ nc.pc = "opened" /\ nc' = nc /\ nodes' = nodes /\ nc \in CallStates /\ NodesType
      /\ LinksRight(links', nc'.link)
  BY OpenedKeeps DEF Access
<1>2. NodeCallTypeOK' /\ ReferencesKept'
  BY <1>1, ReferencesRightNext DEF NodeCallTypeOK, NodesType, LinksRight
<1>3. Placed'
  BY <1>1 DEF NodeCallInv, Placed, Trying, NodeRequest
<1>4. AwayKnown' /\ OpenCounted' /\ OthersCounted' /\ StaleOnce'
  BY <1>1 DEF NodeCallInv, AwayKnown, OpenCounted, OthersCounted, StaleOnce, Trying
<1> QED
  BY <1>2, <1>3, <1>4 DEF NodeCallInv

LEMMA CloseKeeps == NodeCallInv /\ Close => NodeCallInv'
<1> SUFFICES ASSUME NodeCallInv, Close PROVE NodeCallInv'
  OBVIOUS
<1>1. /\ nc.pc = "opened" /\ nc' = Ended(nc) /\ nodes' = nodes
      /\ links' = Freed(links, nc.link) \/ links' = Freed(Purged(links, nc.link), nc.link)
  BY DEF Close
<1>2. LinksRight(links', NoLink) /\ nc \in CallStates /\ Worse(nc) /\ NodesStay
  BY <1>1, OpenedKeeps, FreedRight DEF NodesStay, NodesType
<1>3. After(nc, "other") = nc.gaveup
  BY DEF After
<1>4. Left(nc, "other")
  BY <1>1, <1>2, <1>3, EndedLeaves
<1> QED
  BY <1>2, <1>4, LeftKeeps

(***************************************************************************)
(* The nodes                                                               *)
(***************************************************************************)
LEMMA ProbeKeeps == ASSUME NEW h \in Node PROVE NodeCallInv /\ Probe(h) => NodeCallInv'
<1> SUFFICES ASSUME NodeCallInv, Probe(h) PROVE NodeCallInv'
  OBVIOUS
<1> DEFINE c == Spare
<1>1. /\ nc.pc = "idle" /\ nc.link = NoLink /\ LinksRight(links, NoLink) /\ Cached(h) = {}
      /\ nc' = nc /\ nc \in CallStates /\ links' = [links EXCEPT ![c] = New(h, 0)]
      /\ nodes' = [nodes EXCEPT !.probes = @ + 1] /\ NodesType
  BY ReferencesRight DEF Probe, NodeCallInv, NodeCallTypeOK, Placed
<1>2. c \in Link /\ ~links[c].live
  BY <1>1, SpareIsFree
<1>3. NoLink \in {c, NoLink} /\ links' = [links EXCEPT ![c] = New(h, IF NoLink = c THEN 1 ELSE 0)]
  BY <1>1, <1>2
<1> HIDE DEF c
<1>4. LinksRight(links', NoLink)
  BY <1>1, <1>2, <1>3, NewRight
<1>5. NodesType' /\ nodes'.ondemand = nodes.ondemand
  <2>1. nodes.probes + 1 \in Nat
    BY <1>1 DEF NodesType
  <2> QED
    BY <1>1, <2>1 DEF NodesType
<1>6. NodeCallTypeOK' /\ ReferencesKept'
  BY <1>1, <1>4, <1>5, ReferencesRightNext DEF NodeCallTypeOK, LinksRight
<1>7. Placed'
  BY <1>1, <1>5 DEF NodeCallInv, Placed, Trying
<1>8. AwayKnown' /\ OpenCounted' /\ OthersCounted' /\ StaleOnce'
  BY <1>1 DEF NodeCallInv, AwayKnown, OpenCounted, OthersCounted, StaleOnce, Trying
<1> QED
  BY <1>6, <1>7, <1>8 DEF NodeCallInv

\* Connections of a node break, and a call that needs it takes account of it.
LEMMA LosingKeeps ==
  ASSUME NodeCallInv, NEW h \in Node,
         links' = [c \in Link |-> IF links[c].node = h THEN [links[c] EXCEPT !.ok = FALSE]
                                  ELSE links[c]],
         NodesType', nodes'.ondemand = nodes.ondemand,
         nc' \in {nc, [nc EXCEPT !.breaks = nc.breaks + 1], [nc EXCEPT !.away = TRUE]},
         nc.pc # "idle" /\ h \in Involved(nc) => nc'.away \/ nc'.breaks = nc.breaks + 1,
         \A g \in nodes.up : g \in nodes'.up \/ (Trying /\ g \in Involved(nc) => nc'.away)
  PROVE  NodeCallInv'
<1>1. /\ nc \in CallStates /\ links \in [Link -> LinkStates] /\ LinksRight(links, nc.link)
      /\ nc.breaks \in Nat /\ nc.breaks + 1 \in Nat
  BY ReferencesRight DEF NodeCallInv, NodeCallTypeOK, CallStates
<1>2. /\ links' \in [Link -> LinkStates]
      /\ \A c \in Link : /\ links'[c].live = links[c].live /\ links'[c].node = links[c].node
                         /\ links'[c].refs = links[c].refs /\ links'[c].cached = links[c].cached
                         /\ links'[c].pid = links[c].pid
                         /\ links[c].node # h => links'[c].ok = links[c].ok
  <2>1. ASSUME NEW c \in Link
        PROVE  /\ links'[c] \in LinkStates
               /\ links'[c].live = links[c].live /\ links'[c].node = links[c].node
               /\ links'[c].refs = links[c].refs /\ links'[c].cached = links[c].cached
               /\ links'[c].pid = links[c].pid
               /\ links[c].node # h => links'[c].ok = links[c].ok
    <3>1. links'[c] = IF links[c].node = h THEN [links[c] EXCEPT !.ok = FALSE] ELSE links[c]
      OBVIOUS
    <3>2. links[c] \in LinkStates
      BY <1>1
    <3>3. [links[c] EXCEPT !.ok = FALSE] \in LinkStates
      BY <3>2 DEF LinkStates
    <3> QED
      BY <3>1, <3>2, <3>3 DEF LinkStates
  <2>2. links' = [c \in Link |-> links'[c]]
    OBVIOUS
  <2> QED
    BY <2>1, <2>2
<1>3. LinksRight(links', nc.link)
  <2>1. \A c \in Link : /\ links'[c].live = links[c].live /\ links'[c].node = links[c].node
                       /\ links'[c].refs = links[c].refs /\ links'[c].cached = links[c].cached
    BY <1>2
  <2>2. links' \in [Link -> LinkStates] /\ LinksRight(links, nc.link)
    BY <1>1, <1>2
  <2> QED
    BY ONLY <2>1, <2>2, LinksAlike
<1>4. /\ nc' \in CallStates
      /\ nc'.pc = nc.pc /\ nc'.kind = nc.kind /\ nc'.host = nc.host /\ nc'.link = nc.link
      /\ nc'.sub = nc.sub /\ nc'.again = nc.again /\ nc'.tries = nc.tries
      /\ nc'.unset = nc.unset /\ nc'.gaveup = nc.gaveup
      /\ nc.breaks <= nc'.breaks /\ (nc.away => nc'.away)
  <2>1. CASE nc' = nc
    BY <1>1, <2>1
  <2>2. CASE nc' = [nc EXCEPT !.breaks = nc.breaks + 1]
    BY <1>1, <2>2 DEF CallStates
  <2>3. CASE nc' = [nc EXCEPT !.away = TRUE]
    <3>1. nc' \in CallStates
      BY <1>1, <2>3 DEF CallStates
    <3> QED
      BY <1>1, <2>3, <3>1 DEF CallStates
  <2> QED
    BY <2>1, <2>2, <2>3
<1>5. /\ Target' = Target /\ NodeRequest' = NodeRequest /\ Errors' = Errors /\ Trying' = Trying
      /\ Involved(nc)' = Involved(nc)
  BY <1>4 DEF Target, NodeRequest, Errors, Trying, Involved
<1>6. NodeCallTypeOK' /\ ReferencesKept'
  BY <1>2, <1>3, <1>4, ReferencesRightNext DEF NodeCallTypeOK
<1>7. Placed'
  <2>1. nc.pc \in {"set", "request"} => nc.link \in Link
    BY InUse
  <2> QED
    BY <1>2, <1>4, <1>5, <2>1 DEF NodeCallInv, Placed, Trying
<1>8. AwayKnown'
  BY <1>4, <1>5 DEF NodeCallInv, AwayKnown
<1>9. ASSUME NEW c \in Link, Stale(c)', Trying, ~nc'.away
      PROVE  \/ Stale(c) /\ links'[c].pid = links[c].pid
             \/ nc'.breaks = nc.breaks + 1
  <2>1. links[c].live /\ links[c].node = Target /\ ~links'[c].ok /\ links'[c].pid = links[c].pid
    BY <1>2, <1>5, <1>9 DEF Stale
  <2>2. CASE Target = h
    BY <1>4, <1>9, <2>2, RequestIs DEF Trying
  <2>3. CASE Target # h
    BY <1>2, <2>1, <2>3 DEF Stale
  <2> QED
    BY <2>2, <2>3
<1>10. OpenCounted'
  <2> SUFFICES ASSUME Trying, NodeRequest = "open", ~nc'.away
               PROVE  /\ Errors <= 1 + 2 * nc'.breaks
                      /\ \A c \in Link : Stale(c)' => Errors + 1 <= 1 + 2 * nc'.breaks
    BY <1>5 DEF OpenCounted
  <2>1. Errors \in Nat /\ nc'.breaks \in Nat /\ nc.breaks <= nc'.breaks
    BY <1>1, <1>4 DEF Errors, CallStates
  <2>2. /\ Errors <= 1 + 2 * nc.breaks
        /\ \A c \in Link : Stale(c) => Errors + 1 <= 1 + 2 * nc.breaks
    BY <1>4 DEF NodeCallInv, OpenCounted
  <2>3. ASSUME NEW c \in Link, Stale(c)' PROVE Errors + 1 <= 1 + 2 * nc'.breaks
    <3>1. CASE Stale(c)
      BY <1>1, <2>1, <2>2, <3>1
    <3>2. CASE nc'.breaks = nc.breaks + 1
      BY <1>1, <2>1, <2>2, <3>2
    <3> QED
      BY <1>9, <2>3, <3>1, <3>2
  <2> QED
    BY <1>1, <2>1, <2>2, <2>3
<1>11. OthersCounted'
  <2> SUFFICES ASSUME Trying, NodeRequest # "open", ~nc'.away, nc'.breaks = 0,
                      NEW c \in Link, Stale(c)'
               PROVE  (links'[c].pid \/ nc'.unset) /\ nc'.tries = 0
    BY <1>5 DEF OthersCounted
  <2>1. nc.breaks = 0 /\ Stale(c) /\ links'[c].pid = links[c].pid
    BY <1>1, <1>4, <1>9
  <2> QED
    BY <1>4, <2>1 DEF NodeCallInv, OthersCounted
<1>12. StaleOnce'
  BY <1>1, <1>4 DEF NodeCallInv, StaleOnce, CallStates
<1> QED
  BY <1>6, <1>7, <1>8, <1>10, <1>11, <1>12 DEF NodeCallInv

LEMMA BreakKeeps == ASSUME NEW h \in Node PROVE NodeCallInv /\ Break(h) => NodeCallInv'
<1> SUFFICES ASSUME NodeCallInv, Break(h) PROVE NodeCallInv'
  OBVIOUS
<1>1. nodes.lost + 1 \in Nat /\ nc \in CallStates /\ NodesType /\ nc.breaks \in Nat
  BY DEF NodeCallInv, NodeCallTypeOK, NodesType, CallStates
<1>2. NodesType' /\ nodes'.ondemand = nodes.ondemand /\ nodes'.up = nodes.up
  BY <1>1 DEF Break, NodesType
<1>3. nc' = IF nc.pc # "idle" /\ h \in Involved(nc)
            THEN [nc EXCEPT !.breaks = nc.breaks + 1] ELSE nc
  BY DEF Break
<1>4. nc.pc # "idle" /\ h \in Involved(nc) => nc'.breaks = nc.breaks + 1
  BY <1>1, <1>3 DEF CallStates
<1> QED
  BY <1>2, <1>3, <1>4, LosingKeeps DEF Break

LEMMA DownKeeps == ASSUME NEW h \in Node PROVE NodeCallInv /\ Down(h) => NodeCallInv'
<1> SUFFICES ASSUME NodeCallInv, Down(h) PROVE NodeCallInv'
  OBVIOUS
<1>1. nodes.lost + 1 \in Nat /\ nc \in CallStates /\ NodesType
  BY DEF NodeCallInv, NodeCallTypeOK, NodesType
<1>2. NodesType' /\ nodes'.ondemand = nodes.ondemand /\ nodes'.up = nodes.up \ {h}
  BY <1>1 DEF Down, NodesType
<1>3. nc' = IF nc.pc # "idle" /\ h \in Involved(nc) THEN [nc EXCEPT !.away = TRUE] ELSE nc
  BY DEF Down
<1>4. nc.pc # "idle" /\ h \in Involved(nc) => nc'.away
  BY <1>1, <1>3 DEF CallStates
<1>5. \A g \in nodes.up : g \in nodes'.up \/ (Trying /\ g \in Involved(nc) => nc'.away)
  BY <1>2, <1>4 DEF Trying
<1> QED
  BY <1>2, <1>3, <1>4, <1>5, LosingKeeps DEF Down

LEMMA UpKeeps == ASSUME NEW h \in Node PROVE NodeCallInv /\ Up(h) => NodeCallInv'
<1> SUFFICES ASSUME NodeCallInv, Up(h) PROVE NodeCallInv'
  OBVIOUS
<1>1. /\ UNCHANGED <<links, nc>> /\ links \in [Link -> LinkStates] /\ nc \in CallStates /\ NodesType
      /\ nodes' = [nodes EXCEPT !.up = @ \cup {h}] /\ LinksRight(links', nc'.link)
  BY ReferencesRight DEF Up, NodeCallInv, NodeCallTypeOK
<1>2. NodesType' /\ nodes'.ondemand = nodes.ondemand /\ nodes.up \subseteq nodes'.up
  BY <1>1 DEF NodesType
<1>3. NodeCallTypeOK' /\ ReferencesKept'
  BY <1>1, <1>2, ReferencesRightNext DEF NodeCallTypeOK
<1>4. Placed'
  BY <1>1, <1>2 DEF NodeCallInv, Placed, Trying, Target, NodeRequest
<1>5. AwayKnown'
  BY <1>1, <1>2 DEF NodeCallInv, AwayKnown, Trying, Involved
<1>6. OpenCounted' /\ OthersCounted' /\ StaleOnce'
  BY <1>1 DEF NodeCallInv, OpenCounted, OthersCounted, StaleOnce, Stale, Errors, Trying, Target,
              NodeRequest
<1> QED
  BY <1>3, <1>4, <1>5, <1>6 DEF NodeCallInv

(***************************************************************************)
(* The theorem                                                             *)
(***************************************************************************)
LEMMA NodeCallStarts == NodeCallInit => NodeCallInv
<1> SUFFICES ASSUME NodeCallInit PROVE NodeCallInv
  OBVIOUS
<1>1. /\ links = [c \in Link |-> [live |-> FALSE, node |-> LocalNode, ok |-> FALSE, pid |-> FALSE,
                                  cached |-> FALSE, refs |-> 0]]
      /\ nc = [kind |-> "none", pc |-> "idle", host |-> NoNode, link |-> NoLink, retry |-> 0,
               tries |-> 0, again |-> FALSE, assigned |-> FALSE, sub |-> FALSE, calls |-> 0,
               away |-> FALSE, breaks |-> 0, unset |-> FALSE, gaveup |-> {}]
      /\ NodesType
  BY DEF NodeCallInit, NoCall, NodesType
<1>2. nc \in CallStates
  BY <1>1 DEF CallStates
<1>3. links \in [Link -> LinkStates] /\ LinksRight(links, nc.link)
  BY <1>1 DEF LinksRight, LinkStates
<1>4. ReferencesKept
  BY <1>3, ReferencesRight
<1>5. Placed /\ AwayKnown /\ OpenCounted /\ OthersCounted /\ StaleOnce
  BY <1>1 DEF Placed, AwayKnown, OpenCounted, OthersCounted, StaleOnce, Trying
<1> QED
  BY <1>1, <1>2, <1>3, <1>4, <1>5 DEF NodeCallInv, NodeCallTypeOK

LEMMA NodeCallUnchanged == NodeCallInv /\ UNCHANGED ncvars => NodeCallInv'
<1> SUFFICES ASSUME NodeCallInv, UNCHANGED ncvars PROVE NodeCallInv'
  OBVIOUS
<1>1. UNCHANGED <<links, nodes, nc>>
  BY DEF ncvars
<1>2. NodeCallTypeOK' /\ ReferencesKept'
  BY <1>1 DEF NodeCallInv, NodeCallTypeOK, NodesType, ReferencesKept, Cached
<1>3. Placed'
  BY <1>1 DEF NodeCallInv, Placed, Trying, Target, NodeRequest
<1>4. AwayKnown'
  BY <1>1 DEF NodeCallInv, AwayKnown, Trying, Involved
<1>5. OpenCounted' /\ OthersCounted' /\ StaleOnce'
  BY <1>1 DEF NodeCallInv, OpenCounted, OthersCounted, StaleOnce, Stale, Errors, Trying, Target,
              NodeRequest
<1> QED
  BY <1>2, <1>3, <1>4, <1>5 DEF NodeCallInv

\* However often connections break and nodes go down and come back, every way through
\* the retries of gfs_pio_section.c, gfs_replicate.c and gfs_statfsnode.c gives back the
\* connection that failed, exactly once, and a stale connection of the cache alone makes
\* no call fail, nor leave a node that stayed up, unless it has no process yet.
THEOREM NodesAreReached == NodeCallSpec => []NodesReached
<1>1. NodeCallInv /\ [NodeCallNext]_ncvars => NodeCallInv'
  <2> SUFFICES ASSUME NodeCallInv, [NodeCallNext]_ncvars PROVE NodeCallInv'
    OBVIOUS
  <2>1. ASSUME NEW h \in Node, gfarm_schedule_file(h) PROVE NodeCallInv'
    BY <2>1, ScheduleKeeps
  <2>2. CASE gfarm_schedule_file_failed
    BY <2>2, ScheduleFailedKeeps
  <2>3. CASE Acquire
    BY <2>3, AcquireKeeps
  <2>4. CASE ProcessSet
    BY <2>4, ProcessSetKeeps
  <2>5. CASE RequestAnswered
    BY <2>5, RequestAnsweredKeeps
  <2>6. CASE RequestFailed
    BY <2>6, RequestFailedKeeps
  <2>7. CASE AnswerLost
    BY <2>7, AnswerLostKeeps
  <2>8. CASE Close
    BY <2>8, CloseKeeps
  <2>9. CASE Access
    BY <2>9, AccessKeeps
  <2>10. ASSUME NEW h \in Node, NEW kind \in Kinds, Start(kind, h) PROVE NodeCallInv'
    BY <2>10, StartKeeps
  <2>11. ASSUME NEW h \in Node, Probe(h) \/ Break(h) \/ Down(h) \/ Up(h) PROVE NodeCallInv'
    BY <2>11, ProbeKeeps, BreakKeeps, DownKeeps, UpKeeps
  <2>12. CASE UNCHANGED ncvars
    BY <2>12, NodeCallUnchanged
  <2> QED
    BY <2>1, <2>2, <2>3, <2>4, <2>5, <2>6, <2>7, <2>8, <2>9, <2>10, <2>11, <2>12
    DEF NodeCallNext, CallStep
<1>2. NodeCallInv => NodesReached
  BY DEF NodeCallInv, NodesReached
<1> QED
  BY <1>1, <1>2, NodeCallStarts, PTL DEF NodeCallSpec

(***************************************************************************)
(* The hosts that are counted                                              *)
(***************************************************************************)
Av(H) == {h \in Hosts : H[h].available}
UsableOf(w, H) == {h \in Av(H) : ~(w /\ H[h].statfs /\ H[h].disk < MinDisk)}
IdleOf(w, H) == {h \in UsableOf(w, H) : HostLoad(H, h) <= IdleLoad * Ncpu[h]}
SemiOf(w, H) == {h \in UsableOf(w, H) : HostLoad(H, h) <= SemiLoad}

CountedAs(s, H) ==
  /\ s.available = Cardinality(Av(H)) /\ s.usable = Cardinality(UsableOf(s.write, H))
  /\ s.idle = Cardinality(IdleOf(s.write, H)) /\ s.semi = Cardinality(SemiOf(s.write, H))

\* What counting looks at.
Alike(G, H, h) == /\ G[h].statfs = H[h].statfs /\ G[h].disk = H[h].disk
                  /\ G[h].load = H[h].load /\ G[h].scheduled = H[h].scheduled

LEMMA HostsFinite == IsFiniteSet(Hosts)
<1>1. IsFiniteSet(1..Len(Order)) /\ Order \in Seq(Hosts)
  BY FS_Interval, SearchAssumption
<1>2. Hosts = {Order[i] : i \in 1..Len(Order)}
  BY <1>1 DEF Hosts, Range
<1>3. Order \in Surjection(1..Len(Order), Hosts)
  BY <1>1, <1>2 DEF Surjection
<1> QED
  BY <1>1, <1>3, FS_Surjection

LEMMA CountedFinite ==
  ASSUME NEW H, NEW w
  PROVE  /\ IsFiniteSet(Av(H)) /\ IsFiniteSet(UsableOf(w, H))
         /\ IsFiniteSet(IdleOf(w, H)) /\ IsFiniteSet(SemiOf(w, H))
         /\ IdleOf(w, H) \subseteq UsableOf(w, H) /\ SemiOf(w, H) \subseteq UsableOf(w, H)
         /\ UsableOf(w, H) \subseteq Av(H) /\ Av(H) \subseteq Hosts
<1>1. /\ IdleOf(w, H) \subseteq UsableOf(w, H) /\ SemiOf(w, H) \subseteq UsableOf(w, H)
      /\ UsableOf(w, H) \subseteq Av(H) /\ Av(H) \subseteq Hosts
  BY DEF Av, UsableOf, IdleOf, SemiOf
<1> QED
  BY <1>1, HostsFinite, FS_Subset

LEMMA TogetherCounted ==
  ASSUME NEW A, NEW B, IsFiniteSet(A), IsFiniteSet(B), A \cap B = {}
  PROVE  Cardinality(A \cup B) = Cardinality(A) + Cardinality(B) /\ Cardinality(A) \in Nat /\ Cardinality(B) \in Nat
<1>1. Cardinality(A \cup B) = Cardinality(A) + Cardinality(B) - Cardinality(A \cap B)
  BY FS_Union
<1>2. Cardinality(A \cap B) = 0
  BY FS_EmptySet
<1>3. Cardinality(A) \in Nat /\ Cardinality(B) \in Nat
  BY FS_CardinalityType
<1> QED
  BY <1>1, <1>2, <1>3

LEMMA RecordCounts ==
  ASSUME NEW s, s.write = si.write, NEW H, CountedAs(s, H), NEW K, NEW hs, hs \subseteq Hosts, hs \cap Av(H) = {},
         {"available", "usable", "idle", "semi", "write"} \subseteq DOMAIN s,
         NEW G, Av(G) = Av(H) \cup hs, \A h \in Av(H) : Alike(G, H, h), \A h \in hs : Alike(G, K, h),
         NEW t, t = RecordHosts(s, K, hs)
  PROVE  CountedAs(t, G)
<1>1. PICK w : w = s.write
  OBVIOUS
<1>2. PICK us, is, ss : /\ us = {h \in hs : HostUsable(K, h)}
                        /\ is = {h \in hs : HostIdle(K, h)}
                        /\ ss = {h \in hs : HostSemiIdle(K, h)}
  OBVIOUS
<1>3. \A h : /\ HostUsable(K, h) <=> ~(w /\ K[h].statfs /\ K[h].disk < MinDisk)
             /\ HostIdle(K, h) <=> HostUsable(K, h) /\ HostLoad(K, h) <= IdleLoad * Ncpu[h]
             /\ HostSemiIdle(K, h) <=> HostUsable(K, h) /\ HostLoad(K, h) <= SemiLoad
  BY <1>1 DEF HostUsable, HostIdle, HostSemiIdle
<1>4. /\ \A h \in Av(H) : HostLoad(G, h) = HostLoad(H, h)
      /\ \A h \in hs : HostLoad(G, h) = HostLoad(K, h)
  BY DEF HostLoad, Alike
<1>5. UsableOf(w, G) = UsableOf(w, H) \cup us
  BY <1>2, <1>3 DEF UsableOf, Alike
<1>6. IdleOf(w, G) = IdleOf(w, H) \cup is
  <2>1. is = {h \in us : HostLoad(K, h) <= IdleLoad * Ncpu[h]}
    BY <1>2, <1>3
  <2>2. /\ UsableOf(w, H) \subseteq Av(H) /\ us \subseteq hs
    BY <1>2 DEF UsableOf
  <2> QED
    BY <1>4, <1>5, <2>1, <2>2 DEF IdleOf
<1>7. SemiOf(w, G) = SemiOf(w, H) \cup ss
  <2>1. ss = {h \in us : HostLoad(K, h) <= SemiLoad}
    BY <1>2, <1>3
  <2>2. /\ UsableOf(w, H) \subseteq Av(H) /\ us \subseteq hs
    BY <1>2 DEF UsableOf
  <2> QED
    BY <1>4, <1>5, <2>1, <2>2 DEF SemiOf
<1>8. /\ IsFiniteSet(hs) /\ IsFiniteSet(us) /\ IsFiniteSet(is) /\ IsFiniteSet(ss)
      /\ us \cap UsableOf(w, H) = {} /\ is \cap IdleOf(w, H) = {} /\ ss \cap SemiOf(w, H) = {}
  <2>1. us \subseteq hs /\ is \subseteq hs /\ ss \subseteq hs
    BY <1>2
  <2>2. IsFiniteSet(hs) /\ IsFiniteSet(us) /\ IsFiniteSet(is) /\ IsFiniteSet(ss)
    BY <2>1, HostsFinite, FS_Subset
  <2> QED
    BY <2>1, <2>2, CountedFinite
<1>9. /\ Cardinality(Av(G)) = Cardinality(Av(H)) + Cardinality(hs)
      /\ Cardinality(UsableOf(w, G)) = Cardinality(UsableOf(w, H)) + Cardinality(us)
      /\ Cardinality(IdleOf(w, G)) = Cardinality(IdleOf(w, H)) + Cardinality(is)
      /\ Cardinality(SemiOf(w, G)) = Cardinality(SemiOf(w, H)) + Cardinality(ss)
  BY <1>5, <1>6, <1>7, <1>8, CountedFinite, TogetherCounted
<1>10. /\ t.available = s.available + Cardinality(hs) /\ t.usable = s.usable + Cardinality(us)
       /\ t.idle = s.idle + Cardinality(is) /\ t.semi = s.semi + Cardinality(ss) /\ t.write = w
  BY <1>1, <1>2 DEF RecordHosts
<1> QED
  BY <1>1, <1>9, <1>10 DEF CountedAs

\* Counting again without what has been scheduled.
Forgotten(H, hs) == [h \in Hosts |-> IF h \in hs THEN [H[h] EXCEPT !.scheduled = 0] ELSE H[h]]
CountedAgain(s, H, G, hs) ==
  [s EXCEPT !.idle = @ + Cardinality({h \in hs : ~HostIdle(H, h) /\ HostIdle(G, h)}),
            !.semi = @ + Cardinality({h \in hs : ~HostSemiIdle(H, h) /\ HostSemiIdle(G, h)})]

LEMMA ForgetCounts ==
  ASSUME NEW s, s.write = si.write, NEW H, CountedAs(s, H), NEW hs, hs \subseteq Av(H),
         {"available", "usable", "idle", "semi", "write"} \subseteq DOMAIN s,
         \A h \in Hosts : H[h].load \in Nat /\ H[h].scheduled \in Nat /\ "scheduled" \in DOMAIN H[h],
         NEW G, G = Forgotten(H, hs), NEW t, t = CountedAgain(s, H, G, hs)
  PROVE  CountedAs(t, G)
<1>1. PICK w, is, ss : /\ w = s.write
                       /\ is = {h \in hs : ~HostIdle(H, h) /\ HostIdle(G, h)}
                       /\ ss = {h \in hs : ~HostSemiIdle(H, h) /\ HostSemiIdle(G, h)}
  OBVIOUS
<1>2. \A h \in Hosts : /\ G[h].statfs = H[h].statfs /\ G[h].disk = H[h].disk /\ G[h].load = H[h].load
                       /\ G[h].available = H[h].available
                       /\ G[h].scheduled = IF h \in hs THEN 0 ELSE H[h].scheduled
  BY DEF Forgotten
<1>3. hs \subseteq Hosts /\ Av(G) = Av(H) /\ UsableOf(w, G) = UsableOf(w, H)
  BY <1>2 DEF Av, UsableOf
<1>4. \A h \in Hosts : /\ h \in hs => HostLoad(G, h) = H[h].load
                       /\ h \notin hs => HostLoad(G, h) = HostLoad(H, h)
                       /\ HostLoad(H, h) \in Nat /\ H[h].load <= HostLoad(H, h)
  <2>1. VirtualLoad \in Nat /\ 0 * VirtualLoad = 0
    BY SearchAssumption
  <2>2. TAKE h \in Hosts
  <2>3. H[h].scheduled * VirtualLoad \in Nat
    BY <2>1
  <2>4. H[h].load \in Nat /\ HostLoad(H, h) = H[h].load + H[h].scheduled * VirtualLoad
    BY DEF HostLoad
  <2>5. HostLoad(G, h) = G[h].load + G[h].scheduled * VirtualLoad
    BY DEF HostLoad
  <2>6. HostLoad(H, h) \in Nat /\ H[h].load <= HostLoad(H, h)
    BY <2>3, <2>4
  <2>7. h \in hs => HostLoad(G, h) = H[h].load
    <3>1. h \in hs => G[h].scheduled = 0 /\ G[h].load = H[h].load
      BY <1>2
    <3>2. h \in hs => HostLoad(G, h) = H[h].load + 0
      BY <2>1, <2>5, <3>1
    <3> QED
      BY <2>4, <3>2
  <2>8. h \notin hs => HostLoad(G, h) = HostLoad(H, h)
    BY <1>2, <2>4, <2>5
  <2> QED
    BY <2>6, <2>7, <2>8
<1>5. \A h \in Hosts : /\ HostIdle(H, h) <=> HostUsable(H, h) /\ HostLoad(H, h) <= IdleLoad * Ncpu[h]
                       /\ HostIdle(G, h) <=> HostUsable(H, h) /\ HostLoad(G, h) <= IdleLoad * Ncpu[h]
                       /\ HostSemiIdle(H, h) <=> HostUsable(H, h) /\ HostLoad(H, h) <= SemiLoad
                       /\ HostSemiIdle(G, h) <=> HostUsable(H, h) /\ HostLoad(G, h) <= SemiLoad
                       /\ h \in UsableOf(w, H) <=> h \in Av(H) /\ HostUsable(H, h)
  BY <1>1, <1>2 DEF HostIdle, HostSemiIdle, HostUsable, UsableOf, Av
<1>6. \A h \in Hosts : /\ HostIdle(H, h) => HostIdle(G, h)
                       /\ HostSemiIdle(H, h) => HostSemiIdle(G, h)
                       /\ h \notin hs => (HostIdle(H, h) <=> HostIdle(G, h))
                       /\ h \notin hs => (HostSemiIdle(H, h) <=> HostSemiIdle(G, h))
  <2>1. TAKE h \in Hosts
  <2>2. PICK a, b, x, y : a = HostLoad(H, h) /\ b = HostLoad(G, h) /\ x = IdleLoad * Ncpu[h] /\ y = SemiLoad
    OBVIOUS
  <2>3. a \in Nat /\ b \in Nat /\ b <= a
    <3>1. H[h].load \in Nat
      OBVIOUS
    <3> QED
      BY <1>4, <2>2, <3>1
  <2>4. x \in Nat /\ y \in Nat
    <3>1. Ncpu[h] \in Nat /\ IdleLoad \in Nat /\ SemiLoad \in Nat
      BY SearchAssumption
    <3> QED
      BY <2>2, <3>1
  <2>5. (a <= x => b <= x) /\ (a <= y => b <= y)
    BY <2>3, <2>4
  <2> QED
    BY <1>4, <1>5, <2>2, <2>5
<1>7. IdleOf(w, G) = IdleOf(w, H) \cup is
  <2>1. /\ \A h \in Hosts : h \in IdleOf(w, H) <=> h \in Av(H) /\ HostIdle(H, h)
        /\ \A h \in Hosts : h \in IdleOf(w, G) <=> h \in Av(H) /\ HostIdle(G, h)
    BY <1>3, <1>5 DEF IdleOf
  <2> QED
    BY <1>1, <1>3, <1>6, <2>1 DEF IdleOf, UsableOf, Av
<1>8. SemiOf(w, G) = SemiOf(w, H) \cup ss
  <2>1. /\ \A h \in Hosts : h \in SemiOf(w, H) <=> h \in Av(H) /\ HostSemiIdle(H, h)
        /\ \A h \in Hosts : h \in SemiOf(w, G) <=> h \in Av(H) /\ HostSemiIdle(G, h)
    BY <1>3, <1>5 DEF SemiOf
  <2> QED
    BY <1>1, <1>3, <1>6, <2>1 DEF SemiOf, UsableOf, Av
<1>9. /\ IsFiniteSet(is) /\ IsFiniteSet(ss)
      /\ is \cap IdleOf(w, H) = {} /\ ss \cap SemiOf(w, H) = {}
  <2>1. is \subseteq hs /\ ss \subseteq hs
    BY <1>1
  <2>2. IsFiniteSet(is) /\ IsFiniteSet(ss)
    BY <1>3, <2>1, HostsFinite, FS_Subset
  <2>3. is \cap IdleOf(w, H) = {} /\ ss \cap SemiOf(w, H) = {}
    BY <1>1, <1>3, <1>5, <2>1 DEF IdleOf, SemiOf
  <2> QED
    BY <2>2, <2>3
<1>10. /\ Cardinality(IdleOf(w, G)) = Cardinality(IdleOf(w, H)) + Cardinality(is)
       /\ Cardinality(SemiOf(w, G)) = Cardinality(SemiOf(w, H)) + Cardinality(ss)
  BY <1>7, <1>8, <1>9, CountedFinite, TogetherCounted
<1>11. /\ t.available = s.available /\ t.usable = s.usable /\ t.write = w
       /\ t.idle = s.idle + Cardinality(is) /\ t.semi = s.semi + Cardinality(ss)
  BY <1>1 DEF CountedAgain
<1> QED
  BY <1>1, <1>3, <1>10, <1>11 DEF CountedAs

(***************************************************************************)
(* The hosts to choose from                                                *)
(***************************************************************************)
LEMMA OrderOf ==
  ASSUME NEW S, NEW p \in Orders(S)
  PROVE  /\ p \in [1..Cardinality(S) -> S] /\ DOMAIN p = 1..Cardinality(S) /\ Range(p) = S
         /\ \A i, j \in 1..Cardinality(S) : p[i] = p[j] => i = j
         /\ \A h \in S : \E i \in 1..Cardinality(S) : p[i] = h
<1>1. /\ p \in [1..Cardinality(S) -> S]
      /\ \A i, j \in 1..Cardinality(S) : p[i] = p[j] => i = j
      /\ \A h \in S : \E i \in 1..Cardinality(S) : p[i] = h
  BY DEF Orders, Bijection, Injection, Surjection, IsInjective
<1> QED
  BY <1>1 DEF Range

\* Those with space come first when the most space comes first.
LEMMA SpaceFirst ==
  ASSUME NEW S, IsFiniteSet(S), NEW p \in Orders(S), NEW D, \A h \in S : D[h] \in Nat,
         \A i, j \in 1..Cardinality(S) : i < j => ~(D[p[j]] > D[p[i]]),
         NEW U, U = {h \in S : D[h] >= MinDisk}
  PROVE  /\ Cardinality(U) \in Nat /\ Cardinality(U) <= Cardinality(S) /\ Cardinality(S) \in Nat
         /\ \A i \in 1..Cardinality(U) : p[i] \in U
<1>1. /\ IsFiniteSet(U) /\ Cardinality(U) \in Nat /\ Cardinality(U) <= Cardinality(S) /\ Cardinality(S) \in Nat
  BY FS_Subset, FS_CardinalityType
<1>0. /\ p \in [1..Cardinality(S) -> S]
      /\ \A h \in S : \E i \in 1..Cardinality(S) : p[i] = h
  BY OrderOf
<1>2. ASSUME NEW i \in 1..Cardinality(U), p[i] \notin U
      PROVE  FALSE
  <2>1. PICK P : P = {j \in 1..Cardinality(S) : p[j] \in U}
    OBVIOUS
  <2>2. i \in 1..Cardinality(S) /\ p[i] \in S /\ D[p[i]] < MinDisk /\ D[p[i]] \in Nat /\ i \in Nat
    <3>1. i \in 1..Cardinality(S) /\ i \in Nat
      BY <1>1
    <3>2. p[i] \in S
      BY <1>0, <3>1
    <3>3. D[p[i]] \in Nat /\ ~(D[p[i]] >= MinDisk)
      BY <1>2, <3>2
    <3> QED
      BY <3>1, <3>2, <3>3, SearchAssumption
  <2>3. P \subseteq 1..(i - 1)
    <3>1. ASSUME NEW j \in P
          PROVE  j \in 1..(i - 1)
      <4>1. j \in 1..Cardinality(S) /\ p[j] \in U /\ j \in Nat /\ 1 <= j
        BY <1>1, <2>1
      <4>2. D[p[j]] \in Nat /\ D[p[j]] >= MinDisk
        BY <4>1
      <4>3. j # i
        BY <1>2, <4>1
      <4>4. ~(i < j)
        <5>1. ~(i < j) \/ ~(D[p[j]] > D[p[i]])
          BY <2>2, <4>1
        <5>2. D[p[j]] > D[p[i]]
          BY <2>2, <4>2, SearchAssumption
        <5> QED
          BY <5>1, <5>2
      <4> QED
        BY <2>2, <4>1, <4>3, <4>4
    <3> QED
      BY <3>1
  <2>4. /\ IsFiniteSet(1..(i - 1)) /\ Cardinality(1..(i - 1)) = i - 1
    <3>1. i - 1 \in Int /\ i - 1 >= 0 /\ 1 \in Int
      BY <2>2
    <3>2. Cardinality(1..(i - 1)) = IF 1 > i - 1 THEN 0 ELSE (i - 1) - 1 + 1
      BY <3>1, FS_Interval
    <3>3. IsFiniteSet(1..(i - 1))
      BY <3>1, FS_Interval
    <3> QED
      BY <3>1, <3>2, <3>3
  <2>5. IsFiniteSet(P) /\ Cardinality(P) <= i - 1 /\ Cardinality(P) \in Nat
    BY <2>3, <2>4, FS_Subset, FS_CardinalityType
  <2>6. PICK f : f = [j \in P |-> p[j]]
    OBVIOUS
  <2>7. f \in Surjection(P, U)
    <3>1. \A h \in U : \E j \in P : f[j] = h
      BY <1>0, <2>1, <2>6
    <3>2. f \in [P -> U]
      BY <2>1, <2>6
    <3> QED
      BY <3>1, <3>2 DEF Surjection
  <2>8. Cardinality(U) <= Cardinality(P)
    BY <2>5, <2>7, FS_Surjection
  <2> QED
    BY <1>1, <2>2, <2>5, <2>8
<1> QED
  BY <1>1, <1>2

\* Sorting the first n again leaves them the first n.
LEMMA BehindKeeps ==
  ASSUME NEW S, NEW p \in Orders(S), NEW n \in Nat, n <= Cardinality(S), Cardinality(S) \in Nat,
         NEW q \in Behind(p, n), NEW U, \A i \in 1..n : p[i] \in U
  PROVE  q \in Orders(S) /\ \A i \in 1..n : q[i] \in U
<1>1. q \in Orders(S) /\ \A i \in 1..Cardinality(S) : i > n => q[i] = p[i]
  <2>1. DOMAIN p = 1..Cardinality(S) /\ Range(p) = S
    BY OrderOf
  <2> QED
    BY <2>1 DEF Behind
<1>3. /\ \A i, j \in 1..Cardinality(S) : q[i] = q[j] => i = j
      /\ q \in [1..Cardinality(S) -> S]
  BY <1>1, OrderOf
<1>4. \A h \in S : \E i \in 1..Cardinality(S) : p[i] = h
  BY OrderOf
<1>2. ASSUME NEW i \in 1..n
      PROVE  q[i] \in U
  <2>1. i \in 1..Cardinality(S) /\ i <= n /\ i \in Nat
    OBVIOUS
  <2>2. q[i] \in S
    BY <1>3, <2>1
  <2>3. PICK k \in 1..Cardinality(S) : p[k] = q[i]
    BY <1>4, <2>2
  <2>4. ~(k > n)
    <3>1. k > n => q[k] = q[i]
      BY <1>1, <2>3
    <3>2. q[k] = q[i] => k = i
      BY <1>3, <2>1
    <3> QED
      BY <2>1, <3>1, <3>2
  <2>5. k \in 1..n
    BY <2>4
  <2> QED
    BY <2>3, <2>5
<1> QED
  BY <1>1, <1>2

LEMMA ResultsHaveSpace ==
  ASSUME si.write, CountedAs(si, host), AvailableHosts = Av(host),
         \A h \in Hosts : host[h].disk \in Nat /\ (host[h].available => host[h].statfs),
         NEW rs \in Results
  PROVE  /\ rs \in Orders(Av(host)) /\ Chosen \in Nat /\ Chosen <= Cardinality(Av(host))
         /\ DOMAIN SubSeq(rs, 1, Chosen) = 1..Chosen
         /\ \A i \in 1..Chosen : SubSeq(rs, 1, Chosen)[i] = rs[i] /\ host[rs[i]].disk >= MinDisk
<1>1. PICK H, S, U, D : /\ H = host /\ S = Av(H) /\ U = UsableOf(TRUE, H) /\ D = [h \in Hosts |-> H[h].disk]
  OBVIOUS
<1>2. /\ IsFiniteSet(S) /\ S \subseteq Hosts /\ S = AvailableHosts
      /\ \A h \in S : D[h] \in Nat /\ D[h] = H[h].disk
  BY <1>1, CountedFinite
<1>3. U = {h \in S : D[h] >= MinDisk}
  <2>1. \A h \in S : h \in U <=> ~(H[h].disk < MinDisk)
    BY <1>1 DEF UsableOf, Av
  <2>2. U \subseteq S
    BY <1>1, CountedFinite
  <2>3. \A h \in S : ~(H[h].disk < MinDisk) <=> D[h] >= MinDisk
    BY <1>2, SearchAssumption
  <2> QED
    BY <2>1, <2>2, <2>3
<1>4. PICK u, e, m : u = si.usable /\ e = si.idle /\ m = si.semi
  OBVIOUS
<1>5. /\ u = Cardinality(U) /\ u \in Nat /\ u <= Cardinality(S) /\ Cardinality(S) \in Nat
      /\ e \in Nat /\ e <= u /\ m \in Nat /\ m <= u
  <2>1. /\ u = Cardinality(U) /\ e = Cardinality(IdleOf(TRUE, H)) /\ m = Cardinality(SemiOf(TRUE, H))
    BY <1>1, <1>4 DEF CountedAs, UsableOf, IdleOf, SemiOf
  <2>2. /\ IsFiniteSet(U) /\ U \subseteq S /\ IdleOf(TRUE, H) \subseteq U /\ SemiOf(TRUE, H) \subseteq U
    BY <1>1, CountedFinite
  <2> QED
    BY <1>2, <2>1, <2>2, FS_Subset, FS_CardinalityType
<1>6. PICK n : n = IF e >= Desired THEN e ELSE m
  OBVIOUS
<1>7. n \in Nat /\ n <= u
  BY <1>5, <1>6
<1>8. ASSUME NEW p \in Sorted(Orders(S), Cardinality(S), MoreSpace)
      PROVE  p \in Orders(S) /\ \A i \in 1..u : p[i] \in U
  <2>1. /\ p \in Orders(S)
        /\ \A i, j \in 1..Cardinality(S) : i < j => ~(D[p[j]] > D[p[i]])
    <3>1. /\ p \in Orders(S)
          /\ \A i, j \in 1..Cardinality(S) : i < j => ~(H[p[j]].disk > H[p[i]].disk)
      BY <1>1 DEF Sorted, MoreSpace
    <3>2. \A i \in 1..Cardinality(S) : p[i] \in S
      <4>1. p \in [1..Cardinality(S) -> S]
        BY <3>1, OrderOf
      <4> QED
        BY <4>1
    <3> QED
      BY <1>2, <3>1, <3>2
  <2> QED
    BY <1>2, <1>3, <1>5, <2>1, SpaceFirst
<1>9. rs \in Orders(S) /\ \A i \in 1..u : rs[i] \in U
  <2>1. CASE u < Desired
    <3>1. rs \in Sorted(Orders(S), Cardinality(S), MoreSpace)
      BY <1>2, <1>4, <2>1 DEF Results
    <3> QED
      BY <1>8, <3>1
  <2>2. CASE ~(u < Desired)
    <3>1. PICK p \in Sorted(Orders(S), Cardinality(S), MoreSpace) :
            rs \in UNION {IF e < Desired /\ m < Desired * EnoughRate THEN {q} ELSE Sorted(Behind(q, n), n, MoreSpace)
                            : q \in Sorted(Behind(p, u), u, LessLoad)}
      BY <1>2, <1>4, <1>6, <2>2 DEF Results
    <3>2. PICK q \in Sorted(Behind(p, u), u, LessLoad) : rs = q \/ rs \in Sorted(Behind(q, n), n, MoreSpace)
      BY <3>1
    <3>3. q \in Behind(p, u)
      BY <3>2 DEF Sorted
    <3>4. q \in Orders(S) /\ \A i \in 1..u : q[i] \in U
      BY <1>5, <1>8, <3>3, BehindKeeps
    <3>5. CASE rs \in Sorted(Behind(q, n), n, MoreSpace)
      <4>1. rs \in Behind(q, n)
        BY <3>5 DEF Sorted
      <4>2. \A i \in 1..n : q[i] \in U
        BY <1>5, <1>7, <3>4
      <4>3. rs \in Orders(S) /\ \A i \in 1..n : rs[i] \in U
        BY <1>5, <1>7, <3>4, <4>1, <4>2, BehindKeeps
      <4>4. \A i \in 1..u : i > n => rs[i] = q[i]
        BY <1>5, <3>4, <4>1, OrderOf DEF Behind
      <4> QED
        BY <1>5, <1>7, <3>4, <4>3, <4>4
    <3> QED
      BY <3>2, <3>4, <3>5
  <2> QED
    BY <2>1, <2>2
<1>10. Chosen \in Nat /\ Chosen <= u
  <2>1. Desired \in Nat
    BY SearchAssumption
  <2> QED
    BY <1>4, <1>5, <2>1 DEF Chosen
<1>11. PICK k : k = Chosen
  OBVIOUS
<1>12. /\ DOMAIN SubSeq(rs, 1, k) = 1..k
       /\ \A i \in 1..k : SubSeq(rs, 1, k)[i] = rs[i]
  <2>1. k \in Nat /\ k <= Cardinality(S)
    BY <1>5, <1>10, <1>11
  <2>2. rs \in [1..Cardinality(S) -> S]
    BY <1>9, OrderOf
  <2>3. rs \in Seq(S) /\ Len(rs) = Cardinality(S)
    BY <1>5, <2>2
  <2> QED
    BY <2>1, <2>3
<1>13. \A i \in 1..k : host[rs[i]].disk >= MinDisk
  <2>1. TAKE i \in 1..k
  <2>2. rs[i] \in U
    BY <1>5, <1>9, <1>10, <1>11
  <2> QED
    BY <1>1, <1>2, <1>3, <2>2
<1>14. rs \in Orders(Av(host)) /\ k \in Nat /\ k <= Cardinality(Av(host))
  <2>1. Cardinality(S) \in Nat /\ u \in Nat /\ u <= Cardinality(S) /\ k \in Nat /\ k <= u
    BY <1>5, <1>10, <1>11
  <2>2. k <= Cardinality(S)
    BY <2>1
  <2> QED
    BY <1>1, <1>9, <2>1, <2>2
<1> QED
  BY <1>11, <1>12, <1>13, <1>14

(***************************************************************************)
(* The first of a set in the order of a list                               *)
(***************************************************************************)
NatWF == IsWellFoundedOn({ss \in Nat \X Nat : ss[1] < ss[2]}, Nat)

LEMMA LeastOf ==
  ASSUME NEW S, S \subseteq Nat, S # {}
  PROVE  \E k \in S : \A i \in S : k <= i
<1>1. NatWF
  BY NatLessThanWellFounded DEF NatWF, OpToRel
<1>2. PICK x : x \in S
  OBVIOUS
<1>3. PICK k \in S : \A i \in S : <<i, k>> \notin {ss \in Nat \X Nat : ss[1] < ss[2]}
  BY <1>1, <1>2, WFMin, Zenon DEF NatWF
<1>4. \A i \in S : ~(i < k)
  BY <1>3
<1>5. \A i \in S : k <= i
  BY <1>4
<1> QED
  BY <1>5

LEMMA FirstIn ==
  ASSUME NEW T, NEW list \in Seq(T), NEW S, S # {}, S \subseteq Range(list)
  PROVE  First(list, S) \in S
<1>1. PICK places : places = {i \in DOMAIN list : list[i] \in S}
  OBVIOUS
<1>2. places \subseteq Nat /\ places # {}
  <2>1. PICK h : h \in S
    OBVIOUS
  <2>2. PICK i \in DOMAIN list : list[i] = h
    BY <2>1 DEF Range
  <2> QED
    BY <1>1, <2>1, <2>2
<1>3. \E k \in places : \A j \in places : k <= j
  BY <1>2, LeastOf
<1>4. PICK k : k = CHOOSE i \in places : \A j \in places : i <= j
  OBVIOUS
<1>5. k \in places
  BY <1>3, <1>4
<1>6. First(list, S) = list[k]
  BY <1>1, <1>4 DEF First
<1> QED
  BY <1>1, <1>5, <1>6

(***************************************************************************)
(* The invariant                                                           *)
(***************************************************************************)
HostFields == {"tried", "rttavail", "auth", "statfs", "fresh", "diskfresh", "load", "disk", "scheduled",
               "just", "available", "used"}

HostsOk(H) ==
  /\ DOMAIN H = Hosts
  /\ \A h \in Hosts : /\ DOMAIN H[h] = HostFields
                      /\ H[h].load \in Nat /\ H[h].disk \in Nat /\ H[h].scheduled \in Nat
                      /\ H[h].used => H[h].available

\* The requests in progress, and those of the hosts of a network.
Underway(o) == {h \in Hosts : o[h].request # "none"}
UnderwayIn(o, n) == {h \in Hosts : o[h].request # "none" /\ NetOf[h] = n}

NetsOk(N, o) ==
  /\ DOMAIN N = Range(Nets) /\ DOMAIN o = Hosts
  /\ \A n \in Range(Nets) : /\ DOMAIN N[n] = {"rtt", "ongoing"}
                            /\ N[n].ongoing = Cardinality(UnderwayIn(o, n))
  /\ \A h \in Hosts : DOMAIN o[h] = {"request", "record"}

SearchFields == {"pc", "ret", "phase", "mode", "write", "cand", "nets", "left", "todo", "pass", "cursor", "again",
                 "unknown", "alltried", "available", "usable", "idle", "semi", "concurrency", "chosen",
                 "searches", "faults"}

\* Where the search is: what it waits for is in one of its phases.
TryingHosts(s) == s.pc = "try" \/ (s.pc \in {"turn", "turned"} /\ s.ret = "try")
Cursing(s) == s.pc = "trycursor" \/ (s.pc \in {"turn", "turned"} /\ s.ret = "trycursor")
Passing(s) == s.pc \in {"pass", "newpass"} \/ (s.pc \in {"turn", "turned"} /\ s.ret = "newpass")

StateOk(s) ==
  /\ DOMAIN s = SearchFields
  /\ s.cand \subseteq Hosts /\ s.todo \subseteq s.cand
  /\ s.nets \subseteq Range(Nets) /\ s.left \subseteq Range(Nets) /\ s.pass \subseteq Range(Nets)
  /\ DOMAIN s.cursor = Range(Nets) /\ \A n \in Range(Nets) : s.cursor[n] \subseteq s.cand
  /\ (TryingHosts(s) \/ s.todo = {}) /\ \A h \in s.todo : NetOf[h] \in s.nets
  /\ s.phase \in {"local", "rtt", "order"} /\ s.searches \in Nat
  /\ \/ s.pc \in {"idle", "cached", "rtt", "order", "select", "drain"}
     \/ TryingHosts(s) \/ Cursing(s) \/ Passing(s)
  /\ s.pc \in {"cached", "order"} \/ TryingHosts(s) => s.phase # "rtt"
  /\ s.pc = "idle" => s.cand = {}
  /\ s.pc = "rtt" => s.phase = "local"
  /\ s.pc = "order" => s.phase = "order"
  /\ Cursing(s) \/ Passing(s) => s.phase = "rtt"
  /\ Cursing(s) => s.pass # {} /\ s.cursor[First(Nets, s.pass)] # {}
  /\ s.pc # "idle" => /\ s.phase # "order" => s.nets = {LocalNet}
                      /\ s.phase = "order" => s.nets \cap s.left = {} /\ LocalNet \notin s.left

\* Nothing is in progress where nothing may be.
Quiet(s, o) == s.pc \in {"idle", "cached", "rtt", "order", "select"} => Underway(o) = {}

\* A request is made once for a host, and not of one that is counted, and records the
\* host in a search of networks only.
UnderwayOk(s, H, o) ==
  \A h \in Underway(o) : /\ h \in s.cand /\ H[h].just /\ ~H[h].available
                         /\ o[h].record <=> s.phase # "rtt"
                         /\ o[h].record => NetOf[h] \in s.nets

\* Where the hosts that are counted are.
AvOk(s, H) ==
  /\ s.pc = "idle" => s.available = 0 /\ s.usable = 0 /\ s.idle = 0 /\ s.semi = 0
  /\ s.pc # "idle" => CountedAs(s, H)
  /\ s.pc # "idle" =>
       \A h \in Av(H) : /\ h \in s.cand /\ (H[h].just \/ (H[h].tried /\ H[h].fresh))
                        /\ s.write => H[h].statfs
                        /\ IF s.phase = "order" THEN NetOf[h] \notin s.left ELSE NetOf[h] = LocalNet
                        /\ s.pc = "cached" => NetOf[h] \notin s.nets

ChosenOk(s, H) ==
  s.pc = "idle" => /\ s.chosen \in Seq(Hosts)
                   /\ s.write => \A i \in 1..Len(s.chosen) : H[s.chosen[i]].disk >= MinDisk

SearchOk(s, H, N, o) ==
  HostsOk(H) /\ NetsOk(N, o) /\ StateOk(s) /\ Quiet(s, o) /\ UnderwayOk(s, H, o) /\ AvOk(s, H) /\ ChosenOk(s, H)

SearchInv == SearchOk(si, host, net, out)

\* Only hosts of the list are up.
PlanOk == plan \in Seq(SUBSET Hosts)

(***************************************************************************)
(* Requests are made and answered                                          *)
(***************************************************************************)
LEMMA UnderwayFinite ==
  ASSUME NEW o, NEW n
  PROVE  IsFiniteSet(UnderwayIn(o, n)) /\ Cardinality(UnderwayIn(o, n)) \in Nat
<1>1. UnderwayIn(o, n) \subseteq Hosts
  BY DEF UnderwayIn
<1> QED
  BY <1>1, HostsFinite, FS_Subset, FS_CardinalityType

\* One request more or less on the network of h, and that of h itself.
OneMore(N, h) == [N EXCEPT ![NetOf[h]].ongoing = @ + 1]
OneLess(N, h) == [N EXCEPT ![NetOf[h]].ongoing = @ - 1]
Asked(o, h, r) == [o EXCEPT ![h] = [request |-> "load", record |-> r]]
NotAsked(o, h) == [o EXCEPT ![h] = NoRequest]
AskedNext(o, h, r) == [o EXCEPT ![h].request = r]

LEMMA WithoutOne ==
  ASSUME NEW S, IsFiniteSet(S), NEW x \in S
  PROVE  Cardinality(S \ {x}) = Cardinality(S) - 1
BY FS_RemoveElement

LEMMA RequestSent ==
  ASSUME NEW N, NEW o, NetsOk(N, o), NEW h \in Hosts, h \notin Underway(o), NEW r \in BOOLEAN,
         NEW M, M = OneMore(N, h),
         NEW p, p = Asked(o, h, r)
  PROVE  /\ NetsOk(M, p) /\ Underway(p) = Underway(o) \cup {h}
         /\ p[h].record <=> r
         /\ \A g \in Underway(o) : p[g] = o[g]
<1>1. NetOf[h] \in Range(Nets)
  BY SearchAssumption
<1>2. /\ DOMAIN p = Hosts /\ p[h] = [request |-> "load", record |-> r]
      /\ \A g \in Hosts : g # h => p[g] = o[g]
  BY DEF NetsOk, Asked
<1>3. p[h].request = "load" /\ (p[h].record <=> r) /\ DOMAIN p[h] = {"request", "record"}
  BY <1>2
<1>4. /\ DOMAIN M = Range(Nets)
      /\ \A n \in Range(Nets) : /\ DOMAIN M[n] = {"rtt", "ongoing"}
                                /\ M[n].ongoing = IF n = NetOf[h] THEN N[n].ongoing + 1 ELSE N[n].ongoing
  BY <1>1 DEF NetsOk, OneMore
<1>5. Underway(p) = Underway(o) \cup {h}
  BY <1>2, <1>3 DEF Underway
<1>6. \A n : UnderwayIn(p, n) = IF n = NetOf[h] THEN UnderwayIn(o, n) \cup {h} ELSE UnderwayIn(o, n)
  BY <1>2, <1>3 DEF UnderwayIn
<1>7. \A n \in Range(Nets) : M[n].ongoing = Cardinality(UnderwayIn(p, n))
  <2>1. TAKE n \in Range(Nets)
  <2>2. N[n].ongoing = Cardinality(UnderwayIn(o, n))
    BY DEF NetsOk
  <2>3. CASE n = NetOf[h]
    <3>1. h \notin UnderwayIn(o, n)
      BY DEF Underway, UnderwayIn
    <3>2. Cardinality(UnderwayIn(o, n) \cup {h}) = Cardinality(UnderwayIn(o, n)) + 1
      BY <3>1, UnderwayFinite, FS_AddElement
    <3> QED
      BY <1>4, <1>6, <2>2, <2>3, <3>2
  <2>4. CASE n # NetOf[h]
    BY <1>4, <1>6, <2>2, <2>4
  <2> QED
    BY <2>3, <2>4
<1>8. \A g \in Underway(o) : g # h /\ g \in Hosts
  BY DEF Underway
<1>9. \A g \in Hosts : DOMAIN p[g] = {"request", "record"}
  BY <1>2, <1>3 DEF NetsOk
<1> QED
  BY <1>2, <1>3, <1>4, <1>5, <1>7, <1>8, <1>9 DEF NetsOk

\* Of the networks, only their round trip times may differ.
SameRequests(K, N) ==
  /\ DOMAIN K = Range(Nets)
  /\ \A n \in Range(Nets) : DOMAIN K[n] = {"rtt", "ongoing"} /\ K[n].ongoing = N[n].ongoing

\* The request of h is over, whatever else is learnt of its network.
LEMMA RequestOver ==
  ASSUME NEW N, NEW o, NetsOk(N, o), NEW h \in Underway(o),
         NEW K, SameRequests(K, N),
         NEW M, M = OneLess(K, h),
         NEW p, p = NotAsked(o, h)
  PROVE  /\ NetsOk(M, p) /\ Underway(p) = Underway(o) \ {h}
         /\ \A g \in Underway(p) : p[g] = o[g]
<1>0. h \in Hosts
  BY DEF Underway
<1>1. NetOf[h] \in Range(Nets)
  BY <1>0, SearchAssumption
<1>2. /\ DOMAIN p = Hosts /\ p[h] = [request |-> "none", record |-> FALSE]
      /\ \A g \in Hosts : g # h => p[g] = o[g]
  BY <1>0 DEF NetsOk, NoRequest, NotAsked
<1>3. p[h].request = "none" /\ DOMAIN p[h] = {"request", "record"}
  BY <1>2
<1>4. /\ DOMAIN M = Range(Nets)
      /\ \A n \in Range(Nets) : /\ DOMAIN M[n] = {"rtt", "ongoing"}
                                /\ M[n].ongoing = IF n = NetOf[h] THEN N[n].ongoing - 1 ELSE N[n].ongoing
  BY <1>1 DEF SameRequests, OneLess
<1>5. Underway(p) = Underway(o) \ {h}
  BY <1>2, <1>3 DEF Underway
<1>6. \A n : UnderwayIn(p, n) = IF n = NetOf[h] THEN UnderwayIn(o, n) \ {h} ELSE UnderwayIn(o, n)
  BY <1>2, <1>3 DEF UnderwayIn
<1>7. \A n \in Range(Nets) : M[n].ongoing = Cardinality(UnderwayIn(p, n))
  <2>1. TAKE n \in Range(Nets)
  <2>2. N[n].ongoing = Cardinality(UnderwayIn(o, n))
    BY DEF NetsOk
  <2>3. CASE n = NetOf[h]
    <3>1. h \in UnderwayIn(o, n)
      BY <2>3 DEF Underway, UnderwayIn
    <3>2. IsFiniteSet(UnderwayIn(o, n))
      BY UnderwayFinite
    <3>3. Cardinality(UnderwayIn(o, n) \ {h}) = Cardinality(UnderwayIn(o, n)) - 1
      BY <3>1, <3>2, WithoutOne
    <3> QED
      BY <1>4, <1>6, <2>2, <2>3, <3>3
  <2>4. CASE n # NetOf[h]
    BY <1>4, <1>6, <2>2, <2>4
  <2> QED
    BY <2>3, <2>4
<1>8. \A g \in Underway(p) : g # h /\ g \in Hosts
  BY <1>5 DEF Underway
<1>9. \A g \in Hosts : DOMAIN p[g] = {"request", "record"}
  BY <1>2, <1>3 DEF NetsOk
<1> QED
  BY <1>2, <1>4, <1>5, <1>7, <1>8, <1>9 DEF NetsOk

LEMMA RequestContinues ==
  ASSUME NEW N, NEW o, NetsOk(N, o), NEW h \in Underway(o),
         NEW K, SameRequests(K, N),
         NEW r, r # "none",
         NEW p, p = AskedNext(o, h, r)
  PROVE  /\ NetsOk(K, p) /\ Underway(p) = Underway(o)
         /\ \A g \in Underway(p) : p[g].record = o[g].record
<1>0. h \in Hosts
  BY DEF Underway
<1>2. /\ DOMAIN p = Hosts /\ p[h] = [o[h] EXCEPT !.request = r]
      /\ \A g \in Hosts : g # h => p[g] = o[g]
  BY <1>0 DEF NetsOk, AskedNext
<1>3. p[h].request = r /\ p[h].record = o[h].record /\ DOMAIN p[h] = {"request", "record"}
  BY <1>0, <1>2 DEF NetsOk
<1>5. Underway(p) = Underway(o)
  BY <1>2, <1>3 DEF Underway
<1>6. \A n : UnderwayIn(p, n) = UnderwayIn(o, n)
  BY <1>2, <1>3 DEF UnderwayIn, Underway
<1>7. \A g \in Hosts : DOMAIN p[g] = {"request", "record"} /\ p[g].record = o[g].record
  BY <1>2, <1>3 DEF NetsOk
<1>8. Underway(p) \subseteq Hosts
  BY DEF Underway
<1> QED
  BY <1>2, <1>5, <1>6, <1>7, <1>8 DEF NetsOk, SameRequests

(***************************************************************************)
(* An answer arrives                                                       *)
(***************************************************************************)
\* The turn has called a callback, and the search is where it was.
SameSearch(s, t) ==
  /\ DOMAIN t = DOMAIN s /\ t.ret = s.ret /\ t.phase = s.phase /\ t.mode = s.mode /\ t.write = s.write
  /\ t.cand = s.cand /\ t.nets = s.nets /\ t.left = s.left /\ t.todo = s.todo /\ t.pass = s.pass
  /\ t.cursor = s.cursor /\ t.chosen = s.chosen /\ t.searches = s.searches
  /\ t.pc = IF s.pc = "turn" THEN "turned" ELSE s.pc

LEMMA SameState ==
  ASSUME NEW s, StateOk(s), s.pc \in {"turn", "turned", "drain"}, NEW t, SameSearch(s, t)
  PROVE  StateOk(t) /\ t.pc \in {"turned", "drain"}
<1>1. /\ DOMAIN t = SearchFields /\ t.ret = s.ret /\ t.phase = s.phase
      /\ t.cand = s.cand /\ t.nets = s.nets /\ t.left = s.left /\ t.todo = s.todo /\ t.pass = s.pass
      /\ t.cursor = s.cursor /\ t.searches = s.searches /\ t.pc \in {"turned", "drain"}
      /\ t.pc = "drain" <=> s.pc = "drain"
  BY DEF SameSearch, StateOk
<1>2. (TryingHosts(t) <=> TryingHosts(s)) /\ (Cursing(t) <=> Cursing(s)) /\ (Passing(t) <=> Passing(s))
  BY <1>1 DEF TryingHosts, Cursing, Passing
<1> QED
  BY <1>1, <1>2 DEF StateOk

LEMMA Answered ==
  ASSUME NEW s, NEW H, NEW N, NEW o, SearchOk(s, H, N, o), s.pc \in {"turn", "turned", "drain"},
         NEW h \in Underway(o), NEW G, HostsOk(G), \A g \in Hosts : g # h => G[g] = H[g],
         G[h].just, G[h].available => o[h].record /\ (s.write => G[h].statfs),
         NEW M, NEW p, NetsOk(M, p), Underway(p) \subseteq Underway(o),
         \A g \in Underway(p) : p[g].record <=> o[g].record,
         G[h].available => h \notin Underway(p),
         NEW t, SameSearch(s, t), CountedAs(t, G)
  PROVE  SearchOk(t, G, M, p)
<1>1. StateOk(t) /\ t.pc \in {"turned", "drain"}
  BY SameState DEF SearchOk
<1>2. /\ t.phase = s.phase /\ t.write = s.write /\ t.cand = s.cand /\ t.nets = s.nets /\ t.left = s.left
  BY DEF SameSearch
<1>3. h \in Hosts /\ Underway(o) \subseteq Hosts
  BY DEF Underway
<1>4. /\ h \in s.cand
      /\ o[h].record => s.phase # "rtt" /\ NetOf[h] \in s.nets
  BY DEF SearchOk, UnderwayOk
<1>5. UnderwayOk(t, G, p)
  <2>1. ASSUME NEW g \in Underway(p)
        PROVE  /\ g \in t.cand /\ G[g].just /\ ~G[g].available
               /\ p[g].record <=> t.phase # "rtt"
               /\ p[g].record => NetOf[g] \in t.nets
    <3>1. g \in Underway(o) /\ g \in Hosts
      BY <1>3
    <3>2. /\ g \in s.cand /\ H[g].just /\ ~H[g].available
          /\ o[g].record <=> s.phase # "rtt"
          /\ o[g].record => NetOf[g] \in s.nets
      BY <3>1 DEF SearchOk, UnderwayOk
    <3>3. G[g].just /\ ~G[g].available
      BY <3>1, <3>2
    <3> QED
      BY <1>2, <3>2, <3>3
  <2> QED
    BY <2>1 DEF UnderwayOk
<1>6. AvOk(t, G)
  <2>1. s.pc # "idle"
    OBVIOUS
  <2>2. ASSUME NEW g \in Av(G)
        PROVE  /\ g \in t.cand /\ (G[g].just \/ (G[g].tried /\ G[g].fresh))
               /\ t.write => G[g].statfs
               /\ IF t.phase = "order" THEN NetOf[g] \notin t.left ELSE NetOf[g] = LocalNet
    <3>1. CASE g = h
      <4>1. o[h].record /\ (s.write => G[h].statfs)
        BY <2>2, <3>1 DEF Av
      <4>2. /\ s.phase # "order" => s.nets = {LocalNet}
            /\ s.phase = "order" => s.nets \cap s.left = {}
        BY <2>1 DEF SearchOk, StateOk
      <4> QED
        BY <1>2, <1>4, <3>1, <4>1, <4>2
    <3>2. CASE g # h
      <4>1. g \in Av(H) /\ G[g] = H[g]
        BY <2>2, <3>2 DEF Av
      <4> QED
        BY <1>2, <2>1, <4>1 DEF SearchOk, AvOk
    <3> QED
      BY <3>1, <3>2
  <2> QED
    BY <1>1, <2>2 DEF AvOk
<1>7. Quiet(t, p) /\ ChosenOk(t, G)
  BY <1>1 DEF Quiet, ChosenOk
<1> QED
  BY <1>1, <1>5, <1>6, <1>7 DEF SearchOk

LEMMA SameCounts ==
  ASSUME NEW s, NEW H, CountedAs(s, H), NEW G, Av(G) = Av(H), \A h \in Av(H) : Alike(G, H, h),
         NEW t, t.write = s.write, t.available = s.available, t.usable = s.usable, t.idle = s.idle, t.semi = s.semi
  PROVE  CountedAs(t, G)
<1>1. PICK w : w = s.write
  OBVIOUS
<1>2. UsableOf(w, G) = UsableOf(w, H)
  BY DEF UsableOf, Alike
<1>3. \A h \in UsableOf(w, H) : HostLoad(G, h) = HostLoad(H, h)
  BY DEF UsableOf, Alike, HostLoad
<1>4. IdleOf(w, G) = IdleOf(w, H) /\ SemiOf(w, G) = SemiOf(w, H)
  BY <1>2, <1>3 DEF IdleOf, SemiOf
<1> QED
  BY <1>1, <1>2, <1>4 DEF CountedAs

\* What a callback may have learnt: of host h, H; of its network, K.
Learnt(h, H, K) ==
  /\ HostsOk(H) /\ \A g \in Hosts : g # h => H[g] = host[g]
  /\ H[h].just /\ ~H[h].available
  /\ SameRequests(K, net)

LEMMA LearntCounts ==
  ASSUME SearchInv, NEW h \in Underway(out), NEW H, NEW K, Learnt(h, H, K)
  PROVE  h \in Hosts /\ h \notin Av(host) /\ Av(H) = Av(host) /\ \A g \in Av(host) : Alike(H, host, g)
<1>1. h \in Hosts /\ ~host[h].available
  BY DEF SearchInv, SearchOk, UnderwayOk, Underway
<1>2. h \notin Av(host) /\ Av(H) = Av(host)
  BY <1>1 DEF Av, Learnt
<1>3. \A g \in Av(host) : H[g] = host[g]
  BY <1>2 DEF Av, Learnt
<1> QED
  BY <1>1, <1>2, <1>3 DEF Alike

LEMMA OverKeeps ==
  ASSUME SearchInv, InTurn, NEW h \in Underway(out), NEW H, NEW K, Learnt(h, H, K),
         NEW c, NEW f, NEW s, s = [si EXCEPT !.concurrency = c, !.faults = f], Over(h, H, K, s)
  PROVE  SearchInv'
<1>1. SearchOk(si, host, net, out) /\ si.pc \in {"turn", "turned", "drain"} /\ si.pc # "idle"
  BY DEF SearchInv, InTurn
<1>2. PICK M, p, t : M = net' /\ p = out' /\ t = si'
  OBVIOUS
<1>3. /\ NetsOk(M, p) /\ Underway(p) = Underway(out) \ {h}
      /\ \A g \in Underway(p) : p[g] = out[g]
  <2>1. M = OneLess(K, h) /\ p = NotAsked(out, h)
    BY <1>2 DEF Over, OneLess, NotAsked
  <2>2. NetsOk(net, out)
    BY <1>1 DEF SearchOk
  <2>3. PICK N, o : N = net /\ o = out
    OBVIOUS
  <2>4. /\ NetsOk(N, o) /\ h \in Underway(o) /\ p = NotAsked(o, h)
        /\ SameRequests(K, N)
    BY <2>1, <2>2, <2>3 DEF Learnt
  <2>6. /\ NetsOk(M, p) /\ Underway(p) = Underway(o) \ {h}
        /\ \A g \in Underway(p) : p[g] = o[g]
    BY <2>1, <2>4, RequestOver
  <2> QED
    BY <2>3, <2>6
<1>4. DOMAIN si = SearchFields
  BY <1>1 DEF SearchOk, StateOk
<1>5. /\ SameSearch(si, t)
      /\ t.available = si.available /\ t.usable = si.usable /\ t.idle = si.idle /\ t.semi = si.semi
  BY <1>2, <1>4 DEF Over, Processed, SameSearch, SearchFields
<1>6. CountedAs(t, H)
  <2>1. CountedAs(si, host) /\ t.write = si.write
    BY <1>1, <1>5 DEF SearchOk, AvOk, SameSearch
  <2> QED
    BY <1>5, <2>1, LearntCounts, SameCounts
<1>7. SearchOk(t, H, M, p)
  BY <1>1, <1>3, <1>5, <1>6, Answered DEF Learnt
<1> QED
  BY <1>2, <1>7 DEF SearchInv, Over

LEMMA CompletedKeeps ==
  ASSUME SearchInv, InTurn, NEW h \in Underway(out), NEW H, NEW K, Learnt(h, H, K),
         si.write => H[h].statfs, Completed(h, H, K)
  PROVE  SearchInv'
<1>1. SearchOk(si, host, net, out) /\ si.pc \in {"turn", "turned", "drain"} /\ si.pc # "idle"
  BY DEF SearchInv, InTurn
<1>2. DOMAIN si = SearchFields
  BY <1>1 DEF SearchOk, StateOk
<1>3. PICK s : s = [si EXCEPT !.concurrency = @ - 1]
  OBVIOUS
<1>4. CASE ~out[h].record
  <2>1. Over(h, H, K, s)
    BY <1>3, <1>4 DEF Completed
  <2>2. s = [si EXCEPT !.concurrency = si.concurrency - 1, !.faults = si.faults]
    BY <1>2, <1>3 DEF SearchFields
  <2> QED
    BY <2>1, <2>2, OverKeeps
<1>5. CASE out[h].record
  <2>1. PICK G, r : G = [H EXCEPT ![h].available = TRUE] /\ r = RecordHosts(s, H, {h})
    OBVIOUS
  <2>2. Over(h, G, K, r)
    BY <1>3, <1>5, <2>1 DEF Completed
  <2>3. PICK M, p, t : M = net' /\ p = out' /\ t = si'
    OBVIOUS
  <2>4. /\ NetsOk(M, p) /\ Underway(p) = Underway(out) \ {h}
        /\ \A g \in Underway(p) : p[g] = out[g]
    <3>1. M = OneLess(K, h) /\ p = NotAsked(out, h)
      BY <2>2, <2>3 DEF Over, OneLess, NotAsked
    <3>2. NetsOk(net, out)
      BY <1>1 DEF SearchOk
    <3>3. PICK N, o : N = net /\ o = out
      OBVIOUS
    <3>4. /\ NetsOk(N, o) /\ h \in Underway(o) /\ p = NotAsked(o, h)
          /\ SameRequests(K, N)
      BY <3>1, <3>2, <3>3 DEF Learnt
    <3>6. /\ NetsOk(M, p) /\ Underway(p) = Underway(o) \ {h}
          /\ \A g \in Underway(p) : p[g] = o[g]
      BY <3>1, <3>4, RequestOver
    <3> QED
      BY <3>3, <3>6
  <2>5. /\ h \in Hosts /\ h \notin Av(host) /\ Av(H) = Av(host) /\ \A g \in Av(host) : Alike(H, host, g)
    BY LearntCounts
  <2>6. /\ HostsOk(H) /\ DOMAIN G = Hosts /\ G[h] = [H[h] EXCEPT !.available = TRUE]
        /\ \A g \in Hosts : g # h => G[g] = H[g]
    BY <2>1, <2>5 DEF Learnt, HostsOk
  <2>7. /\ G[h].available /\ G[h].just /\ (si.write => G[h].statfs) /\ Alike(G, H, h)
        /\ DOMAIN G[h] = HostFields /\ G[h].load \in Nat /\ G[h].disk \in Nat /\ G[h].scheduled \in Nat
    BY <2>5, <2>6 DEF Learnt, HostsOk, HostFields, Alike
  <2>8. HostsOk(G)
    BY <2>6, <2>7 DEF HostsOk
  <2>9. /\ Av(G) = Av(host) \cup {h} /\ \A g \in Av(host) : Alike(G, host, g)
    <3>1. \A g \in Av(host) : g # h /\ g \in Hosts
      BY <2>5 DEF Av
    <3>2. \A g \in Av(host) : G[g] = H[g] /\ H[g] = host[g]
      BY <2>6, <3>1 DEF Learnt
    <3>3. Av(G) = Av(H) \cup {h}
      BY <2>5, <2>6, <2>7 DEF Av
    <3> QED
      BY <2>5, <3>2, <3>3 DEF Alike
  <2>10. /\ DOMAIN s = SearchFields /\ s.write = si.write
         /\ s.available = si.available /\ s.usable = si.usable /\ s.idle = si.idle /\ s.semi = si.semi
    BY <1>2, <1>3 DEF SearchFields
  <2>11. CountedAs(s, host)
    BY <1>1, <2>10 DEF SearchOk, AvOk, CountedAs
  <2>12. CountedAs(r, G)
    <3>1. {"available", "usable", "idle", "semi", "write"} \subseteq DOMAIN s
      BY <2>10 DEF SearchFields
    <3>2. {h} \subseteq Hosts /\ {h} \cap Av(host) = {} /\ \A g \in {h} : Alike(G, H, g)
      BY <2>5, <2>7
    <3> QED
      BY <2>1, <2>9, <2>10, <2>11, <3>1, <3>2, RecordCounts
  <2>13. /\ SameSearch(si, t)
         /\ t.available = r.available /\ t.usable = r.usable /\ t.idle = r.idle /\ t.semi = r.semi
         /\ t.write = r.write
    BY <1>2, <1>3, <2>1, <2>2, <2>3 DEF Over, Processed, SameSearch, SearchFields, RecordHosts
  <2>14. CountedAs(t, G)
    BY <2>12, <2>13 DEF CountedAs
  <2>15. \A g \in Hosts : g # h => G[g] = host[g]
    BY <2>6 DEF Learnt
  <2>16. SearchOk(t, G, M, p)
    BY <1>1, <1>5, <2>4, <2>7, <2>8, <2>13, <2>14, <2>15, Answered
  <2> QED
    BY <2>2, <2>3, <2>16 DEF SearchInv, Over
<1> QED
  BY <1>4, <1>5

LEMMA ContinuesKeeps ==
  ASSUME SearchInv, InTurn, NEW h \in Underway(out), NEW H, NEW K, Learnt(h, H, K),
         NEW r, r # "none", Continues(h, r, H, K)
  PROVE  SearchInv'
<1>1. SearchOk(si, host, net, out) /\ si.pc \in {"turn", "turned", "drain"} /\ si.pc # "idle"
  BY DEF SearchInv, InTurn
<1>2. PICK p, t : p = out' /\ t = si'
  OBVIOUS
<1>3. /\ NetsOk(K, p) /\ Underway(p) = Underway(out)
      /\ \A g \in Underway(p) : p[g].record = out[g].record
  <2>1. p = AskedNext(out, h, r)
    BY <1>2 DEF Continues, AskedNext
  <2>2. NetsOk(net, out)
    BY <1>1 DEF SearchOk
  <2>3. PICK N, o : N = net /\ o = out
    OBVIOUS
  <2>4. /\ NetsOk(N, o) /\ h \in Underway(o) /\ p = AskedNext(o, h, r)
        /\ SameRequests(K, N)
    BY <2>1, <2>2, <2>3 DEF Learnt
  <2>6. /\ NetsOk(K, p) /\ Underway(p) = Underway(o)
        /\ \A g \in Underway(p) : p[g].record = o[g].record
    BY <2>4, RequestContinues
  <2> QED
    BY <2>3, <2>6
<1>4. DOMAIN si = SearchFields
  BY <1>1 DEF SearchOk, StateOk
<1>5. /\ SameSearch(si, t)
      /\ t.available = si.available /\ t.usable = si.usable /\ t.idle = si.idle /\ t.semi = si.semi
  BY <1>2, <1>4 DEF Continues, Processed, SameSearch, SearchFields
<1>6. CountedAs(t, H)
  <2>1. CountedAs(si, host) /\ t.write = si.write
    BY <1>1, <1>5 DEF SearchOk, AvOk, SameSearch
  <2> QED
    BY <1>5, <2>1, LearntCounts, SameCounts
<1>7. SearchOk(t, H, K, p)
  BY <1>1, <1>3, <1>5, <1>6, Answered DEF Learnt
<1> QED
  BY <1>2, <1>7 DEF SearchInv, Continues

LEMMA FailedKeeps ==
  ASSUME SearchInv, InTurn, NEW h \in Underway(out), NEW H, NEW K, Learnt(h, H, K),
         NEW less, Failed(h, H, K, less)
  PROVE  SearchInv'
<1>1. PICK s : s = [si EXCEPT !.concurrency = @ - less, !.faults = @ - 1]
  OBVIOUS
<1>2. DOMAIN si = SearchFields
  BY DEF SearchInv, SearchOk, StateOk
<1>3. s = [si EXCEPT !.concurrency = si.concurrency - less, !.faults = si.faults - 1]
  BY <1>1, <1>2 DEF SearchFields
<1>4. Over(h, H, K, s)
  BY <1>1 DEF Failed
<1> QED
  BY <1>3, <1>4, OverKeeps

\* What the invariant says of a host with a request in progress.
LEMMA UnderwayHost ==
  ASSUME SearchInv, NEW h \in Hosts, out[h].request # "none"
  PROVE  /\ h \in Underway(out) /\ HostsOk(host) /\ host[h].just /\ ~host[h].available
         /\ SameRequests(net, net)
         /\ Learnt(h, host, net)
<1>1. /\ h \in Underway(out) /\ HostsOk(host) /\ host[h].just /\ ~host[h].available
  BY DEF SearchInv, SearchOk, UnderwayOk, Underway
<1>2. SameRequests(net, net)
  BY DEF SearchInv, SearchOk, NetsOk, SameRequests
<1> QED
  BY <1>1, <1>2 DEF Learnt

\* What changes of a host when an answer arrives.
LEMMA HostLearns ==
  ASSUME HostsOk(host), NEW h \in Hosts, host[h].just, ~host[h].available,
         NEW H, DOMAIN H = Hosts, \A g \in Hosts : g # h => H[g] = host[g],
         DOMAIN H[h] = HostFields, H[h].load \in Nat, H[h].disk \in Nat, H[h].scheduled \in Nat,
         H[h].just = host[h].just, H[h].available = host[h].available, H[h].used = host[h].used
  PROVE  HostsOk(H) /\ H[h].just /\ ~H[h].available
BY DEF HostsOk

LEMMA LoadKeeps ==
  ASSUME SearchInv, NEW h \in Hosts, LoadCallback(h)
  PROVE  SearchInv'
<1>1. InTurn /\ out[h].request = "load" /\ out[h].request # "none"
  BY DEF LoadCallback
<1>2. /\ h \in Underway(out) /\ HostsOk(host) /\ host[h].just /\ ~host[h].available
      /\ SameRequests(net, net) /\ Learnt(h, host, net)
  BY <1>1, UnderwayHost
<1>3. CASE Failed(h, host, net, 1)
  BY <1>1, <1>2, <1>3, FailedKeeps
<1>4. ASSUME NEW load \in Loads[h], NEW n, n = NetOf[h],
             NEW H, H = [host EXCEPT ![h].rttavail = TRUE, ![h].load = load, ![h].fresh = TRUE, ![h].scheduled = 0],
             NEW N, N = [net EXCEPT ![n].rtt = IF @ = 0 \/ @ > RttOf[h] THEN RttOf[h] ELSE @],
             \/ ~si.write /\ Completed(h, H, N)
             \/ Continues(h, "connect", H, N)
             \/ Failed(h, H, N, 1)
      PROVE  SearchInv'
  <2>1. load \in Nat /\ n \in Range(Nets)
    BY <1>4, SearchAssumption
  <2>2. /\ DOMAIN H = Hosts /\ \A g \in Hosts : g # h => H[g] = host[g]
        /\ DOMAIN H[h] = HostFields /\ H[h].load = load /\ H[h].disk = host[h].disk /\ H[h].scheduled = 0
        /\ H[h].just = host[h].just /\ H[h].available = host[h].available /\ H[h].used = host[h].used
    BY <1>2, <1>4 DEF HostsOk, HostFields
  <2>3. HostsOk(H) /\ H[h].just /\ ~H[h].available
    <3>1. H[h].load \in Nat /\ H[h].disk \in Nat /\ H[h].scheduled \in Nat
      BY <1>2, <2>1, <2>2 DEF HostsOk
    <3> QED
      BY <1>2, <2>2, <3>1, HostLearns
  <2>4. SameRequests(N, net)
    <3>1. /\ DOMAIN net = Range(Nets)
          /\ \A m \in Range(Nets) : DOMAIN net[m] = {"rtt", "ongoing"}
      BY <1>2 DEF SameRequests
    <3>2. DOMAIN N = Range(Nets) /\ \A m \in Range(Nets) : m # n => N[m] = net[m]
      BY <1>4, <3>1
    <3>3. DOMAIN N[n] = {"rtt", "ongoing"} /\ N[n].ongoing = net[n].ongoing
      BY <1>4, <2>1, <3>1
    <3> QED
      BY <3>1, <3>2, <3>3 DEF SameRequests
  <2>5. Learnt(h, H, N)
    BY <2>2, <2>3, <2>4 DEF Learnt
  <2>6. CASE ~si.write /\ Completed(h, H, N)
    BY <1>1, <1>2, <2>5, <2>6, CompletedKeeps
  <2>7. CASE Continues(h, "connect", H, N)
    BY <1>1, <1>2, <2>5, <2>7, ContinuesKeeps
  <2>8. CASE Failed(h, H, N, 1)
    BY <1>1, <1>2, <2>5, <2>8, FailedKeeps
  <2> QED
    BY <1>4, <2>6, <2>7, <2>8
<1> QED
  BY <1>3, <1>4 DEF LoadCallback

LEMMA ConnectKeeps ==
  ASSUME SearchInv, NEW h \in Hosts, ConnectCallback(h)
  PROVE  SearchInv'
<1>1. InTurn /\ out[h].request = "connect" /\ out[h].request # "none"
  BY DEF ConnectCallback
<1>2. /\ h \in Underway(out) /\ HostsOk(host) /\ host[h].just /\ ~host[h].available
      /\ SameRequests(net, net) /\ Learnt(h, host, net)
  BY <1>1, UnderwayHost
<1>3. PICK H : H = [host EXCEPT ![h].auth = TRUE]
  OBVIOUS
<1>4. /\ DOMAIN H = Hosts /\ \A g \in Hosts : g # h => H[g] = host[g]
      /\ DOMAIN H[h] = HostFields /\ H[h].load = host[h].load /\ H[h].disk = host[h].disk
      /\ H[h].scheduled = host[h].scheduled
      /\ H[h].just = host[h].just /\ H[h].available = host[h].available /\ H[h].used = host[h].used
  BY <1>2, <1>3 DEF HostsOk, HostFields
<1>5. HostsOk(H) /\ H[h].just /\ ~H[h].available
  <2>1. host[h].load \in Nat /\ host[h].disk \in Nat /\ host[h].scheduled \in Nat
    BY <1>2 DEF HostsOk
  <2> QED
    BY <1>2, <1>4, <2>1, HostLearns
<1>6. Learnt(h, H, net)
  BY <1>2, <1>4, <1>5 DEF Learnt
<1>7. CASE Failed(h, host, net, 2)
  BY <1>1, <1>2, <1>7, FailedKeeps
<1>8. CASE Continues(h, "statfs", H, net)
  BY <1>1, <1>2, <1>6, <1>8, ContinuesKeeps
<1>9. CASE Failed(h, H, net, 2)
  BY <1>1, <1>2, <1>6, <1>9, FailedKeeps
<1> QED
  BY <1>3, <1>7, <1>8, <1>9 DEF ConnectCallback

LEMMA StatfsKeeps ==
  ASSUME SearchInv, NEW h \in Hosts, StatfsCallback(h)
  PROVE  SearchInv'
<1>1. InTurn /\ out[h].request = "statfs" /\ out[h].request # "none"
  BY DEF StatfsCallback
<1>2. /\ h \in Underway(out) /\ HostsOk(host) /\ host[h].just /\ ~host[h].available
      /\ SameRequests(net, net) /\ Learnt(h, host, net)
  BY <1>1, UnderwayHost
<1>3. CASE Failed(h, host, net, 1)
  BY <1>1, <1>2, <1>3, FailedKeeps
<1>4. ASSUME NEW disk \in Disks,
             NEW H, H = [host EXCEPT ![h].statfs = TRUE, ![h].diskfresh = TRUE, ![h].disk = disk],
             Completed(h, H, net)
      PROVE  SearchInv'
  <2>1. disk \in Nat
    BY SearchAssumption
  <2>2. /\ DOMAIN H = Hosts /\ \A g \in Hosts : g # h => H[g] = host[g]
        /\ DOMAIN H[h] = HostFields /\ H[h].load = host[h].load /\ H[h].disk = disk
        /\ H[h].scheduled = host[h].scheduled /\ H[h].statfs
        /\ H[h].just = host[h].just /\ H[h].available = host[h].available /\ H[h].used = host[h].used
    BY <1>2, <1>4 DEF HostsOk, HostFields
  <2>3. HostsOk(H) /\ H[h].just /\ ~H[h].available
    <3>1. host[h].load \in Nat /\ host[h].scheduled \in Nat
      BY <1>2 DEF HostsOk
    <3> QED
      BY <1>2, <2>1, <2>2, <3>1, HostLearns
  <2>4. Learnt(h, H, net)
    BY <1>2, <2>2, <2>3 DEF Learnt
  <2> QED
    BY <1>1, <1>2, <1>4, <2>2, <2>4, CompletedKeeps
<1> QED
  BY <1>3, <1>4 DEF StatfsCallback

(***************************************************************************)
(* A search begins, and goes round the networks                            *)
(***************************************************************************)
LEMMA SelectKeeps ==
  ASSUME SearchInv, NEW up \in SUBSET Hosts, NEW old, NEW info \in Infos, NEW write \in BOOLEAN,
         gfarm_schedule_select_host(up, old, info, write)
  PROVE  SearchInv'
<1>1. HostsOk(host) /\ NetsOk(net, out) /\ StateOk(si) /\ Underway(out) = {} /\ si.searches \in Nat
  BY DEF SearchInv, SearchOk, Quiet, StateOk, gfarm_schedule_select_host
<1>2. PICK H, N, t : H = host' /\ N = net' /\ t = si'
  OBVIOUS
<1>3. PICK r : r = [h \in Hosts |-> [host[h] EXCEPT !.just = FALSE, !.available = FALSE, !.used = FALSE,
                                                    !.fresh = @ /\ h \notin old,
                                                    !.diskfresh = @ /\ h \notin old]]
  OBVIOUS
<1>4. \A h \in Hosts : /\ DOMAIN r[h] = HostFields /\ ~r[h].available /\ ~r[h].used
                       /\ r[h].load \in Nat /\ r[h].disk \in Nat /\ r[h].scheduled \in Nat
  BY <1>1, <1>3 DEF HostsOk, HostFields
<1>5. DOMAIN H = Hosts /\ \A h \in Hosts : H[h] = IF h \in up THEN Informed(r[h], info[h]) ELSE r[h]
  BY <1>2, <1>3 DEF gfarm_schedule_select_host
<1>6. ASSUME NEW h \in Hosts
      PROVE  /\ DOMAIN H[h] = HostFields /\ ~H[h].available /\ ~H[h].used
             /\ H[h].load \in Nat /\ H[h].disk \in Nat /\ H[h].scheduled \in Nat
  <2>1. CASE H[h] = r[h]
    BY <1>4, <2>1
  <2> DEFINE known == info[h]
  <2>2. CASE known # <<>> /\ H[h] = Informed(r[h], known)
    <3>1. known[1] \in Nat /\ known[2] \in Nat
      BY <2>2, SearchAssumption
    <3>2. /\ DOMAIN H[h] = HostFields /\ H[h].available = r[h].available /\ H[h].used = r[h].used
          /\ H[h].disk = known[2] /\ H[h].scheduled = r[h].scheduled
          /\ H[h].load = IF r[h].rttavail /\ r[h].fresh THEN r[h].load ELSE known[1]
      BY <1>4, <2>2 DEF Informed, HostFields
    <3> QED
      BY <1>4, <3>1, <3>2
  <2> QED
    BY <1>5, <2>1, <2>2 DEF Informed
<1>7. HostsOk(H) /\ Av(H) = {}
  BY <1>5, <1>6 DEF HostsOk, Av
<1>8. NetsOk(N, out)
  <2>1. /\ DOMAIN N = Range(Nets)
        /\ \A n \in Range(Nets) : DOMAIN N[n] = {"rtt", "ongoing"} /\ N[n].ongoing = 0
    <3>1. /\ DOMAIN N = Range(Nets)
          /\ \A n \in Range(Nets) : N[n] = [net[n] EXCEPT !.ongoing = 0]
      BY <1>2 DEF gfarm_schedule_select_host
    <3>2. \A n \in Range(Nets) : DOMAIN net[n] = {"rtt", "ongoing"}
      BY <1>1 DEF NetsOk
    <3> QED
      BY <3>1, <3>2
  <2>2. \A n : UnderwayIn(out, n) = {}
    BY <1>1 DEF UnderwayIn, Underway
  <2>3. \A n : Cardinality(UnderwayIn(out, n)) = 0
    BY <2>2, FS_EmptySet
  <2> QED
    BY <1>1, <2>1, <2>3 DEF NetsOk
<1>9. /\ DOMAIN t = SearchFields /\ t.pc = "cached" /\ t.phase = "local" /\ t.cand = up
      /\ t.nets = {LocalNet} /\ t.searches = si.searches + 1
      /\ t.todo = si.todo /\ t.left = si.left /\ t.pass = si.pass /\ t.cursor = si.cursor
      /\ t.available = si.available /\ t.usable = si.usable /\ t.idle = si.idle /\ t.semi = si.semi
      /\ si.pc = "idle"
  BY <1>1, <1>2 DEF gfarm_schedule_select_host, StateOk, SearchFields
<1>10. StateOk(t)
  <2>1. up \subseteq Hosts
    OBVIOUS
  <2>2. /\ si.todo = {} /\ \A n \in Range(Nets) : si.cursor[n] = {}
        /\ DOMAIN si.cursor = Range(Nets) /\ si.left \subseteq Range(Nets) /\ si.pass \subseteq Range(Nets)
    BY <1>1, <1>9 DEF StateOk
  <2>3. LocalNet \in Range(Nets)
    BY SearchAssumption
  <2> QED
    BY <1>1, <1>9, <2>1, <2>2, <2>3 DEF StateOk, TryingHosts, Cursing, Passing
<1>11. AvOk(t, H)
  <2>1. CountedAs(t, H)
    <3>1. /\ Cardinality(Av(H)) = 0 /\ Cardinality(UsableOf(t.write, H)) = 0
          /\ Cardinality(IdleOf(t.write, H)) = 0 /\ Cardinality(SemiOf(t.write, H)) = 0
      BY <1>7, CountedFinite, FS_EmptySet
    <3>2. si.available = 0 /\ si.usable = 0 /\ si.idle = 0 /\ si.semi = 0
      BY <1>9 DEF SearchInv, SearchOk, AvOk
    <3> QED
      BY <1>9, <3>1, <3>2 DEF CountedAs
  <2> QED
    BY <1>7, <1>9, <2>1 DEF AvOk
<1>12. Quiet(t, out) /\ UnderwayOk(t, H, out) /\ ChosenOk(t, H)
  BY <1>1, <1>9 DEF Quiet, UnderwayOk, ChosenOk
<1>13. out' = out
  BY DEF gfarm_schedule_select_host
<1> QED
  BY <1>2, <1>7, <1>8, <1>10, <1>11, <1>12, <1>13 DEF SearchInv, SearchOk

LEMMA ResetKeeps ==
  ASSUME SearchInv, NEW hs, gfarm_schedule_host_cache_reset(hs)
  PROVE  SearchInv'
<1>1. HostsOk(host) /\ si.pc = "idle" /\ net' = net /\ out' = out /\ si' = si
  BY DEF SearchInv, SearchOk, gfarm_schedule_host_cache_reset
<1>2. PICK H : H = host'
  OBVIOUS
<1>3. DOMAIN H = Hosts /\ \A h \in Hosts : H[h] = IF h \in hs THEN [host[h] EXCEPT !.tried = FALSE, !.just = FALSE,
                                                                     !.available = FALSE, !.used = FALSE]
                                           ELSE host[h]
  BY <1>2 DEF gfarm_schedule_host_cache_reset
<1>4. \A h \in Hosts : /\ DOMAIN H[h] = HostFields /\ (H[h].used => H[h].available)
                       /\ H[h].load = host[h].load /\ H[h].disk = host[h].disk /\ H[h].scheduled = host[h].scheduled
  <2>1. TAKE h \in Hosts
  <2>2. DOMAIN host[h] = HostFields /\ (host[h].used => host[h].available)
    BY <1>1 DEF HostsOk
  <2>3. CASE h \in hs
    <3>1. H[h] = [host[h] EXCEPT !.tried = FALSE, !.just = FALSE, !.available = FALSE, !.used = FALSE]
      BY <1>3, <2>3
    <3> QED
      BY <2>2, <3>1 DEF HostFields
  <2>4. CASE h \notin hs
    BY <1>3, <2>2, <2>4
  <2> QED
    BY <2>3, <2>4
<1>5. HostsOk(H)
  BY <1>1, <1>3, <1>4 DEF HostsOk
<1>6. AvOk(si, H)
  BY <1>1 DEF SearchInv, SearchOk, AvOk
<1>7. ChosenOk(si, H)
  <2>1. ChosenOk(si, host)
    BY DEF SearchInv, SearchOk
  <2>2. \A i \in 1..Len(si.chosen) : si.chosen[i] \in Hosts
    BY <1>1, <2>1 DEF ChosenOk
  <2> QED
    BY <1>1, <1>4, <2>1, <2>2 DEF ChosenOk
<1>8. UnderwayOk(si, H, out)
  BY <1>1 DEF SearchInv, SearchOk, Quiet, UnderwayOk
<1> QED
  BY <1>1, <1>2, <1>5, <1>6, <1>7, <1>8 DEF SearchInv, SearchOk

LEMMA SeeKeeps ==
  ASSUME SearchInv, SeeCached
  PROVE  SearchInv'
<1>1. HostsOk(host) /\ NetsOk(net, out) /\ StateOk(si) /\ Underway(out) = {} /\ AvOk(si, host) /\ si.pc = "cached"
  BY DEF SearchInv, SearchOk, Quiet, SeeCached
<1>2. PICK H, t, hs, s : /\ H = host' /\ t = si' /\ hs = {h \in InNets(si.nets) : CacheIsAvailable(h)}
                         /\ s = RecordHosts(si, host, hs)
  OBVIOUS
<1>3. /\ DOMAIN H = Hosts
      /\ \A h \in Hosts : H[h] = IF h \in hs THEN [host[h] EXCEPT !.available = TRUE, !.used = TRUE] ELSE host[h]
      /\ t = IF Satisfied(s) THEN Leave(s) ELSE [s EXCEPT !.pc = "try", !.todo = InNets(si.nets)]
      /\ net' = net /\ out' = out
  BY <1>2 DEF SeeCached
<1>4. /\ hs \subseteq si.cand /\ si.cand \subseteq Hosts /\ hs \subseteq Hosts
      /\ \A h \in hs : NetOf[h] \in si.nets /\ CacheIsAvailable(h)
  BY <1>1, <1>2 DEF InNets, StateOk
<1>5. \A h \in Hosts : /\ DOMAIN H[h] = HostFields /\ Alike(H, host, h) /\ (H[h].used => H[h].available)
                       /\ H[h].available <=> h \in hs \/ host[h].available
                       /\ H[h].just = host[h].just /\ H[h].tried = host[h].tried /\ H[h].fresh = host[h].fresh
  <2>1. TAKE h \in Hosts
  <2>2. DOMAIN host[h] = HostFields /\ (host[h].used => host[h].available)
    BY <1>1 DEF HostsOk
  <2>3. CASE h \in hs
    <3>1. H[h] = [host[h] EXCEPT !.available = TRUE, !.used = TRUE]
      BY <1>3, <2>3
    <3> QED
      BY <2>2, <2>3, <3>1 DEF HostFields, Alike
  <2>4. CASE h \notin hs
    <3>1. H[h] = host[h]
      BY <1>3, <2>4
    <3> QED
      BY <2>2, <2>4, <3>1 DEF Alike
  <2> QED
    BY <2>3, <2>4
<1>6. HostsOk(H)
  BY <1>1, <1>3, <1>5 DEF HostsOk, Alike
<1>7. hs \cap Av(host) = {} /\ Av(H) = Av(host) \cup hs
  <2>1. \A h \in Av(host) : NetOf[h] \notin si.nets
    BY <1>1 DEF AvOk
  <2> QED
    BY <1>4, <1>5, <2>1 DEF Av
<1>8. DOMAIN si = SearchFields /\ CountedAs(si, host)
  BY <1>1 DEF StateOk, AvOk
<1>9. CountedAs(s, H)
  <2>1. {"available", "usable", "idle", "semi", "write"} \subseteq DOMAIN si
    BY <1>8 DEF SearchFields
  <2>2. /\ \A h \in Av(host) : Alike(H, host, h)
        /\ \A h \in hs : Alike(H, host, h)
    BY <1>4, <1>5 DEF Av
  <2> QED
    BY <1>2, <1>4, <1>7, <1>8, <2>1, <2>2, RecordCounts
<1>10. /\ DOMAIN s = SearchFields /\ s.pc = "cached" /\ s.ret = si.ret /\ s.phase = si.phase /\ s.write = si.write
       /\ s.cand = si.cand /\ s.nets = si.nets /\ s.left = si.left /\ s.todo = si.todo /\ s.pass = si.pass
       /\ s.cursor = si.cursor /\ s.searches = si.searches
  BY <1>1, <1>2, <1>8 DEF RecordHosts, SearchFields
<1>11. /\ DOMAIN t = SearchFields /\ t.phase = si.phase /\ t.write = si.write
       /\ t.cand = si.cand /\ t.nets = si.nets /\ t.left = si.left /\ t.pass = si.pass
       /\ t.cursor = si.cursor /\ t.searches = si.searches
       /\ t.available = s.available /\ t.usable = s.usable /\ t.idle = s.idle /\ t.semi = s.semi
       /\ \/ t.pc = "select" /\ t.todo = si.todo
          \/ t.pc = "try" /\ t.todo = InNets(si.nets)
          \/ t.pc = "rtt" /\ si.phase = "local" /\ t.todo = si.todo
          \/ t.pc = "order" /\ si.phase = "order" /\ t.todo = si.todo
  <2>1. si.phase \in {"local", "order"}
    BY <1>1 DEF StateOk
  <2> QED
    BY <1>3, <1>10, <2>1 DEF Leave, SearchFields
<1>12. StateOk(t)
  <2>1. InNets(si.nets) \subseteq si.cand /\ \A h \in InNets(si.nets) : NetOf[h] \in si.nets
    BY DEF InNets
  <2>2. si.phase # "rtt" /\ si.pc # "idle"
    BY <1>1 DEF StateOk
  <2> QED
    BY <1>1, <1>11, <2>1, <2>2 DEF StateOk, TryingHosts, Cursing, Passing
<1>13. CountedAs(t, H)
  BY <1>9, <1>10, <1>11 DEF CountedAs
<1>14. AvOk(t, H)
  <2>1. si.phase \in {"local", "order"} /\ si.pc # "idle"
    BY <1>1 DEF StateOk
  <2>2. /\ si.phase # "order" => si.nets = {LocalNet}
        /\ si.phase = "order" => si.nets \cap si.left = {}
    BY <1>1 DEF StateOk
  <2>3. ASSUME NEW h \in Av(H)
        PROVE  /\ h \in si.cand /\ (H[h].just \/ (H[h].tried /\ H[h].fresh))
               /\ si.write => H[h].statfs
               /\ IF si.phase = "order" THEN NetOf[h] \notin si.left ELSE NetOf[h] = LocalNet
    <3>1. CASE h \in hs
      <4>1. host[h].tried /\ host[h].fresh /\ (si.write => host[h].statfs)
        BY <1>4, <3>1 DEF CacheIsAvailable
      <4> QED
        BY <1>4, <1>5, <2>2, <3>1, <4>1 DEF Alike
    <3>2. CASE h \in Av(host)
      <4>1. /\ h \in si.cand /\ (host[h].just \/ (host[h].tried /\ host[h].fresh))
            /\ si.write => host[h].statfs
            /\ IF si.phase = "order" THEN NetOf[h] \notin si.left ELSE NetOf[h] = LocalNet
        BY <1>1, <2>1, <3>2 DEF AvOk
      <4>2. h \in Hosts
        BY <3>2 DEF Av
      <4> QED
        BY <1>5, <4>1, <4>2 DEF Alike
    <3> QED
      BY <1>7, <3>1, <3>2
  <2>4. t.pc # "cached" /\ t.pc # "idle"
    BY <1>11
  <2> QED
    BY <1>11, <1>13, <2>3, <2>4 DEF AvOk
<1>15. Quiet(t, out) /\ UnderwayOk(t, H, out) /\ ChosenOk(t, H)
  BY <1>1, <1>11 DEF Quiet, UnderwayOk, ChosenOk
<1> QED
  BY <1>1, <1>2, <1>3, <1>6, <1>12, <1>14, <1>15 DEF SearchInv, SearchOk

\* The search goes on within its phase, and what it has counted is the same.
Advances(s, t) ==
  /\ t.phase = s.phase /\ t.write = s.write /\ t.cand = s.cand /\ t.nets = s.nets /\ t.left = s.left
  /\ t.available = s.available /\ t.usable = s.usable /\ t.idle = s.idle /\ t.semi = s.semi
  /\ t.pc \notin {"idle", "cached", "rtt", "order", "select"}

LEMMA AdvanceKeeps ==
  ASSUME NEW s, NEW H, NEW N, NEW o, SearchOk(s, H, N, o), s.pc # "idle",
         NEW t, StateOk(t), Advances(s, t),
         NEW G, HostsOk(G), Av(G) = Av(H), \A g \in Av(H) : G[g] = H[g],
         NEW M, NEW p, NetsOk(M, p), UnderwayOk(s, G, p)
  PROVE  SearchOk(t, G, M, p)
<1>1. CountedAs(s, H)
  BY DEF SearchOk, AvOk
<1>2. \A g \in Av(H) : Alike(G, H, g)
  BY DEF Alike
<1>3. CountedAs(t, G)
  <2>1. /\ t.write = s.write
        /\ t.available = s.available /\ t.usable = s.usable /\ t.idle = s.idle /\ t.semi = s.semi
    BY DEF Advances
  <2> QED
    BY <1>1, <1>2, <2>1, SameCounts
<1>4. AvOk(t, G)
  <2>1. ASSUME NEW h \in Av(G)
        PROVE  /\ h \in t.cand /\ (G[h].just \/ (G[h].tried /\ G[h].fresh))
               /\ t.write => G[h].statfs
               /\ IF t.phase = "order" THEN NetOf[h] \notin t.left ELSE NetOf[h] = LocalNet
    <3>1. /\ h \in Av(H) /\ G[h] = H[h]
      BY <2>1
    <3>2. /\ h \in s.cand /\ (H[h].just \/ (H[h].tried /\ H[h].fresh))
          /\ s.write => H[h].statfs
          /\ IF s.phase = "order" THEN NetOf[h] \notin s.left ELSE NetOf[h] = LocalNet
      BY <3>1 DEF SearchOk, AvOk
    <3> QED
      BY <3>1, <3>2 DEF Advances
  <2> QED
    BY <1>3, <2>1 DEF AvOk, Advances
<1>5. UnderwayOk(t, G, p) /\ Quiet(t, p) /\ ChosenOk(t, G)
  BY DEF UnderwayOk, Advances, Quiet, ChosenOk
<1> QED
  BY <1>4, <1>5 DEF SearchOk

\* Nothing but the search moves.
LEMMA MoveKeeps ==
  ASSUME SearchInv, si.pc # "idle", UNCHANGED <<host, net, out>>,
         NEW t, t = si', StateOk(t), Advances(si, t)
  PROVE  SearchInv'
<1>1. SearchOk(si, host, net, out) /\ HostsOk(host) /\ NetsOk(net, out) /\ UnderwayOk(si, host, out)
  BY DEF SearchInv, SearchOk
<1>2. SearchOk(t, host, net, out)
  BY <1>1, AdvanceKeeps
<1> QED
  BY <1>2 DEF SearchInv

LEMMA TryKeeps ==
  ASSUME SearchInv, si.pc \in {"try", "trycursor"}, NEW h \in si.cand, NEW record \in BOOLEAN,
         record <=> si.phase # "rtt", record => NetOf[h] \in si.nets,
         NEW skipped, StateOk(skipped), Advances(si, skipped),
         NEW sent, StateOk(sent), Advances(si, sent),
         TryHost(h, record, skipped, sent)
  PROVE  SearchInv'
<1>1. /\ SearchOk(si, host, net, out) /\ HostsOk(host) /\ NetsOk(net, out) /\ UnderwayOk(si, host, out)
      /\ StateOk(si) /\ h \in Hosts
  BY DEF SearchInv, SearchOk, StateOk
<1>2. PICK t : t = si'
  OBVIOUS
<1>3. CASE ~NeedsTrial(h)
  <2>1. t = skipped /\ UNCHANGED <<host, net, out>>
    BY <1>2, <1>3 DEF TryHost
  <2> QED
    BY <1>2, <2>1, MoveKeeps
<1>4. CASE NeedsTrial(h) /\ si.concurrency >= Concurrency
  <2>1. t = [si EXCEPT !.pc = "turn", !.ret = si.pc] /\ UNCHANGED <<host, net, out>>
    BY <1>2, <1>4 DEF TryHost
  <2>2. /\ DOMAIN t = SearchFields /\ t.pc = "turn" /\ t.ret = si.pc /\ t.phase = si.phase /\ t.write = si.write
        /\ t.cand = si.cand /\ t.nets = si.nets /\ t.left = si.left /\ t.todo = si.todo /\ t.pass = si.pass
        /\ t.cursor = si.cursor /\ t.searches = si.searches
        /\ t.available = si.available /\ t.usable = si.usable /\ t.idle = si.idle /\ t.semi = si.semi
    BY <1>1, <2>1 DEF StateOk, SearchFields
  <2>3. StateOk(t)
    <3>1. (TryingHosts(t) <=> si.pc = "try") /\ (Cursing(t) <=> si.pc = "trycursor") /\ ~Passing(t)
      BY <2>2 DEF TryingHosts, Cursing, Passing
    <3>2. (TryingHosts(si) <=> si.pc = "try") /\ (Cursing(si) <=> si.pc = "trycursor")
      BY DEF TryingHosts, Cursing
    <3> QED
      BY <1>1, <2>2, <3>1, <3>2 DEF StateOk
  <2>4. Advances(si, t)
    BY <2>2 DEF Advances
  <2> QED
    BY <1>2, <2>1, <2>3, <2>4, MoveKeeps
<1>5. CASE NeedsTrial(h) /\ ~(si.concurrency >= Concurrency)
  <2>1. PICK G : G = host'
    OBVIOUS
  <2>2. G = [host EXCEPT ![h].just = TRUE, ![h].tried = TRUE]
    BY <1>5, <2>1 DEF TryHost
  <2>3. /\ DOMAIN G = Hosts /\ DOMAIN G[h] = HostFields /\ \A g \in Hosts : g # h => G[g] = host[g]
        /\ G[h].just /\ G[h].available = host[h].available /\ G[h].used = host[h].used
        /\ G[h].load = host[h].load /\ G[h].disk = host[h].disk /\ G[h].scheduled = host[h].scheduled
    BY <1>1, <2>2 DEF HostsOk, HostFields
  <2>4. HostsOk(G)
    BY <1>1, <2>3 DEF HostsOk
  <2>5. h \notin Av(host) /\ ~host[h].just
    <3>1. ~host[h].just /\ ~(host[h].tried /\ host[h].fresh)
      BY <1>5 DEF NeedsTrial, CacheShouldBeUsed
    <3> QED
      BY <1>1, <3>1 DEF SearchOk, AvOk
  <2>6. h \notin Underway(out)
    BY <1>1, <2>5 DEF UnderwayOk
  <2>7. Av(G) = Av(host) /\ \A g \in Av(host) : G[g] = host[g]
    BY <1>1, <2>3, <2>5 DEF Av
  <2>8. ~G[h].available
    BY <1>1, <2>3, <2>5 DEF Av
  <2>9. \A g \in Underway(out) : G[g] = host[g]
    BY <2>3, <2>6 DEF Underway
  <2>10. CASE si' = [skipped EXCEPT !.faults = @ - 1] /\ UNCHANGED <<net, out>>
    <3>1. /\ DOMAIN t = DOMAIN skipped /\ t.pc = skipped.pc /\ t.ret = skipped.ret
          /\ t.phase = skipped.phase /\ t.write = skipped.write
          /\ t.cand = skipped.cand /\ t.nets = skipped.nets /\ t.left = skipped.left /\ t.todo = skipped.todo
          /\ t.pass = skipped.pass /\ t.cursor = skipped.cursor /\ t.searches = skipped.searches
          /\ t.available = skipped.available /\ t.usable = skipped.usable
          /\ t.idle = skipped.idle /\ t.semi = skipped.semi
      BY <1>2, <2>10 DEF StateOk, SearchFields
    <3>2. StateOk(t) /\ Advances(si, t)
      BY <3>1 DEF StateOk, Advances, TryingHosts, Cursing, Passing
    <3>3. UnderwayOk(si, G, out)
      BY <1>1, <2>9 DEF UnderwayOk
    <3>4. SearchOk(t, G, net, out)
      BY <1>1, <2>4, <2>7, <3>2, <3>3, AdvanceKeeps
    <3> QED
      BY <1>2, <2>1, <2>10, <3>4 DEF SearchInv
  <2>11. CASE /\ si' = [sent EXCEPT !.concurrency = @ + 1]
              /\ net' = [net EXCEPT ![NetOf[h]].ongoing = @ + 1]
              /\ out' = [out EXCEPT ![h] = [request |-> "load", record |-> record]]
    <3>1. /\ DOMAIN t = DOMAIN sent /\ t.pc = sent.pc /\ t.ret = sent.ret
          /\ t.phase = sent.phase /\ t.write = sent.write
          /\ t.cand = sent.cand /\ t.nets = sent.nets /\ t.left = sent.left /\ t.todo = sent.todo
          /\ t.pass = sent.pass /\ t.cursor = sent.cursor /\ t.searches = sent.searches
          /\ t.available = sent.available /\ t.usable = sent.usable
          /\ t.idle = sent.idle /\ t.semi = sent.semi
      BY <1>2, <2>11 DEF StateOk, SearchFields
    <3>2. StateOk(t) /\ Advances(si, t)
      BY <3>1 DEF StateOk, Advances, TryingHosts, Cursing, Passing
    <3>3. PICK N, o, M, p : N = net /\ o = out /\ M = net' /\ p = out'
      OBVIOUS
    <3>4. M = OneMore(N, h) /\ p = Asked(o, h, record) /\ NetsOk(N, o) /\ h \notin Underway(o)
      BY <1>1, <2>6, <2>11, <3>3 DEF OneMore, Asked
    <3>5. /\ NetsOk(M, p) /\ Underway(p) = Underway(o) \cup {h}
          /\ p[h].record <=> record
          /\ \A g \in Underway(o) : p[g] = o[g]
      BY <1>1, <3>4, RequestSent
    <3>6. UnderwayOk(si, G, p)
      <4>1. ASSUME NEW g \in Underway(p), g # h
            PROVE  /\ g \in si.cand /\ G[g].just /\ ~G[g].available
                   /\ p[g].record <=> si.phase # "rtt"
                   /\ p[g].record => NetOf[g] \in si.nets
        <5>1. g \in Underway(out) /\ p[g] = out[g] /\ G[g] = host[g]
          BY <2>9, <3>3, <3>5, <4>1
        <5> QED
          BY <1>1, <5>1 DEF UnderwayOk
      <4> QED
        BY <2>3, <2>8, <3>5, <4>1 DEF UnderwayOk
    <3>7. SearchOk(t, G, M, p)
      BY <1>1, <2>4, <2>7, <3>2, <3>5, <3>6, AdvanceKeeps
    <3> QED
      BY <1>2, <2>1, <3>3, <3>7 DEF SearchInv
  <2> QED
    BY <1>5, <2>10, <2>11 DEF TryHost
<1> QED
  BY <1>3, <1>4, <1>5

LEMMA TryNextKeeps ==
  ASSUME SearchInv, TryNextHost
  PROVE  SearchInv'
<1>1. StateOk(si) /\ si.pc = "try" /\ si.pc # "idle"
  BY DEF SearchInv, SearchOk, TryNextHost
<1>2. TryingHosts(si)
  BY <1>1 DEF TryingHosts
<1>3. CASE si.todo = {}
  <2>1. PICK t : t = si'
    OBVIOUS
  <2>2. t = [si EXCEPT !.pc = "drain"] /\ UNCHANGED <<host, net, out>>
    BY <1>3, <2>1 DEF TryNextHost
  <2>3. /\ DOMAIN t = SearchFields /\ t.pc = "drain" /\ t.phase = si.phase /\ t.write = si.write
        /\ t.cand = si.cand /\ t.nets = si.nets /\ t.left = si.left /\ t.todo = si.todo /\ t.pass = si.pass
        /\ t.cursor = si.cursor /\ t.searches = si.searches
        /\ t.available = si.available /\ t.usable = si.usable /\ t.idle = si.idle /\ t.semi = si.semi
    BY <1>1, <2>2 DEF StateOk, SearchFields
  <2>4. StateOk(t) /\ Advances(si, t)
    BY <1>1, <1>2, <1>3, <2>3 DEF StateOk, Advances, TryingHosts, Cursing, Passing
  <2> QED
    BY <1>1, <2>1, <2>2, <2>4, MoveKeeps
<1>4. CASE si.todo # {}
  <2>1. PICK h, next : /\ h = First(Order, si.todo)
                       /\ next = [si EXCEPT !.todo = IF Satisfied(si) THEN {} ELSE @ \ {h}]
    OBVIOUS
  <2>2. TryHost(h, TRUE, next, next)
    BY <1>4, <2>1 DEF TryNextHost
  <2>3. h \in si.todo
    <3>1. si.todo \subseteq Range(Order)
      BY <1>1 DEF StateOk, Hosts
    <3> QED
      BY <1>4, <2>1, <3>1, FirstIn, SearchAssumption
  <2>4. h \in si.cand /\ NetOf[h] \in si.nets /\ si.phase # "rtt"
    BY <1>1, <1>2, <2>3 DEF StateOk
  <2>5. /\ DOMAIN next = SearchFields /\ next.pc = si.pc /\ next.phase = si.phase /\ next.write = si.write
        /\ next.cand = si.cand /\ next.nets = si.nets /\ next.left = si.left /\ next.todo \subseteq si.todo
        /\ next.pass = si.pass /\ next.cursor = si.cursor /\ next.searches = si.searches
        /\ next.available = si.available /\ next.usable = si.usable /\ next.idle = si.idle /\ next.semi = si.semi
    BY <1>1, <2>1 DEF StateOk, SearchFields
  <2>6. StateOk(next) /\ Advances(si, next)
    BY <1>1, <1>2, <2>5 DEF StateOk, Advances, TryingHosts, Cursing, Passing
  <2> QED
    BY <1>1, <2>2, <2>4, <2>6, TryKeeps
<1> QED
  BY <1>3, <1>4

LEMMA CursorKeeps ==
  ASSUME SearchInv, TryCursor
  PROVE  SearchInv'
<1>1. StateOk(si) /\ si.pc = "trycursor"
  BY DEF SearchInv, SearchOk, TryCursor
<1>2. Cursing(si) /\ ~TryingHosts(si)
  BY <1>1 DEF Cursing, TryingHosts
<1>3. PICK n, h : n = First(Nets, si.pass) /\ h = First(Order, si.cursor[n])
  OBVIOUS
<1>4. /\ si.pass # {} /\ si.pass \subseteq Range(Nets) /\ si.cursor[n] # {} /\ si.phase = "rtt"
      /\ DOMAIN si.cursor = Range(Nets) /\ si.todo = {}
  BY <1>1, <1>2, <1>3 DEF StateOk
<1>5. n \in si.pass /\ n \in Range(Nets)
  BY <1>3, <1>4, FirstIn, SearchAssumption
<1>6. h \in si.cursor[n] /\ h \in si.cand
  <2>1. si.cursor[n] \subseteq si.cand /\ si.cand \subseteq Range(Order)
    BY <1>1, <1>5 DEF StateOk, Hosts
  <2>2. si.cursor[n] \subseteq Range(Order)
    BY <2>1
  <2> QED
    BY <1>3, <1>4, <2>1, <2>2, FirstIn, SearchAssumption
<1>7. PICK a, b :
        /\ a = [si EXCEPT !.pc = "pass", !.pass = @ \ {n}, !.cursor[n] = @ \ {h},
                          !.again = @ \/ (net[n].ongoing + 0 < PerNet /\ si.cursor[n] # {h})]
        /\ b = [si EXCEPT !.pc = "pass", !.pass = @ \ {n}, !.cursor[n] = @ \ {h},
                          !.again = @ \/ (net[n].ongoing + 1 < PerNet /\ si.cursor[n] # {h})]
  OBVIOUS
<1>8. TryHost(h, FALSE, a, b)
  BY <1>3, <1>7 DEF TryCursor
<1>9. ASSUME NEW t, NEW e, t = [si EXCEPT !.pc = "pass", !.pass = @ \ {n}, !.cursor[n] = @ \ {h}, !.again = @ \/ e]
      PROVE  StateOk(t) /\ Advances(si, t)
  <2>1. /\ DOMAIN t = SearchFields /\ t.pc = "pass" /\ t.phase = si.phase /\ t.write = si.write
        /\ t.cand = si.cand /\ t.nets = si.nets /\ t.left = si.left /\ t.todo = si.todo
        /\ t.pass \subseteq si.pass /\ t.cursor = [si.cursor EXCEPT ![n] = @ \ {h}] /\ t.searches = si.searches
        /\ t.available = si.available /\ t.usable = si.usable /\ t.idle = si.idle /\ t.semi = si.semi
    BY <1>1, <1>9 DEF StateOk, SearchFields
  <2>2. DOMAIN t.cursor = Range(Nets) /\ \A m \in Range(Nets) : t.cursor[m] \subseteq si.cursor[m]
    BY <1>4, <2>1
  <2>3. \A m \in Range(Nets) : t.cursor[m] \subseteq si.cand
    BY <1>1, <2>2 DEF StateOk
  <2>4. Passing(t) /\ ~TryingHosts(t) /\ ~Cursing(t)
    BY <2>1 DEF Passing, TryingHosts, Cursing
  <2> QED
    BY <1>1, <1>4, <2>1, <2>2, <2>3, <2>4 DEF StateOk, Advances
<1>10. StateOk(a) /\ Advances(si, a) /\ StateOk(b) /\ Advances(si, b)
  BY <1>7, <1>9
<1> QED
  BY <1>1, <1>4, <1>6, <1>8, <1>10, TryKeeps

LEMMA ExamineNetKeeps ==
  ASSUME SearchInv, ExamineNet
  PROVE  SearchInv'
<1>1. StateOk(si) /\ si.pc = "pass" /\ si.pc # "idle" /\ si.pass # {}
  BY DEF SearchInv, SearchOk, ExamineNet
<1>2. Passing(si) /\ ~TryingHosts(si) /\ si.phase = "rtt"
  BY <1>1 DEF Passing, TryingHosts, StateOk
<1>3. PICK n, t : n = First(Nets, si.pass) /\ t = si'
  OBVIOUS
<1>4. /\ DOMAIN t = SearchFields /\ t.phase = si.phase /\ t.write = si.write
      /\ t.cand = si.cand /\ t.nets = si.nets /\ t.left = si.left /\ t.todo = si.todo
      /\ t.cursor = si.cursor /\ t.searches = si.searches
      /\ t.available = si.available /\ t.usable = si.usable /\ t.idle = si.idle /\ t.semi = si.semi
      /\ \/ t.pc = "trycursor" /\ t.pass = si.pass /\ si.cursor[n] # {}
         \/ t.pc = "pass" /\ t.pass \subseteq si.pass
  BY <1>1, <1>3 DEF ExamineNet, StateOk, SearchFields
<1>5. StateOk(t) /\ Advances(si, t)
  <2>1. CASE t.pc = "trycursor"
    <3>1. Cursing(t) /\ ~TryingHosts(t) /\ ~Passing(t)
      BY <2>1 DEF Passing, TryingHosts, Cursing
    <3>2. t.pass = si.pass /\ si.cursor[n] # {}
      BY <1>4, <2>1
    <3> QED
      BY <1>1, <1>2, <1>3, <1>4, <2>1, <3>1, <3>2 DEF StateOk, Advances
  <2>2. CASE t.pc = "pass"
    <3>1. Passing(t) /\ ~TryingHosts(t) /\ ~Cursing(t)
      BY <2>2 DEF Passing, TryingHosts, Cursing
    <3>2. t.pass \subseteq si.pass
      BY <1>4, <2>2
    <3> QED
      BY <1>1, <1>2, <1>4, <2>2, <3>1, <3>2 DEF StateOk, Advances
  <2> QED
    BY <1>4, <2>1, <2>2
<1>6. UNCHANGED <<host, net, out>>
  BY DEF ExamineNet
<1> QED
  BY <1>1, <1>3, <1>5, <1>6, MoveKeeps

\* A pass over the networks whose round trip time is unknown begins.
LEMMA StartOk ==
  ASSUME NEW s, StateOk(s), s.phase = "rtt", s.todo = {}, NEW t, t = StartPass(s), s.nets = {LocalNet}
  PROVE  /\ StateOk(t) /\ t.pc = "pass" /\ t.phase = s.phase /\ t.write = s.write
         /\ t.cand = s.cand /\ t.nets = s.nets /\ t.left = s.left
         /\ t.available = s.available /\ t.usable = s.usable /\ t.idle = s.idle /\ t.semi = s.semi
<1>1. /\ DOMAIN t = SearchFields /\ t.pc = "pass" /\ t.phase = s.phase /\ t.write = s.write
      /\ t.cand = s.cand /\ t.nets = s.nets /\ t.left = s.left /\ t.todo = s.todo
      /\ t.cursor = s.cursor /\ t.searches = s.searches /\ t.pass = {n \in Range(Nets) : RttUnknown(n)}
      /\ t.available = s.available /\ t.usable = s.usable /\ t.idle = s.idle /\ t.semi = s.semi
  BY DEF StartPass, StateOk, SearchFields
<1>2. Passing(t) /\ ~TryingHosts(t) /\ ~Cursing(t) /\ t.pass \subseteq Range(Nets)
  BY <1>1 DEF Passing, TryingHosts, Cursing
<1> QED
  BY <1>1, <1>2 DEF StateOk

LEMMA ExamineRttKeeps ==
  ASSUME SearchInv, ExamineRtt
  PROVE  SearchInv'
<1>1. /\ SearchOk(si, host, net, out) /\ StateOk(si) /\ si.pc = "rtt" /\ si.phase = "local" /\ Underway(out) = {}
      /\ si.nets = {LocalNet} /\ si.todo = {}
  BY DEF SearchInv, SearchOk, ExamineRtt, StateOk, Quiet, TryingHosts
<1>2. PICK s, t : /\ s = [si EXCEPT !.phase = "rtt", !.cursor = [n \in Range(Nets) |-> InNets({n})]]
                  /\ t = si'
  OBVIOUS
<1>3. PICK c : c = [n \in Range(Nets) |-> InNets({n})]
  OBVIOUS
<1>4. /\ DOMAIN s = SearchFields /\ s.pc = "rtt" /\ s.phase = "rtt" /\ s.write = si.write
      /\ s.cand = si.cand /\ s.nets = si.nets /\ s.left = si.left /\ s.todo = si.todo /\ s.pass = si.pass
      /\ s.cursor = c /\ s.searches = si.searches
      /\ s.available = si.available /\ s.usable = si.usable /\ s.idle = si.idle /\ s.semi = si.semi
  BY <1>1, <1>2, <1>3 DEF StateOk, SearchFields
<1>5. DOMAIN c = Range(Nets) /\ \A n \in Range(Nets) : c[n] \subseteq si.cand
  BY <1>3 DEF InNets
<1>6. t = StartPass(s)
  BY <1>2 DEF ExamineRtt
<1>7. /\ DOMAIN t = SearchFields /\ t.pc = "pass" /\ t.phase = s.phase /\ t.write = s.write
       /\ t.cand = s.cand /\ t.nets = s.nets /\ t.left = s.left /\ t.todo = s.todo
       /\ t.cursor = s.cursor /\ t.searches = s.searches /\ t.pass = {n \in Range(Nets) : RttUnknown(n)}
       /\ t.available = s.available /\ t.usable = s.usable /\ t.idle = s.idle /\ t.semi = s.semi
  BY <1>4, <1>6 DEF StartPass, SearchFields
<1>8. StateOk(t)
  <2>1. Passing(t) /\ ~TryingHosts(t) /\ ~Cursing(t) /\ t.pass \subseteq Range(Nets)
    BY <1>7 DEF Passing, TryingHosts, Cursing
  <2> QED
    BY <1>1, <1>4, <1>5, <1>7, <2>1 DEF StateOk
<1>9. AvOk(t, host)
  <2>1. CountedAs(t, host)
    BY <1>1, <1>4, <1>7 DEF SearchOk, AvOk, CountedAs
  <2> QED
    BY <1>1, <1>4, <1>7, <2>1 DEF SearchOk, AvOk
<1>10. Quiet(t, out) /\ UnderwayOk(t, host, out) /\ ChosenOk(t, host)
  BY <1>1, <1>7 DEF Quiet, UnderwayOk, ChosenOk
<1>11. UNCHANGED <<host, net, out>>
  BY DEF ExamineRtt
<1> QED
  BY <1>1, <1>2, <1>8, <1>9, <1>10, <1>11 DEF SearchInv, SearchOk

LEMMA PassingKeeps ==
  ASSUME SearchInv, PassEnds \/ NewPass
  PROVE  SearchInv'
<1>1. StateOk(si) /\ si.pc \in {"pass", "newpass"} /\ si.pc # "idle"
  BY DEF SearchInv, SearchOk, PassEnds, NewPass
<1>2. Passing(si) /\ ~TryingHosts(si) /\ si.phase = "rtt" /\ si.todo = {} /\ si.nets = {LocalNet}
  BY <1>1 DEF Passing, TryingHosts, StateOk
<1>3. PICK t : t = si'
  OBVIOUS
<1>4. UNCHANGED <<host, net, out>>
  BY DEF PassEnds, NewPass
<1>5. CASE t = StartPass(si)
  <2>1. StateOk(t) /\ Advances(si, t)
    BY <1>1, <1>2, <1>5, StartOk DEF Advances
  <2> QED
    BY <1>1, <1>3, <1>4, <2>1, MoveKeeps
<1>6. CASE t = [si EXCEPT !.pc = "drain"] \/ t = [si EXCEPT !.pc = "turn", !.ret = "newpass"]
  <2>1. /\ DOMAIN t = SearchFields /\ t.phase = si.phase /\ t.write = si.write
        /\ t.cand = si.cand /\ t.nets = si.nets /\ t.left = si.left /\ t.todo = si.todo /\ t.pass = si.pass
        /\ t.cursor = si.cursor /\ t.searches = si.searches
        /\ t.available = si.available /\ t.usable = si.usable /\ t.idle = si.idle /\ t.semi = si.semi
        /\ t.pc = "drain" \/ (t.pc = "turn" /\ t.ret = "newpass")
    <3>1. DOMAIN si = SearchFields
      BY <1>1 DEF StateOk
    <3>2. CASE t = [si EXCEPT !.pc = "drain"]
      BY <3>1, <3>2 DEF SearchFields
    <3>3. CASE t = [si EXCEPT !.pc = "turn", !.ret = "newpass"]
      BY <3>1, <3>3 DEF SearchFields
    <3> QED
      BY <1>6, <3>2, <3>3
  <2>2. StateOk(t) /\ Advances(si, t)
    <3>1. (t.pc = "drain" \/ Passing(t)) /\ ~TryingHosts(t) /\ ~Cursing(t)
      BY <2>1 DEF Passing, TryingHosts, Cursing
    <3> QED
      BY <1>1, <1>2, <2>1, <3>1 DEF StateOk, Advances
  <2> QED
    BY <1>1, <1>3, <1>4, <2>2, MoveKeeps
<1> QED
  BY <1>3, <1>5, <1>6 DEF PassEnds, NewPass

LEMMA TurnKeeps ==
  ASSUME SearchInv, TurnEnds
  PROVE  SearchInv'
<1>1. StateOk(si) /\ si.pc \in {"turn", "turned"} /\ si.pc # "idle"
  BY DEF SearchInv, SearchOk, TurnEnds
<1>2. PICK t : t = si'
  OBVIOUS
<1>3. t = [si EXCEPT !.pc = si.ret] /\ UNCHANGED <<host, net, out>>
  BY <1>1, <1>2 DEF TurnEnds, StateOk, SearchFields
<1>4. /\ DOMAIN t = SearchFields /\ t.phase = si.phase /\ t.write = si.write /\ t.pc = si.ret
      /\ t.cand = si.cand /\ t.nets = si.nets /\ t.left = si.left /\ t.todo = si.todo /\ t.pass = si.pass
      /\ t.cursor = si.cursor /\ t.searches = si.searches
      /\ t.available = si.available /\ t.usable = si.usable /\ t.idle = si.idle /\ t.semi = si.semi
  BY <1>1, <1>3 DEF StateOk, SearchFields
<1>5. si.ret \in {"try", "trycursor", "newpass"}
  BY <1>1 DEF StateOk, TryingHosts, Cursing, Passing
<1>6. (TryingHosts(t) <=> TryingHosts(si)) /\ (Cursing(t) <=> Cursing(si)) /\ (Passing(t) <=> Passing(si))
  BY <1>1, <1>4, <1>5 DEF TryingHosts, Cursing, Passing
<1>7. StateOk(t) /\ Advances(si, t)
  BY <1>1, <1>4, <1>5, <1>6 DEF StateOk, Advances
<1> QED
  BY <1>1, <1>2, <1>3, <1>7, MoveKeeps

LEMMA ForgetKeeps ==
  ASSUME SearchInv, ForgetScheduled
  PROVE  SearchInv'
<1>1. /\ SearchOk(si, host, net, out) /\ HostsOk(host) /\ StateOk(si) /\ AvOk(si, host) /\ si.pc = "drain"
      /\ si.phase \in {"local", "order"} /\ si.todo = {}
  BY DEF SearchInv, SearchOk, ForgetScheduled, StateOk, TryingHosts
<1>2. Underway(out) = {}
  BY DEF ForgetScheduled, Outstanding, Underway
<1>3. PICK H, t : H = host' /\ t = si'
  OBVIOUS
<1>4. PICK hs, G, s : /\ hs = {h \in InNets(si.nets) : host[h].used}
                      /\ G = [h \in Hosts |-> IF h \in hs THEN [host[h] EXCEPT !.scheduled = 0] ELSE host[h]]
                      /\ s = [si EXCEPT !.idle = @ + Cardinality({h \in hs : ~HostIdle(host, h) /\ HostIdle(G, h)}),
                                        !.semi = @ + Cardinality({h \in hs : ~HostSemiIdle(host, h) /\ HostSemiIdle(G, h)})]
  OBVIOUS
<1>5. (H = host /\ t = Leave(si)) \/ (H = G /\ t = Leave(s))
  BY <1>3, <1>4 DEF ForgetScheduled
<1>6. hs \subseteq Av(host)
  BY <1>1, <1>4 DEF InNets, StateOk, HostsOk, Av
<1>7. DOMAIN si = SearchFields /\ CountedAs(si, host)
  BY <1>1 DEF StateOk, AvOk
<1>8. CountedAs(s, G)
  <2>1. {"available", "usable", "idle", "semi", "write"} \subseteq DOMAIN si
    BY <1>7 DEF SearchFields
  <2>2. \A h \in Hosts : host[h].load \in Nat /\ host[h].scheduled \in Nat /\ "scheduled" \in DOMAIN host[h]
    BY <1>1 DEF HostsOk, HostFields
  <2>3. PICK K : K = host
    OBVIOUS
  <2>4. /\ CountedAs(si, K) /\ hs \subseteq Av(K)
        /\ \A h \in Hosts : K[h].load \in Nat /\ K[h].scheduled \in Nat /\ "scheduled" \in DOMAIN K[h]
    BY <1>6, <1>7, <2>2, <2>3
  <2>5. G = Forgotten(K, hs)
    BY <1>4, <2>3 DEF Forgotten
  <2>6. s = CountedAgain(si, K, G, hs)
    BY <1>4, <2>3 DEF CountedAgain
  <2> QED
    BY <2>1, <2>4, <2>5, <2>6, ForgetCounts
<1>9. \A h \in Hosts : /\ DOMAIN G[h] = HostFields /\ G[h].load \in Nat /\ G[h].disk \in Nat /\ G[h].scheduled \in Nat
                       /\ G[h].statfs = host[h].statfs /\ G[h].just = host[h].just
                       /\ G[h].tried = host[h].tried /\ G[h].fresh = host[h].fresh
                       /\ G[h].available = host[h].available /\ G[h].used = host[h].used
  <2>1. TAKE h \in Hosts
  <2>2. DOMAIN host[h] = HostFields /\ host[h].load \in Nat /\ host[h].disk \in Nat /\ host[h].scheduled \in Nat
    BY <1>1 DEF HostsOk
  <2>3. CASE h \in hs
    <3>1. G[h] = [host[h] EXCEPT !.scheduled = 0]
      BY <1>4, <2>3
    <3> QED
      BY <2>2, <3>1 DEF HostFields
  <2>4. CASE h \notin hs
    BY <1>4, <2>2, <2>4
  <2> QED
    BY <2>3, <2>4
<1>10. HostsOk(G) /\ Av(G) = Av(host)
  BY <1>1, <1>4, <1>9 DEF HostsOk, Av
<1>11. ASSUME NEW u, NEW K, HostsOk(K), CountedAs(u, K), t = Leave(u), H = K, DOMAIN u = SearchFields,
              \A f \in SearchFields \ {"idle", "semi"} : u[f] = si[f],
              \A h \in Av(K) : /\ h \in si.cand /\ (K[h].just \/ (K[h].tried /\ K[h].fresh))
                               /\ si.write => K[h].statfs
                               /\ IF si.phase = "order" THEN NetOf[h] \notin si.left ELSE NetOf[h] = LocalNet
       PROVE  SearchInv'
  <2>1. /\ u.pc = si.pc /\ u.phase = si.phase /\ u.write = si.write /\ u.cand = si.cand /\ u.nets = si.nets
        /\ u.left = si.left /\ u.todo = si.todo /\ u.pass = si.pass /\ u.cursor = si.cursor
        /\ u.searches = si.searches
    BY <1>11 DEF SearchFields
  <2>2. /\ DOMAIN t = SearchFields /\ t.phase = si.phase /\ t.write = si.write
        /\ t.cand = si.cand /\ t.nets = si.nets /\ t.left = si.left /\ t.todo = si.todo /\ t.pass = si.pass
        /\ t.cursor = si.cursor /\ t.searches = si.searches
        /\ t.available = u.available /\ t.usable = u.usable /\ t.idle = u.idle /\ t.semi = u.semi
        /\ \/ t.pc = "select"
           \/ t.pc = "rtt" /\ si.phase = "local"
           \/ t.pc = "order" /\ si.phase = "order"
    BY <1>1, <1>11, <2>1 DEF Leave, SearchFields
  <2>3. StateOk(t)
    BY <1>1, <2>2 DEF StateOk, TryingHosts, Cursing, Passing
  <2>4. CountedAs(t, H)
    BY <1>11, <2>1, <2>2 DEF CountedAs
  <2>5. AvOk(t, H)
    BY <1>11, <2>2, <2>4 DEF AvOk
  <2>6. Quiet(t, out) /\ UnderwayOk(t, H, out) /\ ChosenOk(t, H)
    BY <1>2, <2>2 DEF Quiet, UnderwayOk, ChosenOk
  <2>7. UNCHANGED <<net, out>>
    BY DEF ForgetScheduled
  <2> QED
    BY <1>1, <1>3, <1>11, <2>3, <2>5, <2>6, <2>7 DEF SearchInv, SearchOk
<1>12. \A h \in Av(host) : /\ h \in si.cand /\ (host[h].just \/ (host[h].tried /\ host[h].fresh))
                           /\ si.write => host[h].statfs
                           /\ IF si.phase = "order" THEN NetOf[h] \notin si.left ELSE NetOf[h] = LocalNet
  BY <1>1 DEF AvOk
<1>13. CASE H = host /\ t = Leave(si)
  BY <1>1, <1>7, <1>11, <1>12, <1>13
<1>14. CASE H = G /\ t = Leave(s)
  <2>1. DOMAIN s = SearchFields /\ \A f \in SearchFields \ {"idle", "semi"} : s[f] = si[f]
    BY <1>4, <1>7
  <2>2. Av(host) \subseteq Hosts
    BY DEF Av
  <2>3. \A h \in Av(G) : /\ h \in si.cand /\ (G[h].just \/ (G[h].tried /\ G[h].fresh))
                         /\ si.write => G[h].statfs
                         /\ IF si.phase = "order" THEN NetOf[h] \notin si.left ELSE NetOf[h] = LocalNet
    BY <1>9, <1>10, <1>12, <2>2
  <2> QED
    BY <1>8, <1>10, <1>11, <1>14, <2>1, <2>3
<1> QED
  BY <1>5, <1>13, <1>14

LEMMA ByRttKeeps ==
  ASSUME SearchInv, ByRttOrder
  PROVE  SearchInv'
<1>1. /\ SearchOk(si, host, net, out) /\ StateOk(si) /\ si.pc = "drain" /\ si.phase = "rtt" /\ si.todo = {}
      /\ si.nets = {LocalNet}
  BY DEF SearchInv, SearchOk, ByRttOrder, StateOk, TryingHosts
<1>2. Underway(out) = {}
  BY DEF ByRttOrder, Outstanding, Underway
<1>3. PICK t, c, l : /\ t = si' /\ c = [n \in Range(Nets) |-> {}]
                     /\ l = {n \in Range(Nets) \ {LocalNet} : InNets({n}) # {} /\ Rtt(n) # 0}
  OBVIOUS
<1>4. /\ DOMAIN t = SearchFields /\ t.pc = "order" /\ t.phase = "order" /\ t.write = si.write
      /\ t.cand = si.cand /\ t.nets = si.nets /\ t.left = l /\ t.todo = si.todo
      /\ t.pass = si.pass /\ t.cursor = c /\ t.searches = si.searches
      /\ t.available = si.available /\ t.usable = si.usable /\ t.idle = si.idle /\ t.semi = si.semi
  BY <1>1, <1>3 DEF ByRttOrder, StateOk, SearchFields
<1>5. l \subseteq Range(Nets) /\ LocalNet \notin l /\ DOMAIN c = Range(Nets) /\ \A n \in Range(Nets) : c[n] = {}
  BY <1>3
<1>6. StateOk(t)
  BY <1>1, <1>4, <1>5 DEF StateOk, TryingHosts, Cursing, Passing
<1>7. AvOk(t, host)
  <2>1. CountedAs(t, host)
    BY <1>1, <1>4 DEF SearchOk, AvOk, CountedAs
  <2> QED
    BY <1>1, <1>4, <1>5, <2>1 DEF SearchOk, AvOk
<1>8. Quiet(t, out) /\ UnderwayOk(t, host, out) /\ ChosenOk(t, host)
  BY <1>2, <1>4 DEF Quiet, UnderwayOk, ChosenOk
<1>9. UNCHANGED <<host, net, out>>
  BY DEF ByRttOrder
<1> QED
  BY <1>1, <1>3, <1>6, <1>7, <1>8, <1>9 DEF SearchInv, SearchOk

LEMMA NextNetsKeeps ==
  ASSUME SearchInv, NextNetworks
  PROVE  SearchInv'
<1>1. /\ SearchOk(si, host, net, out) /\ StateOk(si) /\ si.pc = "order" /\ si.phase = "order" /\ si.todo = {}
      /\ Underway(out) = {} /\ LocalNet \notin si.left /\ si.nets \cap si.left = {}
  BY DEF SearchInv, SearchOk, NextNetworks, StateOk, TryingHosts, Quiet
<1>2. PICK t, ns : t = si' /\ ns = NearestOf(si.left)
  OBVIOUS
<1>3. /\ DOMAIN t = SearchFields /\ t.phase = "order" /\ t.write = si.write
      /\ t.cand = si.cand /\ t.todo = si.todo
      /\ t.pass = si.pass /\ t.cursor = si.cursor /\ t.searches = si.searches
      /\ t.available = si.available /\ t.usable = si.usable /\ t.idle = si.idle /\ t.semi = si.semi
      /\ \/ t.pc = "select" /\ t.nets = si.nets /\ t.left = si.left
         \/ t.pc = "cached" /\ t.nets = ns /\ t.left = si.left \ ns
  BY <1>1, <1>2 DEF NextNetworks, StateOk, SearchFields
<1>4. ns \subseteq si.left
  BY <1>2 DEF NearestOf
<1>5. /\ t.nets \subseteq Range(Nets) /\ t.left \subseteq si.left /\ t.nets \cap t.left = {}
      /\ t.pc = "cached" => t.nets \subseteq si.left
  BY <1>1, <1>3, <1>4 DEF StateOk
<1>6. StateOk(t)
  BY <1>1, <1>3, <1>5 DEF StateOk, TryingHosts, Cursing, Passing
<1>7. AvOk(t, host)
  <2>1. CountedAs(t, host)
    BY <1>1, <1>3 DEF SearchOk, AvOk, CountedAs
  <2> QED
    BY <1>1, <1>3, <1>5, <2>1 DEF SearchOk, AvOk
<1>8. Quiet(t, out) /\ UnderwayOk(t, host, out) /\ ChosenOk(t, host)
  BY <1>1, <1>3 DEF Quiet, UnderwayOk, ChosenOk
<1>9. UNCHANGED <<host, net, out>>
  BY DEF NextNetworks
<1> QED
  BY <1>1, <1>2, <1>6, <1>7, <1>8, <1>9 DEF SearchInv, SearchOk

\* Where the search stops: the hosts to choose from are those that are counted.
LEMMA AtSelect ==
  ASSUME SearchInv, si.pc = "select"
  PROVE  /\ CountedAs(si, host) /\ AvailableHosts = Av(host) /\ Underway(out) = {}
         /\ \A h \in Hosts : host[h].disk \in Nat /\ (si.write /\ host[h].available => host[h].statfs)
<1>1. CountedAs(si, host) /\ Underway(out) = {} /\ HostsOk(host) /\ AvOk(si, host) /\ si.cand \subseteq Hosts
  BY DEF SearchInv, SearchOk, AvOk, Quiet, StateOk
<1>2. AvailableHosts = Av(host)
  BY <1>1 DEF AvailableHosts, Av, AvOk
<1>3. \A h \in Hosts : host[h].disk \in Nat /\ (si.write /\ host[h].available => host[h].statfs)
  BY <1>1 DEF HostsOk, AvOk, Av
<1> QED
  BY <1>1, <1>2, <1>3

\* The first of a sequence.
LEMMA FirstOnes ==
  ASSUME NEW S, NEW p \in Seq(S), NEW k \in Nat, k <= Len(p)
  PROVE  SubSeq(p, 1, k) \in Seq(S) /\ Len(SubSeq(p, 1, k)) = k
<1>1. SubSeq(p, 1, k) = [i \in 1..k |-> p[i]] /\ Len(SubSeq(p, 1, k)) = k
  OBVIOUS
<1> QED
  BY <1>1

\* What is chosen are hosts, and with space to write to.
LEMMA ChosenAre ==
  ASSUME SearchInv, si.pc = "select", NEW rs \in Results, NEW chosen, chosen = SubSeq(rs, 1, Chosen)
  PROVE  chosen \in Seq(Hosts) /\ (si.write => \A i \in 1..Len(chosen) : host[chosen[i]].disk >= MinDisk)
<1>1. /\ CountedAs(si, host) /\ AvailableHosts = Av(host)
      /\ \A h \in Hosts : host[h].disk \in Nat /\ (si.write /\ host[h].available => host[h].statfs)
  BY AtSelect
<1>2. PICK S, k, m : S = Av(host) /\ k = Chosen /\ m = Cardinality(S)
  OBVIOUS
<1>3. IsFiniteSet(S) /\ S \subseteq Hosts /\ m \in Nat
  BY <1>2, CountedFinite, FS_CardinalityType
<1>4. /\ rs \in Orders(S) /\ k \in Nat /\ k <= m
      /\ si.write => \A i \in 1..k : SubSeq(rs, 1, k)[i] = rs[i] /\ host[rs[i]].disk >= MinDisk
  <2>1. CASE si.write
    <3>1. \A h \in Hosts : host[h].disk \in Nat /\ (host[h].available => host[h].statfs)
      BY <1>1, <2>1
    <3>2. /\ rs \in Orders(Av(host)) /\ Chosen \in Nat /\ Chosen <= Cardinality(Av(host))
          /\ \A i \in 1..Chosen : SubSeq(rs, 1, Chosen)[i] = rs[i] /\ host[rs[i]].disk >= MinDisk
      BY <1>1, <2>1, <3>1, ResultsHaveSpace
    <3> QED
      BY <1>2, <3>2
  <2>2. CASE ~si.write
    <3>1. rs \in Orders(S)
      BY <1>1, <1>2, <2>2 DEF Results, Sorted
    <3>2. si.available = m
      BY <1>1, <1>2 DEF CountedAs
    <3>3. k \in Nat /\ k <= m
      <4>1. Desired \in Nat
        BY SearchAssumption
      <4> QED
        BY <1>2, <1>3, <2>2, <3>2, <4>1 DEF Chosen
    <3> QED
      BY <2>2, <3>1, <3>3
  <2> QED
    BY <2>1, <2>2
<1>5. rs \in Seq(S) /\ Len(rs) = m
  <2>1. rs \in [1..m -> S]
    BY <1>2, <1>4, OrderOf
  <2> QED
    BY <1>3, <2>1
<1>6. chosen = SubSeq(rs, 1, k)
  BY <1>2
<1>7. chosen \in Seq(S) /\ Len(chosen) = k
  <2>1. rs \in Seq(S) /\ k \in Nat /\ k <= Len(rs)
    BY <1>4, <1>5
  <2>2. SubSeq(rs, 1, k) \in Seq(S) /\ Len(SubSeq(rs, 1, k)) = k
    BY <2>1, FirstOnes
  <2> QED
    BY <1>6, <2>2
<1>8. chosen \in Seq(Hosts)
  BY <1>3, <1>7
<1>9. ASSUME si.write, NEW i \in 1..Len(chosen)
      PROVE  host[chosen[i]].disk >= MinDisk
  <2>1. i \in 1..k
    BY <1>7, <1>9
  <2>2. chosen[i] = rs[i] /\ host[rs[i]].disk >= MinDisk
    BY <1>4, <1>6, <1>9, <2>1
  <2> QED
    BY <2>2
<1> QED
  BY <1>8, <1>9

LEMMA SelectHostsKeeps ==
  ASSUME SearchInv, SelectHosts
  PROVE  SearchInv'
<1>1. HostsOk(host) /\ NetsOk(net, out) /\ StateOk(si) /\ si.pc = "select" /\ si.searches \in Nat
  BY DEF SearchInv, SearchOk, SelectHosts, StateOk
<1>2. Underway(out) = {} /\ UNCHANGED <<net, out>>
  BY <1>1, AtSelect DEF SelectHosts
<1>3. PICK H, t : H = host' /\ t = si'
  OBVIOUS
<1>4. ASSUME NEW chosen \in Seq(Hosts), si.write => \A i \in 1..Len(chosen) : host[chosen[i]].disk >= MinDisk,
             t = NotSearching(si.mode, si.searches, si.faults, si.write, chosen),
             HostsOk(H), \A h \in Hosts : H[h].disk = host[h].disk
      PROVE  SearchInv'
  <2>1. /\ DOMAIN t = SearchFields /\ t.pc = "idle" /\ t.phase = "local" /\ t.write = si.write /\ t.cand = {}
        /\ t.nets = {} /\ t.left = {} /\ t.todo = {} /\ t.pass = {} /\ t.cursor = [n \in Range(Nets) |-> {}]
        /\ t.searches = si.searches /\ t.chosen = chosen
        /\ t.available = 0 /\ t.usable = 0 /\ t.idle = 0 /\ t.semi = 0
    BY <1>4 DEF NotSearching, SearchFields
  <2>2. StateOk(t)
    <3>1. DOMAIN t.cursor = Range(Nets) /\ \A n \in Range(Nets) : t.cursor[n] = {}
      BY <2>1
    <3> QED
      BY <1>1, <2>1, <3>1 DEF StateOk, TryingHosts, Cursing, Passing
  <2>3. AvOk(t, H) /\ Quiet(t, out) /\ UnderwayOk(t, H, out)
    BY <1>2, <2>1 DEF AvOk, Quiet, UnderwayOk
  <2>4. ChosenOk(t, H)
    <3>1. \A i \in 1..Len(chosen) : chosen[i] \in Hosts
      OBVIOUS
    <3> QED
      BY <1>4, <2>1, <3>1 DEF ChosenOk
  <2> QED
    BY <1>1, <1>2, <1>3, <1>4, <2>2, <2>3, <2>4 DEF SearchInv, SearchOk
<1>5. CASE si.usable = 0
  <2>1. H = host /\ t = NotSearching(si.mode, si.searches, si.faults, si.write, <<>>)
    BY <1>3, <1>5 DEF SelectHosts
  <2>2. <<>> \in Seq(Hosts) /\ Len(<<>>) = 0
    OBVIOUS
  <2>3. \A i \in 1..Len(<<>>) : FALSE
    OBVIOUS
  <2> QED
    BY <1>1, <1>4, <2>1, <2>2, <2>3
<1>6. CASE si.usable # 0
  <2>1. PICK rs \in Results :
          /\ t = NotSearching(si.mode, si.searches, si.faults, si.write, SubSeq(rs, 1, Chosen))
          /\ H = [h \in Hosts |-> IF h \in Range(SubSeq(rs, 1, Chosen))
                                  THEN [host[h] EXCEPT !.scheduled = @ + 1] ELSE host[h]]
    BY <1>3, <1>6 DEF SelectHosts
  <2>2. PICK chosen : chosen = SubSeq(rs, 1, Chosen)
    OBVIOUS
  <2>3. chosen \in Seq(Hosts) /\ (si.write => \A i \in 1..Len(chosen) : host[chosen[i]].disk >= MinDisk)
    BY <1>1, <2>2, ChosenAre
  <2>4. DOMAIN H = Hosts /\ \A h \in Hosts : H[h] = IF h \in Range(chosen)
                                            THEN [host[h] EXCEPT !.scheduled = @ + 1] ELSE host[h]
    BY <2>1, <2>2
  <2>5. \A h \in Hosts : /\ DOMAIN H[h] = HostFields /\ H[h].disk = host[h].disk /\ H[h].load = host[h].load
                         /\ H[h].scheduled \in Nat /\ H[h].available = host[h].available /\ H[h].used = host[h].used
    <3>1. TAKE h \in Hosts
    <3>2. DOMAIN host[h] = HostFields /\ host[h].scheduled \in Nat
      BY <1>1 DEF HostsOk
    <3>3. CASE h \in Range(chosen)
      <4>1. H[h] = [host[h] EXCEPT !.scheduled = @ + 1]
        BY <2>4, <3>3
      <4> QED
        BY <3>2, <4>1 DEF HostFields
    <3>4. CASE h \notin Range(chosen)
      BY <2>4, <3>2, <3>4
    <3> QED
      BY <3>3, <3>4
  <2>6. HostsOk(H)
    BY <1>1, <2>4, <2>5 DEF HostsOk
  <2> QED
    BY <1>4, <2>1, <2>2, <2>3, <2>5, <2>6
<1> QED
  BY <1>5, <1>6

LEMMA InitHolds == SearchInit => SearchInv
<1> SUFFICES ASSUME SearchInit
             PROVE  SearchInv
  OBVIOUS
<1>1. HostsOk(host)
  BY DEF SearchInit, HostsOk, HostFields
<1>2. NetsOk(net, out) /\ Underway(out) = {}
  <2>1. /\ DOMAIN net = Range(Nets) /\ DOMAIN out = Hosts
        /\ \A n \in Range(Nets) : DOMAIN net[n] = {"rtt", "ongoing"} /\ net[n].ongoing = 0
        /\ \A h \in Hosts : out[h].request = "none" /\ DOMAIN out[h] = {"request", "record"}
    BY DEF SearchInit, NoRequest
  <2>2. \A n : UnderwayIn(out, n) = {}
    BY <2>1 DEF UnderwayIn
  <2>3. \A n : Cardinality(UnderwayIn(out, n)) = 0
    BY <2>2, FS_EmptySet
  <2> QED
    BY <2>1, <2>3 DEF NetsOk, Underway
<1>3. PICK mode \in Modes : si = NotSearching(mode, 0, MaxFails, FALSE, <<>>)
  BY DEF SearchInit
<1>4. /\ DOMAIN si = SearchFields /\ si.pc = "idle" /\ si.phase = "local" /\ si.write = FALSE /\ si.cand = {}
      /\ si.nets = {} /\ si.left = {} /\ si.todo = {} /\ si.pass = {} /\ si.cursor = [n \in Range(Nets) |-> {}]
      /\ si.searches = 0 /\ si.chosen = <<>>
      /\ si.available = 0 /\ si.usable = 0 /\ si.idle = 0 /\ si.semi = 0
  BY <1>3 DEF NotSearching, SearchFields
<1>5. StateOk(si)
  <2>1. DOMAIN si.cursor = Range(Nets) /\ \A n \in Range(Nets) : si.cursor[n] = {}
    BY <1>4
  <2> QED
    BY <1>4, <2>1 DEF StateOk, TryingHosts, Cursing, Passing
<1>6. Quiet(si, out) /\ UnderwayOk(si, host, out) /\ AvOk(si, host)
  BY <1>2, <1>4 DEF Quiet, UnderwayOk, AvOk
<1>7. ChosenOk(si, host)
  <2>1. <<>> \in Seq(Hosts)
    OBVIOUS
  <2>2. ~si.write
    BY <1>4
  <2> QED
    BY <1>4, <2>1, <2>2 DEF ChosenOk
<1> QED
  BY <1>1, <1>2, <1>5, <1>6, <1>7 DEF SearchInv, SearchOk

LEMMA StepKeeps == SearchInv /\ PlanOk /\ [SearchNext]_searchvars => SearchInv' /\ PlanOk'
<1>1. ASSUME SearchInv, UNCHANGED searchvars
      PROVE  SearchInv'
  <2>1. host' = host /\ net' = net /\ out' = out /\ si' = si
    BY <1>1 DEF searchvars
  <2>2. SearchOk(si, host, net, out)
    BY <1>1 DEF SearchInv
  <2> QED
    BY <2>1, <2>2 DEF SearchInv
<1>2. ASSUME SearchInv, SearchStep
      PROVE  SearchInv'
  BY <1>2, SeeKeeps, TryNextKeeps, ForgetKeeps, ExamineRttKeeps, ExamineNetKeeps, CursorKeeps, PassingKeeps,
     ByRttKeeps, NextNetsKeeps, SelectHostsKeeps, TurnKeeps DEF SearchStep
<1>3. ASSUME SearchInv, SearchEvent
      PROVE  SearchInv'
  BY <1>3, LoadKeeps, ConnectKeeps, StatfsKeeps DEF SearchEvent
<1>4. ASSUME SearchInv, PlanOk, NEW up \in Range(plan), NEW old \in Olds, NEW info \in Infos,
             NEW write \in BOOLEAN, gfarm_schedule_select_host(up, old, info, write)
      PROVE  SearchInv'
  <2>1. up \in SUBSET Hosts
    BY <1>4 DEF PlanOk, Range
  <2> QED
    BY <1>4, <2>1, SelectKeeps
<1>5. ASSUME SearchInv, NEW hs \in Range(plan), gfarm_schedule_host_cache_reset(hs)
      PROVE  SearchInv'
  BY <1>5, ResetKeeps
<1>6. [SearchNext]_searchvars => plan' = plan
  BY DEF SearchNext, SearchStep, SearchEvent, gfarm_schedule_select_host,
         gfarm_schedule_host_cache_reset, searchvars
<1> QED
  BY <1>1, <1>2, <1>3, <1>4, <1>5, <1>6 DEF SearchNext, PlanOk

\* What search_idle keeps, at every point of a search (schedule.c): the counters are those
\* of the hosts marked available, which have been tried or cached, and a request is made
\* once, of a host not counted, and accounted for in "ongoing".
THEOREM SearchInvariant == SearchSpec => []SearchInv
<1>1. SearchInit => PlanOk
  BY SearchAssumption DEF SearchInit, PlanOk
<1> QED
  BY <1>1, InitHolds, StepKeeps, PTL DEF SearchSpec

\* search_idle counts right and leaves nothing behind, for any hosts, networks and limits:
\* its assertions hold, and no callback is left when gfarm_schedule_select_host returns.
THEOREM SearchKeepsCount == SearchSpec => []SearchAsserts
<1>1. SearchInv => SearchAsserts
  <2> SUFFICES ASSUME SearchInv
               PROVE  SearchAsserts
    OBVIOUS
  <2>1. CountsAgree
    <3> SUFFICES ASSUME si.pc = "select"
                 PROVE  /\ si.available = Cardinality(AvailableHosts)
                        /\ si.usable = Cardinality({h \in AvailableHosts : HostUsable(host, h)})
                        /\ si.idle <= si.usable /\ si.semi <= si.usable
      BY DEF CountsAgree
    <3>1. CountedAs(si, host) /\ AvailableHosts = Av(host)
      BY AtSelect
    <3>2. PICK w, H : w = si.write /\ H = host
      OBVIOUS
    <3>3. {h \in AvailableHosts : HostUsable(host, h)} = UsableOf(w, H)
      BY <3>1, <3>2 DEF UsableOf, HostUsable
    <3>4. /\ si.available = Cardinality(Av(H)) /\ si.usable = Cardinality(UsableOf(w, H))
          /\ si.idle = Cardinality(IdleOf(w, H)) /\ si.semi = Cardinality(SemiOf(w, H))
      BY <3>1, <3>2 DEF CountedAs
    <3>5. /\ Cardinality(IdleOf(w, H)) <= Cardinality(UsableOf(w, H))
          /\ Cardinality(SemiOf(w, H)) <= Cardinality(UsableOf(w, H))
      BY CountedFinite, FS_Subset
    <3> QED
      BY <3>1, <3>2, <3>3, <3>4, <3>5
  <2>2. NoneLeft
    <3> SUFFICES ASSUME si.pc \in {"idle", "select"}
                 PROVE  Outstanding = {} /\ \A n \in Range(Nets) : net[n].ongoing = 0
      BY DEF NoneLeft
    <3>1. Underway(out) = {} /\ NetsOk(net, out)
      BY DEF SearchInv, SearchOk, Quiet
    <3>2. \A n : UnderwayIn(out, n) = {}
      BY <3>1 DEF Underway, UnderwayIn
    <3>3. \A n : Cardinality(UnderwayIn(out, n)) = 0
      BY <3>2, FS_EmptySet
    <3> QED
      BY <3>1, <3>3 DEF NetsOk, Outstanding, Underway
  <2> QED
    BY <2>1, <2>2 DEF SearchAsserts
<1> QED
  BY <1>1, SearchInvariant, PTL

\* A host that gfarm_schedule_select_host chooses to write to has the free space it takes,
\* whatever the order in which the requests were answered and whatever was cached.
THEOREM ChosenHosts == SearchSpec => []ChosenHaveSpace
<1>1. SearchInv => ChosenHaveSpace
  <2> SUFFICES ASSUME SearchInv, si.pc = "idle", si.write
               PROVE  \A h \in Range(si.chosen) : host[h].disk >= MinDisk
    BY DEF ChosenHaveSpace
  <2>1. si.chosen \in Seq(Hosts) /\ \A i \in 1..Len(si.chosen) : host[si.chosen[i]].disk >= MinDisk
    BY DEF SearchInv, SearchOk, ChosenOk
  <2> QED
    BY <2>1 DEF Range
<1> QED
  BY <1>1, SearchInvariant, PTL

=============================================================================
