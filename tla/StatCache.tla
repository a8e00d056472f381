------------------------------ MODULE StatCache ------------------------------
(* The cache of file attributes (gfs_dircache.c), filled by stat and by     *)
(* reading directories with their attributes ahead (gfs_dirplus.c), while   *)
(* other clients change the files. One program, so each call is one action; *)
(* time passes, and files change, between them.                             *)
EXTENDS Integers, Sequences, FiniteSets, SequencesExt

CONSTANTS Listing,     \* the directory: a sequence of names, in the server's order
          Fixed,       \* the names whose attributes nobody changes, like "."
          Block,       \* DIRENTSPLUS_BUFCOUNT
          CacheLimit,  \* gfarm_attr_cache_limit
          Timeout,     \* gfarm_attr_cache_timeout
          Lifespans,   \* the arguments of gfs_stat_cache_expiration_set
          MaxTime,     \* bound of the clock
          MaxVersion,  \* bound of the changes of a file
          MaxNoMemory  \* bound: how often memory runs out

\* With a limit of 0 the head of the empty list would be removed as an entry
\* (gfs_dircache.c:158).
ASSUME StatCacheAssumption == /\ CacheLimit \in Nat \ {0} /\ Block \in Nat \ {0}
                              /\ Lifespans \cup {Timeout} \subseteq Nat
                              /\ Listing \in Seq(ToSet(Listing))

Name == ToSet(Listing)

VARIABLES files,  \* on the metadata server: time, and ver, where 0 says that there is no such file
          sc,     \* the cache: list (oldest first), hash (name to attributes and
                  \* expiration), count, lifespan, lifespanSet, ready, and how often
                  \* memory ran out
          dp,     \* GFS_DirPlus: open, buf, index, lost, and the server's position pos
          seen    \* history: what the last call that is not answered from the cache
                  \* returned of a name, when, and whether it was to be entered; <<>>
                  \* after a purge, and when the name is not in the cache

scvars == <<files, sc, dp, seen>>

Closed == [open |-> FALSE, buf |-> <<>>, index |-> 0, pos |-> 0, lost |-> FALSE]

StatCacheInit ==
  /\ files = [time |-> 0, ver |-> [f \in Name |-> 1]]
  /\ sc = [list |-> <<>>, hash |-> <<>>, count |-> 0, lifespan |-> 0, lifespanSet |-> FALSE,
           ready |-> FALSE, nomem |-> 0]
  /\ dp = Closed
  /\ seen = [f \in Name |-> <<>>]

(***************************************************************************)
(* The list and the hash table                                             *)
(***************************************************************************)
Unhashed(c, names) == [c EXCEPT !.hash = Restrict(@, DOMAIN @ \ names)]

Place(s, f) == CHOOSE i \in DOMAIN s : s[i] = f

\* An entry leaves the list and the table.
Dropped(c, f) == [Unhashed(c, {f}) EXCEPT !.list = RemoveAt(@, Place(@, f)), !.count = @ - 1]

\* gfs_stat_cache_expire_internal: up to the first entry that has not expired,
\* "assumes monotonic time".
Expired(c, now) ==
  LET n == CHOOSE k \in 0..Len(c.list) :
             /\ \A i \in 1..k : c.hash[c.list[i]].expiration <= now
             /\ k < Len(c.list) => c.hash[c.list[k + 1]].expiration > now
  IN  [Unhashed(c, ToSet(SubSeq(c.list, 1, n))) EXCEPT
         !.list = SubSeq(@, n + 1, Len(@)), !.count = @ - n]

\* gfs_stat_cache_init: "always reflect gfarm_attr_cache_timeout".
Initialized(c) == [c EXCEPT !.ready = TRUE, !.lifespan = IF c.lifespanSet THEN @ ELSE Timeout]

Ready(c) == IF c.ready THEN c ELSE Initialized(c)

\* The entry goes to the end of the list, new or not.
Entered(c, f, ver, now) ==
  LET b == IF f \in DOMAIN c.hash THEN Dropped(c, f) ELSE c
  IN  [b EXCEPT !.list = Append(@, f),
                !.hash = [e \in DOMAIN @ \cup {f} |->
                            IF e = f THEN [ver |-> ver, expiration |-> now + c.lifespan] ELSE @[e]],
                !.count = @ + 1]

\* What expired goes, and when the cache is full its oldest entry.
Room(c, now) ==
  LET b == Expired(Ready(c), now)
  IN  IF b.count >= CacheLimit THEN Dropped(b, Head(b.list)) ELSE b

\* It may run out anywhere; an entry that is in the table needs no new one.
Memory(c, f) ==
  {"no"} \cup (IF c.nomem < MaxNoMemory
               THEN {"copy"} \cup (IF f \in DOMAIN c.hash THEN {} ELSE {"hash"}) ELSE {})

\* gfs_stat_cache_enter_internal, where there is Room; nomem says where memory runs
\* out: "hash", for a new entry of the table, or "copy", for the attributes, the old
\* ones being freed.
EnterInternal(c, f, ver, now, nomem) ==
  CASE nomem = "no"   -> Entered(c, f, ver, now)
    [] nomem = "hash" -> [c EXCEPT !.nomem = @ + 1]
    [] nomem = "copy" -> [IF f \in DOMAIN c.hash THEN Dropped(c, f) ELSE c EXCEPT !.nomem = @ + 1]

\* Of names that are not in the cache nothing need be known.
SeenIn(c) == [f \in Name |-> IF f \in DOMAIN c.hash THEN seen[f] ELSE <<>>]

\* The caller is told the attributes, and it is tried to enter them: "it's ok to fail".
Observed(c, f, ver) ==
  /\ \E m \in Memory(Room(c, files.time), f) :
       LET n == EnterInternal(Room(c, files.time), f, ver, files.time, m)
       IN  /\ sc' = n
           /\ seen' = [SeenIn(n) EXCEPT ![f] =
                         IF f \in DOMAIN n.hash
                         THEN [ver |-> ver, at |-> files.time, entered |-> TRUE] ELSE <<>>]

\* There is no memory for the path of a directory entry: nothing is entered, and
\* what the cache has of it stays.
NotEntered(f, ver) ==
  /\ sc.nomem < MaxNoMemory
  /\ sc' = [sc EXCEPT !.nomem = @ + 1]
  /\ seen' = IF f \in DOMAIN sc.hash
             THEN [seen EXCEPT ![f] = [ver |-> ver, at |-> files.time, entered |-> FALSE]]
             ELSE seen

(***************************************************************************)
(* The calls                                                               *)
(***************************************************************************)
gfs_stat_cache_init == sc' = Initialized(sc) /\ UNCHANGED <<files, dp, seen>>

gfs_stat_cache_clear ==
  /\ sc' = [sc EXCEPT !.list = <<>>, !.hash = <<>>, !.count = 0]
  /\ seen' = [f \in Name |-> <<>>]
  /\ UNCHANGED <<files, dp>>

gfs_stat_cache_expire ==
  /\ sc' = Expired(sc, files.time)
  /\ seen' = SeenIn(sc')
  /\ UNCHANGED <<files, dp>>

\* Mutant: what is cached keeps its expiration.
expiration_set_later(span) ==
  /\ sc' = [sc EXCEPT !.lifespanSet = TRUE, !.lifespan = span]
  /\ UNCHANGED <<files, dp, seen>>

\* The expiration of what is cached moves with the lifespan.
Moved(c, span) ==
  [f \in DOMAIN c.hash |-> [c.hash[f] EXCEPT !.expiration = @ - c.lifespan + span]]

gfs_stat_cache_expiration_set(span) ==
  /\ sc' = [sc EXCEPT !.lifespanSet = TRUE, !.lifespan = span, !.hash = Moved(sc, span)]
  /\ UNCHANGED <<files, dp, seen>>

\* What a program calls after it changed the file itself.
gfs_stat_cache_purge(f) ==
  /\ sc.ready
  /\ LET c == Expired(sc, files.time)
     IN  sc' = IF f \in DOMAIN c.hash THEN Dropped(c, f) ELSE c
  /\ seen' = [SeenIn(sc') EXCEPT ![f] = <<>>]
  /\ UNCHANGED <<files, dp>>

\* gfs_stat_caching; a stat that fails leaves the cache as it is.
gfs_stat_caching(f) ==
  /\ files.ver[f] # 0
  /\ Observed(sc, f, files.ver[f])
  /\ UNCHANGED <<files, dp>>

\* gfs_stat_cached, of a name in the cache, or not.
gfs_stat_cached(f) ==
  /\ LET c == Expired(Ready(sc), files.time)
     IN  IF f \notin DOMAIN c.hash /\ files.ver[f] # 0
         THEN Observed(c, f, files.ver[f])
         ELSE sc' = c /\ seen' = SeenIn(c)
  /\ UNCHANGED <<files, dp>>

\* gfs_opendir_caching.
gfs_opendir_caching ==
  /\ ~dp.open
  /\ dp' = [Closed EXCEPT !.open = TRUE]
  /\ UNCHANGED <<files, sc, seen>>

\* The places of the listing behind pos that hold a file, and the n-th of them.
There == {i \in dp.pos + 1 .. Len(Listing) : files.ver[Listing[i]] # 0}
Nth(S, n) == CHOOSE i \in S : Cardinality({j \in S : j <= i}) = n

\* The next block: what there is, with the attributes of now.
NextBlock ==
  [n \in 1..(IF Cardinality(There) < Block THEN Cardinality(There) ELSE Block) |->
     LET f == Listing[Nth(There, n)] IN [name |-> f, ver |-> files.ver[f]]]

Handed(d) == [d EXCEPT !.index = @ + 1]

\* gfs_readdirplus: from the buffer, which is filled when it has been handed out.
Filled(d) ==
  IF d.index < Len(d.buf) THEN d
  ELSE LET b == NextBlock
       IN  [d EXCEPT !.buf = b, !.index = 0, !.pos = IF b = <<>> THEN @ ELSE Nth(There, Len(b))]

\* gfs_readdir_caching_internal: the attributes of an entry are entered under
\* its path, and stay for a lifespan from now, whenever their block was read.
gfs_readdir_caching ==
  /\ dp.open /\ (dp.index < Len(dp.buf) \/ ~dp.lost)
  /\ LET d == Filled(dp)
     IN  IF d.buf = <<>> THEN dp' = d /\ UNCHANGED <<sc, seen>>
         ELSE /\ dp' = Handed(d)
              /\ LET b == d.buf[d.index + 1]
                 IN  Observed(sc, b.name, b.ver) \/ NotEntered(b.name, b.ver)
  /\ UNCHANGED files

\* The connection is lost when the next block is asked for: the buffer is cleared.
gfs_readdir_caching_failed ==
  /\ dp.open /\ ~dp.lost /\ dp.index >= Len(dp.buf)
  /\ dp' = [dp EXCEPT !.buf = <<>>, !.index = 0, !.lost = TRUE]
  /\ UNCHANGED <<files, sc, seen>>

gfs_closedir_caching == dp.open /\ dp' = Closed /\ UNCHANGED <<files, sc, seen>>

\* Time passes, and another client changes, removes or creates a file.
Tick == files.time < MaxTime /\ files' = [files EXCEPT !.time = @ + 1] /\ UNCHANGED <<sc, dp, seen>>

Change(f) == /\ f \notin Fixed
             /\ \E v \in {0, files.ver[f] + 1} \ {files.ver[f]} :
                  v <= MaxVersion /\ files' = [files EXCEPT !.ver[f] = v]
             /\ UNCHANGED <<sc, dp, seen>>

StatCacheNext ==
  \/ gfs_stat_cache_init \/ gfs_stat_cache_clear \/ gfs_stat_cache_expire
  \/ \E span \in Lifespans : gfs_stat_cache_expiration_set(span)
  \/ \E f \in Name : gfs_stat_cache_purge(f) \/ gfs_stat_caching(f) \/ gfs_stat_cached(f) \/ Change(f)
  \/ gfs_opendir_caching \/ gfs_readdir_caching \/ gfs_readdir_caching_failed \/ gfs_closedir_caching
  \/ Tick

StatCacheSpec == StatCacheInit /\ [][StatCacheNext]_scvars

(***************************************************************************)
(* Properties                                                              *)
(***************************************************************************)
\* What a cached answer would be taken from now.
Live == Expired(sc, files.time)

\* The list, the table and the count agree, within the limit, and the list is in
\* the order of expiration, after every mixture of entering, moving, evicting,
\* changing the lifespan and running out of memory: expiring stops at the first
\* entry that has not expired, and must not leave one behind it.
ListAgrees ==
  /\ ToSet(sc.list) = DOMAIN sc.hash
  /\ sc.count = Len(sc.list) /\ sc.count = Cardinality(ToSet(sc.list)) /\ sc.count <= CacheLimit
  /\ \A i, j \in DOMAIN sc.list :
       i < j => sc.hash[sc.list[i]].expiration <= sc.hash[sc.list[j]].expiration

\* A cached answer is what the last call that went to the server returned of this
\* name, a stat or a directory entry, within the lifespan that holds now and not
\* before a purge (unless there was no memory for the path of that entry): the cache never goes back to older attributes, never outlives
\* a lifespan that was shortened and never brings back what was purged.
CachedIsLastSeen ==
  \A f \in DOMAIN Live.hash : /\ seen[f] # <<>>
                              /\ seen[f].entered => Live.hash[f].ver = seen[f].ver
                              /\ files.time < seen[f].at + sc.lifespan

\* Both, after every sequence of calls.
StatCacheRight == ListAgrees /\ CachedIsLastSeen
=============================================================================
