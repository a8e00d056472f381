----------------------------- MODULE ConnCache ------------------------------
(* The cache of connections of libgfarm (conn_cache.c over lru_cache.c), as *)
(* gfs_client.c and gfm_client.c use it: connections are counted references,*)
(* found by server in a hash table, and the ones nobody holds are kept, the *)
(* least recently used going first.                                         *)
EXTENDS Integers, Sequences, FiniteSets, SequencesExt

CONSTANTS Server,     \* keys of the hash table: host, port and user
          Conn,       \* struct gfp_cached_connection
          NumCache,   \* *cache->num_cachep
          MaxHeld,    \* bound: references a program holds to one connection
          NoConn      \* no entry in the hash table

ASSUME CacheAssumption == /\ Server # {} /\ NumCache \in Nat
                          /\ MaxHeld \in Nat \ {0}
                          /\ NoConn \notin Conn

VARIABLES cache,  \* struct gfp_conn_cache and its entries: hash, lru (head first),
                  \* free (free_cached_entries), and of each connection its state st,
                  \* its key, acquired, and whether hash_entry is set (cached)
          held,   \* how many references the program holds
          uses,   \* history: the connections, the one used or entered last first
          over    \* "no", "abort" or "terminated"

cvars == <<cache, held, uses, over>>

(***************************************************************************)
(* Lists that hold everything once                                         *)
(***************************************************************************)
Rank(s, c) == CHOOSE i \in DOMAIN s : s[i] = c

\* What is left of s without R, in the order of s.
IsLeft(q, s, R) == /\ ToSet(q) = ToSet(s) \ R
                   /\ \A i, j \in DOMAIN q : i < j => Rank(s, q[i]) < Rank(s, q[j])

Without(s, R) ==
  LET S == ToSet(s) \ R
  IN  CHOOSE q \in [1..Cardinality(S) -> S] : IsLeft(q, s, R)

(***************************************************************************)
(* lru_cache.c                                                             *)
(***************************************************************************)
Unlink(k, c) == [k EXCEPT !.lru = Without(@, {c})]

Link(k, c) == [k EXCEPT !.lru = <<c>> \o @]

\* gfarm_lru_cache_access_entry: to the head of the list.
Access(k, c) == Link(Unlink(k, c), c)

\* gfarm_lru_cache_addref_entry.
Addref(k, c) ==
  Access([k EXCEPT !.acquired[c] = @ + 1,
                   !.free = IF k.acquired[c] = 0 THEN @ - 1 ELSE @], c)

\* Mutant: an entry that was purged counts as free.
DelrefPurged(k, c) ==
  LET n == k.acquired[c] - 1
  IN  [k EXCEPT !.acquired[c] = n, !.free = IF n = 0 THEN @ + 1 ELSE @]

\* gfarm_lru_cache_delref_entry: an entry of the list that nobody holds is free now.
Delref(k, c) ==
  LET n == k.acquired[c] - 1
  IN  [k EXCEPT !.acquired[c] = n,
                !.free = IF n = 0 /\ c \in ToSet(k.lru) THEN @ + 1 ELSE @]

(***************************************************************************)
(* conn_cache.c                                                            *)
(***************************************************************************)
\* gfp_conn_hash_purge and hash_entry = NULL.
Unhash(k, c) == [k EXCEPT !.hash[k.key[c]] = NoConn, !.cached[c] = FALSE]

\* gfp_cached_connection_purge_from_cache.
PurgeFromCache(k, c) == IF k.cached[c] THEN Unhash(Unlink(k, c), c) ELSE k

Dispose(k, c) == [k EXCEPT !.st[c] = "freed"]

\* The connections in G go: each is unlinked, taken out of the hash table, disposed of.
Drop(k, G) == [k EXCEPT !.lru    = Without(@, G),
                        !.hash   = [s \in Server |-> IF \E c \in G : k.key[c] = s THEN NoConn ELSE @[s]],
                        !.cached = [c \in Conn |-> @[c] /\ c \notin G],
                        !.st     = [c \in Conn |-> IF c \in G THEN "freed" ELSE @[c]]]

\* The entries gc may let go: nobody holds them.
Unheld(k) == {c \in ToSet(k.lru) : k.acquired[c] <= 0}

\* Mutant: from the head.
Newest(k, n) == CHOOSE G \in SUBSET Unheld(k) :
                  /\ Cardinality(G) = n
                  /\ \A c \in G, d \in Unheld(k) \ G : Rank(k.lru, c) < Rank(k.lru, d)

\* The first n of them from the tail of the list.
Oldest(k, n) == CHOOSE G \in SUBSET Unheld(k) :
                  /\ Cardinality(G) = n
                  /\ \A c \in G, d \in Unheld(k) \ G : Rank(k.lru, d) < Rank(k.lru, c)

\* How many turns of its loop let an entry go, until the target or the head of the list
\* is reached.
Turns(k, target) ==
  LET more == k.free - target
      most == Cardinality(Unheld(k))
  IN  IF more <= 0 THEN 0 ELSE IF more <= most THEN more ELSE most

\* gfarm_lru_cache_gc: what has gone when its loop stops.
Gc(k, target) == [Drop(k, Oldest(k, Turns(k, target))) EXCEPT !.free = @ - Turns(k, target)]

\* Where gc runs through the list without reaching its target, it aborts.
Aborts(k, target) == k.free - Turns(k, target) > target

\* A new entry, held once.
Enter(k, c, s) == [k EXCEPT !.st[c] = "live", !.key[c] = s, !.acquired[c] = 1]

Hash(k, c) == [Link(k, c) EXCEPT !.hash[k.key[c]] = c, !.cached[c] = TRUE]

Unused == {c \in Conn : cache.st[c] # "live"}

Use(c) == uses' = <<c>> \o Without(uses, {c})

(***************************************************************************)
(* The program                                                             *)
(***************************************************************************)
\* gfs_client_connection_acquire, of a cached connection.
AcquireCached(s) ==
  LET c == cache.hash[s]
  IN  /\ c # NoConn
      /\ held[c] < MaxHeld
      /\ cache' = Addref(cache, c)
      /\ held' = [held EXCEPT ![c] = @ + 1]
      /\ Use(c)
      /\ UNCHANGED over

\* ... of a new one, whose socket may need the descriptors of the free ones.
AcquireNew(s) ==
  /\ cache.hash[s] = NoConn
  /\ \E c \in Unused, gc \in BOOLEAN :
       LET k == Hash(Enter(cache, c, s), c)
       IN  /\ cache' = IF gc THEN Gc(k, 0) ELSE k
           /\ over' = IF gc /\ Aborts(k, 0) THEN "abort" ELSE over
           /\ held' = [held EXCEPT ![c] = 1]
           /\ Use(c)

\* The connection or its authentication failed: purged and disposed of.
AcquireFailed(s) ==
  /\ cache.hash[s] = NoConn
  /\ \E c \in Unused, gc \in BOOLEAN :
       LET k == Hash(Enter(cache, c, s), c)
           j == IF gc THEN Gc(k, 0) ELSE k
       IN  /\ cache' = Dispose(PurgeFromCache(j, c), c)
           /\ over' = IF gc /\ Aborts(k, 0) THEN "abort" ELSE over
  /\ UNCHANGED <<held, uses>>

\* gfs_client_connect and gfs_client_connect_request_multiplexed.
ConnectUncached(s) == \E c \in Unused :
                        /\ cache' = Enter(cache, c, s)
                        /\ held' = [held EXCEPT ![c] = 1]
                        /\ Use(c)
                        /\ UNCHANGED over

\* gfs_client_connection_enter_cache: it stays uncached if there is one.
EnterCache(c) == /\ held[c] > 0
                 /\ ~cache.cached[c]
                 /\ IF cache.hash[cache.key[c]] = NoConn
                    THEN cache' = Hash(cache, c) /\ Use(c)
                    ELSE UNCHANGED <<cache, uses>>
                 /\ UNCHANGED <<held, over>>

\* A remote procedure call: gfs_client_connection_used.
Rpc(c) == /\ held[c] > 0
          /\ cache' = IF cache.cached[c] THEN Access(cache, c) ELSE cache
          /\ Use(c)
          /\ UNCHANGED <<held, over>>

\* One that ends in a connection error.
RpcFailed(c) == /\ held[c] > 0
                /\ cache' = PurgeFromCache(cache, c)
                /\ UNCHANGED <<held, uses, over>>

\* gfs_client_connection_free.
Free(c) ==
  /\ held[c] > 0
  /\ held' = [held EXCEPT ![c] = @ - 1]
  /\ LET k == Delref(cache, c)
         gc == k.acquired[c] <= 0 /\ k.cached[c]
     IN  /\ cache' = IF k.acquired[c] > 0 THEN k
                     ELSE IF gc THEN Gc(k, NumCache)
                     ELSE Dispose(k, c)
         /\ over' = IF k.acquired[c] < 0 \/ (gc /\ Aborts(k, NumCache)) THEN "abort" ELSE over
  /\ UNCHANGED uses

\* gfs_client_terminate, from gfarm_terminate: the cached connections go, held or not.
Terminate ==
  LET k == Gc(cache, 0)
  IN  /\ cache' = Drop(k, {k.hash[s] : s \in Server} \ {NoConn})
      /\ over' = IF Aborts(cache, 0) THEN "abort" ELSE "terminated"
      /\ UNCHANGED <<held, uses>>

CInit == /\ cache = [hash |-> [s \in Server |-> NoConn], lru |-> <<>>, free |-> 0,
                     st |-> [c \in Conn |-> "none"], key |-> [c \in Conn |-> CHOOSE s \in Server : TRUE],
                     acquired |-> [c \in Conn |-> 0], cached |-> [c \in Conn |-> FALSE]]
         /\ held = [c \in Conn |-> 0]
         /\ uses = <<>>
         /\ over = "no"

CNext == /\ over = "no"
         /\ \/ \E s \in Server : \/ AcquireCached(s) \/ AcquireNew(s) \/ AcquireFailed(s)
                                 \/ ConnectUncached(s)
            \/ \E c \in Conn : EnterCache(c) \/ Rpc(c) \/ RpcFailed(c) \/ Free(c)
            \/ Terminate

CSpec == CInit /\ [][CNext]_cvars

(***************************************************************************)
(* Properties                                                              *)
(***************************************************************************)
Idle(k) == {c \in ToSet(k.lru) : k.acquired[c] = 0}

\* free_cached_entries counts the entries of the list that nobody holds.
FreeCounted == cache.free = Cardinality(Idle(cache))

\* The hash table finds exactly the connections in the list, each by its key
\* and once.
CacheAgrees == /\ \A c \in Conn : cache.cached[c] <=> c \in ToSet(cache.lru)
               /\ \A c \in ToSet(cache.lru) : cache.hash[cache.key[c]] = c
               /\ \A s \in Server : cache.hash[s] # NoConn =>
                    cache.hash[s] \in ToSet(cache.lru) /\ cache.st[cache.hash[s]] = "live"
               /\ Len(cache.lru) = Cardinality(ToSet(cache.lru))

\* No connection goes while someone holds it, and one that nobody holds and
\* the cache does not know is gone: purged after an error, refused by
\* enter_cache, or never cached (gfp_cached_or_uncached_connection_free).
References == \A c \in Conn :
                /\ cache.st[c] = "live" => held[c] = cache.acquired[c]
                /\ cache.st[c] = "live" <=> held[c] > 0 \/ cache.cached[c]

\* The counter, the list, the hash table and the references agree whatever is
\* purged, refused or evicted while it is held: a disagreement would make delref
\* or gc abort ("This shouldn't happen", lru_cache.c:116), or hand out a
\* connection that was disposed of, long after the call that caused it.
CacheConsistent == over # "abort" /\ (over = "no" => FreeCounted /\ CacheAgrees /\ References)

\* free keeps at most NumCache idle connections and drops one only if the ones
\* it keeps were used later.
LeastRecentlyUsed ==
  [][over' = "no" /\ held' # held /\ (\A c \in Conn : held'[c] <= held[c]) =>
       /\ Cardinality(Idle(cache')) <= NumCache
       /\ \A c \in ToSet(cache.lru) \ ToSet(cache'.lru), d \in Idle(cache') :
            Rank(uses, d) < Rank(uses, c)]_cvars
=============================================================================
