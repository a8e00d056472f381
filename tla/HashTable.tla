------------------------------ MODULE HashTable ------------------------------
(* hash.c, under the keys of conn_hash.c: chains of entries, and an iterator *)
(* that points to a link of a chain, so that it can take out the entry it is *)
(* at.  Two loops go over a table: one that looks at every entry             *)
(* (schedule.c), one that takes out every entry (conn_cache.c).              *)
EXTENDS Integers, Sequences, FiniteSets, SequencesExt

CONSTANTS HKeys,      \* keys: host names that may differ in case, users
          Fold,       \* what two keys must share to be equal
          BucketOf,   \* HASH_BUCKET, of what they share
          TableSize,
          MaxNoHeap   \* bound: allocations that fail

VARIABLES ht,    \* struct gfarm_hash_table: the chains, from 0; <<>> before the first call
          it,    \* struct gfarm_hash_iterator, and which loop it is in
          hist   \* history: the keys entered and not purged; those the loop has seen; failures

htvars == <<ht, it, hist>>

HChain(b) == ht[b + 1]

\* gfarm_hash_lookup_internal_search: the link where the key is, or the last.
LinkOf(key) ==
  LET chain == HChain(BucketOf[Fold[key]])
  IN  CHOOSE k \in 1 .. Len(chain) + 1 :
        /\ \A j \in 1 .. k - 1 : Fold[chain[j]] # Fold[key]
        /\ k = Len(chain) + 1 \/ Fold[chain[k]] = Fold[key]

InTable(key) == LinkOf(key) <= Len(HChain(BucketOf[Fold[key]]))

NoLoop == [loop |-> "none", bucket |-> 0, link |-> 1]

HashInit == /\ ht = <<>>
            /\ it = NoLoop
            /\ hist = [keys |-> {}, seen |-> {}, norooms |-> 0, twice |-> FALSE, left |-> {}]

\* gfp_conn_hash_table_init, by the first call that needs the table.
AllocTable ==
  /\ ht = <<>>
  /\ ht' = [b \in 1..TableSize |-> <<>>]
  /\ UNCHANGED <<it, hist>>

\* gfp_conn_hash_enter: the entry with this key, or a new one at the end of its chain.  When
\* the strings of the key cannot be copied the new entry is purged.
EnterKey(key) ==
  /\ ht # <<>> /\ it.loop = "none"
  /\ LET b == BucketOf[Fold[key]] + 1
     IN  \/ /\ ~InTable(key)
            /\ ht' = [ht EXCEPT ![b] = Append(@, key)]
            /\ hist' = [hist EXCEPT !.keys = @ \cup {Fold[key]}]
         \/ /\ ~InTable(key) /\ hist.norooms < MaxNoHeap
            /\ LET entered == Append(ht[b], key)
               IN  ht' = [ht EXCEPT ![b] = RemoveAt(entered, LinkOf(key))]
            /\ hist' = [hist EXCEPT !.norooms = @ + 1]
  /\ UNCHANGED it

\* gfp_conn_hash_purge.
PurgeKey(key) ==
  /\ ht # <<>> /\ it.loop = "none" /\ InTable(key)
  /\ ht' = [ht EXCEPT ![BucketOf[Fold[key]] + 1] = RemoveAt(@, LinkOf(key))]
  /\ hist' = [hist EXCEPT !.keys = @ \ {Fold[key]}]
  /\ UNCHANGED it

\* gfarm_hash_iterator_begin.
BeginLoop(loop) ==
  /\ ht # <<>> /\ it.loop = "none"
  /\ it' = [NoLoop EXCEPT !.loop = loop]
  /\ hist' = [hist EXCEPT !.seen = {}]
  /\ UNCHANGED ht

\* gfarm_hash_iterator_valid_entry: the next link with an entry; no more, if the bucket is
\* TableSize.
Valid(i) ==
  IF i.bucket >= TableSize \/ i.link <= Len(HChain(i.bucket)) THEN i
  ELSE LET later == {b \in i.bucket + 1 .. TableSize - 1 : HChain(b) # <<>>}
       IN  [i EXCEPT !.link = 1, !.bucket = IF later = {} THEN TableSize ELSE Min(later)]

Here(i) == HChain(i.bucket)[i.link]

Saw(key) == hist' = [hist EXCEPT !.seen = @ \cup {Fold[key]},
                                 !.twice = @ \/ Fold[key] \in hist.seen]

\* An entry is looked at; gfarm_hash_iterator_next.
LookAtEntry ==
  LET i == Valid(it)
  IN  /\ it.loop = "look" /\ i.bucket < TableSize
      /\ Saw(Here(i))
      /\ it' = [i EXCEPT !.link = @ + 1]
      /\ UNCHANGED ht

\* Mutant: the iterator goes on after it has taken out an entry.
TakeOutNext ==
  LET i == Valid(it)
  IN  /\ it.loop = "clear" /\ i.bucket < TableSize
      /\ Saw(Here(i))
      /\ ht' = [ht EXCEPT ![i.bucket + 1] = RemoveAt(@, i.link)]
      /\ it' = [i EXCEPT !.link = @ + 1]

\* gfp_conn_hash_iterator_purge: an entry is taken out, and the iterator stays.
TakeOut ==
  LET i == Valid(it)
  IN  /\ it.loop = "clear" /\ i.bucket < TableSize
      /\ Saw(Here(i))
      /\ ht' = [ht EXCEPT ![i.bucket + 1] = RemoveAt(@, i.link)]
      /\ it' = i

\* gfarm_hash_iterator_is_end: after the second loop the table is freed.
EndLoop ==
  /\ it.loop # "none" /\ Valid(it).bucket = TableSize
  /\ it' = NoLoop
  /\ hist' = [hist EXCEPT !.left = hist.keys \ hist.seen,
                          !.keys = IF it.loop = "clear" THEN {} ELSE @]
  /\ ht' = (IF it.loop = "clear" THEN <<>> ELSE ht)

HashNext == \/ AllocTable \/ LookAtEntry \/ TakeOut \/ EndLoop
            \/ \E key \in HKeys : EnterKey(key) \/ PurgeKey(key)
            \/ \E loop \in {"look", "clear"} : BeginLoop(loop)

\* A key is in the table once, in its bucket, however it is written; both loops meet every
\* entry, and none twice, although the second takes them out under the iterator.
HashRight ==
  /\ ht # <<>> /\ it.loop # "clear" =>
       \A f \in {Fold[key] : key \in HKeys} :
         Cardinality({bk \in (0 .. TableSize - 1) \X (1 .. Cardinality(HKeys)) :
                        /\ bk[2] <= Len(HChain(bk[1])) /\ Fold[HChain(bk[1])[bk[2]]] = f
                        /\ bk[1] = BucketOf[f]})
           = IF f \in hist.keys THEN 1 ELSE 0
  /\ ~hist.twice /\ hist.left = {}
=============================================================================
