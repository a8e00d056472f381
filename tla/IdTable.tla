------------------------------- MODULE IdTable -------------------------------
(* id_table.c: numbers for data.  The index is sorted and has a hole, where  *)
(* the next number goes; an entry that is freed stays until the hole reaches *)
(* it or the index is compacted.  When the numbers run out the table rewinds *)
(* and looks for a freed entry to give its number again.                     *)
EXTENDS Integers, Sequences, FiniteSets, FiniteSetsExt

CONSTANTS IdBase,   \* id_base
          IdLimit,  \* id_limit
          IdDelta,  \* INITIAL_DELTA, or gfarm_id_table_set_initial_size
          MaxIndex  \* bound: the size of the index

VARIABLES idt,     \* struct gfarm_id_table
          inuse,   \* history: the data of the numbers that callers hold
          idlast   \* history: what the last call did

idvars == <<idt, inuse, idlast>>

\* An entry of the index; data 0 is NULL.  Positions count from 0, as in the code.
IdEntry(t, k) == t.index[k + 1]
IdSize(t) == Len(t.index)
Garbage == [id |-> 0, data |-> 0]

HeadPart(t) == SubSeq(t.index, 1, t.holeStart)
TailPart(t) == SubSeq(t.index, t.holeEnd + 1, IdSize(t))

NotFreed(e) == e.data # 0

\* memmove(&index[to], &index[from], n * sizeof(index[0])).
Memmove(index, to, from, n) ==
  [k \in 1..Len(index) |-> IF k > to /\ k <= to + n THEN index[k - to + from] ELSE index[k]]

\* gfarm_id_compaction_from_head_force.
CompactHeadForce(t) ==
  LET kept == SelectSeq(HeadPart(t), NotFreed)
  IN  [t EXCEPT !.index = kept \o SubSeq(t.index, Len(kept) + 1, IdSize(t)),
                !.holeStart = Len(kept), !.headFree = 0]

\* gfarm_id_compaction_from_tail_force.  With an empty tail it looks past the end of the
\* index, and if there is a NULL it puts the hole past it: the table is spoilt.
CompactTailForce(t) ==
  LET kept == SelectSeq(TailPart(t), NotFreed)
      to   == IdSize(t) - Len(kept)
  IN  IF t.holeEnd = IdSize(t)
      THEN [t EXCEPT !.tailFree = 0, !.spoilt = t.beyond]
      ELSE [t EXCEPT !.index = SubSeq(t.index, 1, to) \o kept, !.holeEnd = to, !.tailFree = 0]

HasFreed(part) == \E k \in 1..Len(part) : ~NotFreed(part[k])

\* gfarm_id_compaction_from_head, gfarm_id_compaction_from_tail: is there room afterwards?
CompactHead(t) == IF t.headFree > 0 THEN CompactHeadForce(t) ELSE t
CompactTail(t) == IF t.tailFree > 0 THEN CompactTailForce(t) ELSE t

\* gfarm_id_shrink_head, gfarm_id_shrink_tail.
ShrinkHead(t) ==
  LET kept == CHOOSE k \in 0..t.holeStart :
                /\ k = 0 \/ NotFreed(IdEntry(t, k - 1))
                /\ \A j \in k .. t.holeStart - 1 : ~NotFreed(IdEntry(t, j))
  IN  [t EXCEPT !.holeStart = kept, !.headFree = @ - (t.holeStart - kept)]

ShrinkTail(t) ==
  LET kept == CHOOSE k \in t.holeEnd..IdSize(t) :
                /\ k = IdSize(t) \/ NotFreed(IdEntry(t, k))
                /\ \A j \in t.holeEnd .. k - 1 : ~NotFreed(IdEntry(t, j))
  IN  [t EXCEPT !.holeEnd = kept, !.tailFree = @ - (kept - t.holeEnd)]

\* gfarm_id_bsearch: the position of id in a part of the index, or -1.
BsearchFrom[r \in Seq([id : Int, data : Int]) \X Int \X Int \X Int] ==
  LET index == r[1]  head == r[2]  tail == r[3]  id == r[4]
      mid   == (head + tail) \div 2
  IN  IF head >= tail THEN -1
      ELSE IF index[mid + 1].id = id THEN mid
      ELSE IF index[mid + 1].id > id THEN BsearchFrom[<<index, head, mid, id>>]
      ELSE BsearchFrom[<<index, mid + 1, tail, id>>]

Bsearch(t, head, tail, id) == BsearchFrom[<<t.index, head, tail, id>>]

\* gfarm_id_bsearch_next: the position of id, or else of the next one.
BsearchNext(t, head, tail, id) ==
  CHOOSE k \in head..tail : /\ \A j \in head .. k - 1 : IdEntry(t, j).id < id
                            /\ k = tail \/ IdEntry(t, k).id >= id

\* The first freed entry in head..tail-1 from the position of id on, or tail.
FirstFreed(t, head, tail, id) ==
  LET from == BsearchNext(t, head, tail, id)
  IN  CHOOSE k \in from..tail : /\ \A j \in from .. k - 1 : NotFreed(IdEntry(t, j))
                                /\ k = tail \/ ~NotFreed(IdEntry(t, k))

Compacted(t) == CompactTailForce(CompactHeadForce(t))

\* The freed entry at k of the head gives its number; what is behind it goes to the tail.
RewindInHead(t, k) ==
  LET n == t.holeStart - 1 - k
  IN  Compacted([t EXCEPT !.next = IdEntry(t, k).id,
                          !.index = Memmove(@, t.holeEnd - n, t.holeStart - n, n),
                          !.holeStart = @ - (n + 1), !.holeEnd = @ - n])

\* The freed entry at k of the tail gives its number; what is before it goes to the head.
RewindInTail(t, k) ==
  LET n == k - t.holeEnd
  IN  Compacted([t EXCEPT !.next = IdEntry(t, k).id,
                          !.index = Memmove(@, t.holeStart, t.holeEnd, n),
                          !.holeStart = @ + n, !.holeEnd = @ + n + 1])

\* gfarm_id_rewind: the tail, if it begins no later than id.
RewindTail(t, id) ==
  IF t.holeEnd < IdSize(t) /\ IdEntry(t, t.holeEnd).id <= id
  THEN LET k == FirstFreed(t, t.holeEnd, IdSize(t), id)
       IN  IF k < IdSize(t) THEN RewindInTail(t, k) ELSE [t EXCEPT !.next = IdLimit]
  ELSE [t EXCEPT !.next = id]

Rewind(t) ==
  IF t.holeStart > 0 /\ IdEntry(t, t.holeStart - 1).id >= IdBase
  THEN LET k == FirstFreed(t, 0, t.holeStart, IdBase)
       IN  IF k < t.holeStart THEN RewindInHead(t, k)
           ELSE RewindTail(t, IdEntry(t, t.holeStart - 1).id + 1)
  ELSE RewindTail(t, IdBase)

\* Mutant: the next number is not adjusted to the entries of the tail.
AdjustNextNot(t) == IF t.next >= IdLimit THEN Rewind(t) ELSE t

\* gfarm_id_adjust_next: the hole moves past the entries that have the next numbers.
AdjustNext(t) ==
  IF t.next >= IdLimit THEN Rewind(t)
  ELSE IF t.holeEnd >= IdSize(t) \/ t.next < IdEntry(t, t.holeEnd).id THEN t
  ELSE LET taken(k) == \A j \in 1 .. k - 1 :
                         LET e == IdEntry(t, t.holeEnd + j) IN e.id <= t.next + j /\ NotFreed(e)
           n  == CHOOSE k \in 1 .. IdSize(t) - t.holeEnd :
                   taken(k) /\ (k = IdSize(t) - t.holeEnd \/ ~taken(k + 1))
       IN  IF t.next + n >= IdLimit THEN Rewind(t)
           ELSE ShrinkTail(ShrinkHead(
                  [t EXCEPT !.next = @ + n, !.index = Memmove(@, t.holeStart, t.holeEnd, n),
                            !.holeStart = @ + n, !.holeEnd = @ + n]))

(***************************************************************************)
(* The calls                                                               *)
(***************************************************************************)
IdInit ==
  /\ idt = [index |-> <<>>, holeStart |-> 0, holeEnd |-> 0, headFree |-> 0, tailFree |-> 0,
            next |-> 1, delta |-> IdDelta, free |-> {}, beyond |-> FALSE, spoilt |-> FALSE]
  /\ inuse = {}
  /\ idlast = [call |-> "none"]

\* The index grows by delta entries, in the hole, with as many data.
Grow(t) ==
  LET size == IdSize(t) + t.delta
  IN  [t EXCEPT !.index = SubSeq(@, 1, t.holeEnd) \o [k \in 1..t.delta |-> Garbage] \o TailPart(t),
                !.holeEnd = @ + t.delta,
                !.free = @ \cup (IdSize(t) + 1 .. size),
                !.delta = IF size \div 2 > @ THEN size \div 2 ELSE @]

\* Room for an entry: the hole, or else the index is compacted, or grows.
MakeRoom(t) ==
  LET h == CompactHead(t)
      b == CompactTail(h)
  IN  IF t.holeStart < t.holeEnd THEN t
      ELSE IF t.headFree > 0 /\ HasFreed(HeadPart(t)) THEN h
      ELSE IF h.tailFree > 0 /\ HasFreed(TailPart(h)) THEN b
      ELSE Grow(b)

\* The entry is filled and the next number chosen; the result is read from the place of the
\* entry after that.
Fill(t) ==
  LET k == t.holeStart
      e == [id |-> t.next, data |-> Min(t.free)]
      a == AdjustNext([t EXCEPT !.index[k + 1] = e, !.holeStart = @ + 1, !.next = @ + 1,
                                !.free = @ \ {e.data}])
  IN  [t |-> a, entry |-> e, returned |-> IdEntry(a, k)]

\* beyond says whether the memory behind the index holds a NULL.
gfarm_id_alloc ==
  /\ ~idt.spoilt
  /\ \E null \in BOOLEAN :
       LET o == [idt EXCEPT !.beyond = null]
           t == IF o.next >= IdLimit THEN Rewind(o) ELSE o
           m == MakeRoom(t)
           f == Fill(m)
       IN  IF t.next >= IdLimit \/ t.spoilt
           THEN /\ idt' = [t EXCEPT !.beyond = FALSE]
                /\ idlast' = [call |-> "full"]
                /\ UNCHANGED inuse
           ELSE /\ IdSize(m) <= MaxIndex
                /\ idt' = [f.t EXCEPT !.beyond = FALSE]
                /\ inuse' = inuse \cup {f.entry}
                /\ idlast' = [call |-> "alloc", right |-> f.entry = f.returned,
                              rewound |-> f.t.next <= f.entry.id]

\* gfarm_id_lookup.
Lookup(t, id) ==
  LET h == Bsearch(t, 0, t.holeStart, id)
      b == Bsearch(t, t.holeEnd, IdSize(t), id)
  IN  IF h >= 0 THEN IdEntry(t, h).data ELSE IF b >= 0 THEN IdEntry(t, b).data ELSE 0

\* The entry at k is freed; at an edge of the hole, the hole grows.
FreeInHead(t, k) ==
  LET f == [t EXCEPT !.index[k + 1].data = 0, !.headFree = @ + 1, !.free = @ \cup {IdEntry(t, k).data}]
  IN  IF k < t.holeStart - 1 THEN f ELSE ShrinkHead(f)

FreeInTail(t, k) ==
  LET f == [t EXCEPT !.index[k + 1].data = 0, !.tailFree = @ + 1, !.free = @ \cup {IdEntry(t, k).data}]
  IN  IF k > t.holeEnd THEN f ELSE ShrinkTail(f)

gfarm_id_free(id) ==
  /\ ~idt.spoilt
  /\ LET h == Bsearch(idt, 0, idt.holeStart, id)
         b == Bsearch(idt, idt.holeEnd, IdSize(idt), id)
         found == Lookup(idt, id) # 0
     IN  /\ idt' = (IF ~found THEN idt ELSE IF h >= 0 THEN FreeInHead(idt, h) ELSE FreeInTail(idt, b))
         /\ idlast' = [call |-> "free", found |-> found, held |-> \E e \in inuse : e.id = id]
         /\ inuse' = {e \in inuse : e.id # id}

IdNext == gfarm_id_alloc \/ \E id \in IdBase .. IdLimit - 1 : gfarm_id_free(id)

(***************************************************************************)
(* Properties                                                              *)
(***************************************************************************)
Indexed(t) == HeadPart(t) \o TailPart(t)

Freed(part) == Cardinality({k \in 1..Len(part) : ~NotFreed(part[k])})

\* Numbers in use are found with their own data, others are not, and no two of them share a
\* number or data, through every reuse, compaction and rewind; the counters of freed entries
\* agree with the index, which is sorted with the next number in its hole.  A caller is told
\* the number it got, unless the call rewound the table: then the entry may have moved before
\* the result is read from its place.
IdsRight ==
  ~idt.spoilt =>
    /\ \A id \in 0..IdLimit : \/ \E e \in inuse : e.id = id /\ Lookup(idt, id) = e.data
                              \/ Lookup(idt, id) = 0 /\ \A e \in inuse : e.id # id
    /\ \A e, f \in inuse : e.id = f.id \/ e.data = f.data => e = f
    /\ \A k, l \in 1..Len(Indexed(idt)) : k < l => Indexed(idt)[k].id < Indexed(idt)[l].id
    /\ idt.headFree = Freed(HeadPart(idt)) /\ idt.tailFree = Freed(TailPart(idt))
    /\ idt.next < IdLimit =>
         /\ \A k \in 1..Len(HeadPart(idt)) : HeadPart(idt)[k].id < idt.next
         /\ \A k \in 1..Len(TailPart(idt)) : TailPart(idt)[k].id > idt.next
    /\ idlast.call = "free" => idlast.found = idlast.held
    /\ idlast.call = "alloc" => idlast.right \/ idlast.rewound
=============================================================================
