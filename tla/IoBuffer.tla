------------------------------ MODULE IoBuffer ------------------------------
(* The buffers of libgfarm's connections (iobuffer.c): bytes between head   *)
(* and tail of an array.  The functions that read and write them are given  *)
(* by what the descriptor accepted or delivered.                            *)
LOCAL INSTANCE Integers
LOCAL INSTANCE Sequences

\* gfarm_iobuffer_alloc.
NewBuffer(size) ==
  [size |-> size, head |-> 0, bytes |-> <<>>, read_eof |-> FALSE, write_eof |-> FALSE]

Least(a, b) == IF a <= b THEN a ELSE b

\* tail
Top(b) == b.head + Len(b.bytes)

IsEmpty(b) == b.bytes = <<>>

IsFull(b) == b.head <= 0 /\ Top(b) >= b.size

IsReadable(b) == ~IsFull(b) /\ ~b.read_eof

IsWritable(b) == ~IsEmpty(b) \/ (b.read_eof /\ ~b.write_eof)

Space(b) == b.head + (b.size - Top(b))

\* Mutant: the bytes move, head stays.
MakeRoomNot(b, len) == b

\* memmove, where len bytes do not fit behind tail.
MakeRoom(b, len) == IF len > b.size - Top(b) /\ b.head > 0 THEN [b EXCEPT !.head = 0] ELSE b

\* gfarm_iobuffer_read: what it asks of the descriptor, with or without a limit ...
ReadMost(b, limit) == IF IsFull(b) THEN 0 ELSE Least(limit, Space(b))

\* ... and what it does with the bytes that come.
Received(b, limit, s) == [MakeRoom(b, limit) EXCEPT !.bytes = @ \o s]

\* gfarm_iobuffer_put: the number of bytes it takes, and the buffer then.
PutLength(b, len) == IF IsFull(b) THEN 0 ELSE Least(len, Space(b))

Stored(b, s) ==
  IF s = <<>> \/ IsFull(b) THEN b
  ELSE [MakeRoom(b, Len(s)) EXCEPT !.bytes = @ \o SubSeq(s, 1, PutLength(b, Len(s)))]

\* gfarm_iobuffer_get, _purge and _write: n bytes leave at the head, and an
\* empty buffer starts afresh.
Consumed(b, n) ==
  IF n >= Len(b.bytes) THEN [b EXCEPT !.head = 0, !.bytes = <<>>]
  ELSE [b EXCEPT !.head = @ + n, !.bytes = SubSeq(@, n + 1, Len(@))]

Taken(b, n) == SubSeq(b.bytes, 1, n)

\* Mutant: the end is never noted.
NeverClosed(b) == b

\* gfarm_iobuffer_write_close, once an empty buffer is written or read at its end.
Closed(b) == IF IsEmpty(b) /\ b.read_eof THEN [b EXCEPT !.write_eof = TRUE] ELSE b

\* Nothing was stored behind the array.
WithinArray(b) == Top(b) <= b.size
=============================================================================
