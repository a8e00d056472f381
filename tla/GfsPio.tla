------------------------------- MODULE GfsPio -------------------------------
(* The buffered file I/O of libgfarm (gfs_pio.c): one buffer for reading    *)
(* and writing over pread and pwrite requests to a file system node, which  *)
(* may move fewer bytes than asked for, or fail.  A function of the code is *)
(* an operator that gives the set of its outcomes: the file descriptor g,   *)
(* the node s, the error e ("ok" is GFARM_ERR_NO_ERROR) and the bytes out.  *)
EXTENDS FileBytes, TLC

CONSTANTS Files,       \* contents of the file when it is opened
          Modes,       \* ways to open it: [rd, wr, unbuf]
          Data,        \* what callers write
          Delims,      \* delimiters given to gfs_pio_readdelim
          BufSize,     \* GFS_FILE_BUFSIZE
          MaxIO,       \* GFS_PROTO_MAX_IOSIZE
          AllocInit,   \* ALLOC_SIZE_INIT
          MaxLen,      \* bound: length of a file and of a seek
          MaxFaults    \* bound: requests that fail

ASSUME PioAssumption == /\ BufSize \in Nat \ {0}
                        /\ MaxIO \in Nat /\ BufSize <= MaxIO
                        /\ AllocInit \in Nat \ {0}
                        /\ MaxLen \in Nat /\ MaxFaults \in Nat

VARIABLES gf,    \* struct gfs_file; length is Len(buffer), history: skewed, aborted
          node,  \* the file on the file system node, and how many requests may fail
          call   \* the last call and its result

pvars == <<gf, node, call>>

(***************************************************************************)
(* The file system node (external): gfs_pio_view_section_pread and the     *)
(* others pass a request to it.                                            *)
(***************************************************************************)
Res(g, s, e, out) == [g |-> g, s |-> s, e |-> e, out |-> out]

Ok(g, s) == {Res(g, s, "ok", <<>>)}

\* A request that fails, as often as MaxFaults lets it.
Fails(s) == IF s.faults > 0 THEN {[s EXCEPT !.faults = @ - 1]} ELSE {}

\* At least a byte unless the file ends at off.
Pread(s, size, off) ==
  LET avail == Min({size, Len(Rest(s.file, off))})
  IN  {[s |-> s, e |-> "ok", out |-> SubSeq(s.file, off + 1, off + n)] :
         n \in Min({1, avail})..avail}
      \cup {[s |-> t, e |-> "io", out |-> <<>>] : t \in Fails(s)}

Pwrite(s, data, off) ==
  {[s |-> [s EXCEPT !.file = Overlay(@, off, SubSeq(data, 1, n))], e |-> "ok", n |-> n] :
     n \in 1..Min({Len(data), MaxIO})}
  \cup {[s |-> t, e |-> "io", n |-> 0] : t \in Fails(s)}

(***************************************************************************)
(* The buffer                                                              *)
(***************************************************************************)
Length(g) == Len(g.buffer)

\* GFS_PIO_ERROR: the end of the file is not an error.
PioError(g) == IF g.error = "eof" THEN "none" ELSE g.error

\* That the end of the file was met is forgotten.
ForgetEof(g) == IF g.error = "eof" THEN [g EXCEPT !.error = "none"] ELSE g

\* F where the outcome is no error, the outcome itself where it is one.
Then(R, F(_)) == UNION {IF r.e = "ok" THEN F(r) ELSE {r} : r \in R}

\* The view is opened by the first call that needs it.
SetViewSection(g, s) ==
  Ok([g EXCEPT !.view = TRUE, !.p = 0, !.buffer = <<>>, !.offset = 0, !.io_offset = 0,
               !.error = "none"], s)
  \cup {Res([g EXCEPT !.error = "conn"], t, "conn", <<>>) : t \in Fails(s)}

CheckView(g, s) == IF PioError(g) # "none" THEN {Res(g, s, g.error, <<>>)}
                   ELSE IF ~g.view THEN SetViewSection(g, s)
                   ELSE Ok(g, s)

\* CHECK_WRITABLE, which forgets the end of the file, and CHECK_READABLE.
CheckWritable(r) == {IF r.g.wr THEN [r EXCEPT !.g = ForgetEof(@)] ELSE [r EXCEPT !.e = "badf"]}

CheckReadable(r) == {IF r.g.rd THEN r ELSE [r EXCEPT !.e = "badf"]}

\* F on a file whose view is checked and that may be written, or read.
Writable(g, s, F(_)) == Then(Then(CheckView(g, s), CheckWritable), F)

Readable(g, s, F(_)) == Then(Then(CheckView(g, s), CheckReadable), F)

Purge(g) == [g EXCEPT !.offset = @ + g.p, !.p = 0, !.buffer = <<>>]

\* One request of do_write; out is what has been written.
WriteMore(r, data) ==
  IF r.e # "ok" \/ Len(r.out) = Len(data) THEN {r}
  ELSE {IF w.e = "ok"
        THEN Res([r.g EXCEPT !.io_offset = @ + w.n], w.s, "ok",
                 SubSeq(data, 1, Len(r.out) + w.n))
        ELSE Res([r.g EXCEPT !.error = w.e], w.s, w.e, r.out) :
          w \in Pwrite(r.s, Rest(data, Len(r.out)), r.g.io_offset)}

\* R after a step is taken n times.
Repeat(R, n, Step(_)) ==
  FoldLeft(LAMBDA Q, i : UNION {Step(q) : q \in Q}, R, [i \in 1..n |-> i])

\* Mutant: io_offset is not brought back when reading turns to writing.
DoWriteOn(g, s, data) ==
  IF data = <<>> THEN Ok(g, s)
  ELSE Repeat(Ok(g, s), Len(data), LAMBDA r : WriteMore(r, data))

DoWrite(g, s, data) ==
  IF data = <<>> THEN Ok(g, s)
  ELSE Repeat(Ok([g EXCEPT !.io_offset = g.offset], s), Len(data),
              LAMBDA r : WriteMore(r, data))

Flush(g, s) ==
  Writable(g, s, LAMBDA r :
    Then(IF r.g.dirty
         THEN {IF w.e = "ok" THEN Res([w.g EXCEPT !.dirty = FALSE], w.s, "ok", <<>>)
               ELSE [w EXCEPT !.out = <<>>] : w \in DoWrite(r.g, r.s, r.g.buffer)}
         ELSE {r},
         LAMBDA w : {IF w.g.p >= Length(w.g) THEN [w EXCEPT !.g = Purge(@)] ELSE w}))

\* Fills an empty buffer, where the assertion that io_offset is offset holds.
FillEmpty(g, s, size) ==
  IF g.io_offset # g.offset THEN {Res([g EXCEPT !.aborted = TRUE], s, "abort", <<>>)}
  ELSE {IF r.e = "ok"
        THEN Res([g EXCEPT !.buffer = r.out, !.io_offset = @ + Len(r.out),
                           !.error = IF r.out = <<>> THEN "eof" ELSE @], r.s, "ok", <<>>)
        ELSE Res([g EXCEPT !.error = r.e], r.s, r.e, <<>>) :
          r \in Pread(s, size, g.io_offset)}

Fillbuf(g, s, size) ==
  IF ~g.rd THEN {Res(g, s, "badf", <<>>)}
  ELSE IF g.error # "none"
       THEN {Res(g, s, IF g.error = "eof" THEN "ok" ELSE g.error, <<>>)}
  ELSE IF g.p < Length(g) THEN Ok(g, s)
  ELSE Then(IF g.dirty THEN Flush(g, s) ELSE Ok(Purge(g), s),
            LAMBDA r : FillEmpty(r.g, r.s, size))

(***************************************************************************)
(* The functions of the interface                                          *)
(***************************************************************************)
\* Mutant: io_offset is not moved.
SeekToOffset(g, s, whence, off) ==
  Then(CheckView(g, s), LAMBDA r :
    LET where == IF whence = "cur" THEN off + r.g.offset + r.g.p ELSE off
    IN  Ok([Purge(ForgetEof(r.g)) EXCEPT !.offset = where], r.s))

\* where, or an error that stays: SEEK_END is not implemented.
SeekTo(g, s, whence, off) ==
  Then(CheckView(g, s), LAMBDA r :
    LET h     == ForgetEof(r.g)
        where == IF whence = "cur" THEN off + h.offset + h.p ELSE off
        err   == IF whence = "end" THEN "nosys" ELSE "inval"
    IN  IF whence = "end" \/ where < 0 THEN {Res([h EXCEPT !.error = err], r.s, err, <<>>)}
        ELSE IF where \in h.offset..h.offset + Length(h)
             THEN Ok([h EXCEPT !.p = where - h.offset], r.s)
        ELSE Then(IF h.dirty THEN Flush(h, r.s) ELSE Ok(h, r.s),
                  LAMBDA q : Ok([Purge(q.g) EXCEPT !.error = "none", !.offset = where,
                                                   !.io_offset = where], q.s)))

\* The rest of the buffer is forgotten, and io_offset stays behind it.
TruncateTo(g, s, length) ==
  Writable(g, s, LAMBDA r :
    Then(IF r.g.dirty THEN Flush(r.g, r.s) ELSE {r}, LAMBDA q :
      LET h == [Purge(q.g) EXCEPT !.error = "none",
                                  !.skewed = @ \/ q.g.p < Length(q.g)]
      IN  Ok(h, [q.s EXCEPT !.file = Resize(@, length)])
          \cup {Res([h EXCEPT !.error = "io"], t, "io", <<>>) : t \in Fails(q.s)}))

\* One turn of the loop of gfs_pio_read.
ReadMore(r, size) ==
  LET left == size - Len(r.out)
      want == IF r.g.unbuf /\ left < BufSize THEN left ELSE BufSize
  IN  IF left = 0 \/ r.e # "ok" \/ r.g.error # "none" THEN {r}
      ELSE {IF q.e # "ok" \/ q.g.error # "none" THEN Res(q.g, q.s, q.e, r.out)
            ELSE LET n == Min({left, Length(q.g) - q.g.p})
                 IN  Res([q.g EXCEPT !.p = @ + n], q.s, "ok",
                         r.out \o SubSeq(q.g.buffer, q.g.p + 1, q.g.p + n)) :
              q \in Fillbuf(r.g, r.s, want)}

\* Bytes read before an error are given; the error stays in g.
Read(g, s, size) ==
  Readable(g, s, LAMBDA r :
    {IF q.e # "ok" /\ q.out = <<>> THEN q
     ELSE Res(IF q.g.unbuf THEN Purge(q.g) ELSE q.g, q.s, "ok", q.out) :
       q \in Repeat({r}, size, LAMBDA q : ReadMore(q, size))})

\* The end of write and putc: the buffer is written when it is full, and at
\* once if the file is unbuffered, where what a failure left is forgotten.
FlushFull(g, s) ==
  IF ~g.unbuf /\ g.p < BufSize THEN Ok(g, s)
  ELSE {IF r.g.unbuf
        THEN [r EXCEPT !.g = [Purge(r.g) EXCEPT !.skewed = @ \/ r.e # "ok"]]
        ELSE r : r \in Flush(g, s)}

\* data at p.
Store(g, data) == [g EXCEPT !.dirty = TRUE, !.p = @ + Len(data),
                            !.buffer = Overlay(@, g.p, data)]

\* The shortcut for data that fills the buffer: what the buffer holds is overwritten.
WriteThrough(g, s, data) ==
  IF g.p # 0 THEN {Res([g EXCEPT !.aborted = TRUE], s, "abort", <<>>)}
  ELSE {IF r.e # "ok" /\ r.out = <<>> THEN r
        ELSE Res([r.g EXCEPT !.offset = @ + Len(r.out)], r.s, "ok", r.out) :
          r \in DoWrite([g EXCEPT !.buffer = <<>>, !.dirty = FALSE], s, data)}

Write(g, s, data) ==
  Writable(g, s, LAMBDA r :
    Then(IF Len(data) + r.g.p > BufSize
         THEN Flush([r.g EXCEPT !.buffer = SubSeq(@, 1, r.g.p)], r.s) ELSE {r},
         LAMBDA q : IF Len(data) >= BufSize THEN WriteThrough(q.g, q.s, data)
                    ELSE FlushFull(Store(q.g, data), q.s)))

\* Mutant: fsync without flush.
SyncOnly(g, s) == Writable(g, s, LAMBDA r : {r})

Sync(g, s) == Then(Flush(g, s), LAMBDA r :
                {r} \cup {Res([r.g EXCEPT !.error = "io"], t, "io", <<>>) : t \in Fails(r.s)})

\* The next byte of the buffer.
GetByte(g) == LET h == [g EXCEPT !.p = @ + 1] IN IF g.unbuf THEN Purge(h) ELSE h

\* EOF is <<>>; the reason is in g.
Getc(g, s) ==
  UNION {IF r.e # "ok" THEN {Res([r.g EXCEPT !.error = r.e], r.s, "ok", <<>>)}
         ELSE IF ~r.g.rd THEN {Res(r.g, r.s, "refused", <<>>)}
         ELSE {IF q.e # "ok" \/ (q.g.error # "none" /\ q.g.p >= Length(q.g))
               THEN Res(q.g, q.s, "ok", <<>>)
               ELSE Res(GetByte(q.g), q.s, "ok", <<q.g.buffer[q.g.p + 1]>>) :
                 q \in IF r.g.p >= Length(r.g)
                       THEN Fillbuf(r.g, r.s, IF r.g.unbuf THEN 1 ELSE BufSize) ELSE {r}} :
           r \in CheckView(g, s)}

\* The byte that getc gave goes back, where the buffer still has it.
Ungetc(g, c) == IF PioError(g) # "none" THEN g
                ELSE IF g.p = 0 THEN [g EXCEPT !.error = "nospace"]
                ELSE [g EXCEPT !.p = @ - 1, !.buffer = [@ EXCEPT ![g.p] = c]]

\* The error of the first flush is kept in a variable of an inner block: it is not returned.
Putc(g, s, c) ==
  Writable(g, s, LAMBDA r :
    UNION {IF q.e = "ok" THEN FlushFull(Store(q.g, <<c>>), q.s)
           ELSE {[q EXCEPT !.e = "ok"]} :
             q \in IF r.g.p >= BufSize THEN Flush(r.g, r.s) ELSE {r}})

Puts(g, s, data) ==
  Writable(g, s, LAMBDA r :
    FoldLeft(LAMBDA R, c : Then(R, LAMBDA q : Putc(q.g, q.s, c)), {r}, data))

Putline(g, s, data) ==
  Writable(g, s, LAMBDA r : Then(Puts(r.g, r.s, data), LAMBDA q : Putc(q.g, q.s, NL)))

\* getc until a byte completes what Done tells, EOF, or n times.
GetMore(r, Done(_)) ==
  IF r.stop THEN {r}
  ELSE {LET out == r.out \o q.out
        IN  [q EXCEPT !.out = out] @@ [stop |-> q.out = <<>> \/ Done(out)] : q \in Getc(r.g, r.s)}

GetUntil(g, s, n, Done(_)) ==
  Repeat({Res(g, s, "ok", <<>>) @@ [stop |-> FALSE]}, n, LAMBDA r : GetMore(r, Done))

EndsLine(out) == Last(out) = NL

Gets(g, s, size) ==
  Readable(g, s, LAMBDA r :
    IF size <= 1 THEN {Res([r.g EXCEPT !.error = "inval"], r.s, "inval", <<>>)}
    ELSE {Res(q.g, q.s, "ok", q.out) : q \in GetUntil(r.g, r.s, size - 1, EndsLine)})

\* As gets, without the newline; only here EOF is told from an error.
Getline(g, s, size) ==
  Then(Gets(g, s, size), LAMBDA r :
    IF r.out = <<>> /\ PioError(r.g) # "none" THEN {[r EXCEPT !.e = PioError(r.g)]}
    ELSE {[r EXCEPT !.out = SelectSeq(@, LAMBDA b : b # NL)]})

Readline(g, s) ==
  Readable(g, s, LAMBDA r :
    {Res(q.g, q.s, "ok", q.out) : q \in GetUntil(r.g, r.s, MaxLen + 1, EndsLine)})

\* The newlines that follow an empty line.
MoreNewlines(r) ==
  IF r.stop THEN {r}
  ELSE {IF q.out = <<NL>> THEN [r EXCEPT !.g = q.g, !.s = q.s, !.out = Append(@, NL)]
        ELSE [r EXCEPT !.g = IF q.out = <<>> THEN q.g ELSE Ungetc(q.g, q.out[1]),
                       !.s = q.s, !.stop = TRUE] : q \in Getc(r.g, r.s)}

\* overflow is not initialized: if it is not 0, the line cannot grow.
Readdelim(g, s, delim) ==
  Readable(g, s, LAMBDA r :
    UNION {LET tail == IF delim = "paragraph" THEN <<NL, NL>> ELSE delim
               full(out) == overflow /\ Len(out) > AllocInit
               done(out) == delim # "all" /\ IsSuffix(tail, out)
               lines == GetUntil(r.g, r.s, MaxLen + 1, LAMBDA out : full(out) \/ done(out))
           IN  {IF overflow /\ Len(q.out) >= AllocInit THEN Res(q.g, q.s, "nomem", <<>>)
                ELSE Res(q.g, q.s, "ok", q.out) :
                  q \in UNION {IF delim = "paragraph" /\ done(q.out) /\ ~full(q.out)
                               THEN Repeat({[q EXCEPT !.stop = FALSE]}, MaxLen + 1, MoreNewlines)
                               ELSE {q} : q \in lines}} :
             overflow \in BOOLEAN})

\* The first error of flush, of the close of the view and of gfm_close_fd is returned.
ClosePio(g, s) ==
  {Res([r.g EXCEPT !.closed = TRUE, !.view = FALSE, !.dirty = FALSE, !.buffer = <<>>,
                   !.p = 0, !.offset = g.offset + g.p, !.error = "none"], t,
       IF r.e = "ok" /\ t # r.s THEN "io" ELSE r.e, <<>>) :
     <<r, t>> \in UNION {{<<q, t>> : t \in {q.s} \cup Fails(q.s)} :
       q \in IF g.view /\ g.wr THEN Flush(g, s) ELSE Ok(g, s)}}

(***************************************************************************)
(* A caller                                                                *)
(***************************************************************************)
Returns(op, arg, R) ==
  \E r \in R :
    /\ gf' = r.g
    /\ node' = r.s
    /\ call' = IF r.g.aborted
               THEN [op |-> "abort", arg |-> 0, out |-> <<>>, e |-> "ok", error |-> "none"]
               ELSE [op |-> IF r.e = "refused" THEN "refused" ELSE op, arg |-> arg,
                     out |-> r.out, e |-> r.e, error |-> PioError(r.g)]

Usable == ~gf.closed /\ ~gf.aborted

Where == gf.offset + gf.p

\* Room for n bytes within MaxLen.
Fits(n) == Where + n <= MaxLen

gfs_pio_read == Usable /\ \E n \in 1..BufSize + 1 : Returns("read", n, Read(gf, node, n))

gfs_pio_write == Usable /\ \E d \in Data : Fits(Len(d)) /\ Returns("write", d, Write(gf, node, d))

gfs_pio_seek ==
  /\ Usable
  /\ \/ \E w \in -1..MaxLen : Returns("seek", w, SeekTo(gf, node, "set", w))
     \/ \E o \in {-1, 1} : Fits(o) /\ Returns("seek", Where + o, SeekTo(gf, node, "cur", o))
     \/ Returns("seek", 0, SeekTo(gf, node, "end", 0))

gfs_pio_truncate == Usable /\ \E n \in 0..MaxLen : Returns("truncate", n, TruncateTo(gf, node, n))

gfs_pio_sync == Usable /\ Returns("sync", 0, Sync(gf, node))

gfs_pio_getc == Usable /\ Returns("getc", 1, Getc(gf, node))

gfs_pio_putc == Usable /\ \E d \in Data :
                  Len(d) = 1 /\ Fits(1) /\ Returns("putc", d, Putc(gf, node, d[1]))

gfs_pio_puts == Usable /\ \E d \in Data : Fits(Len(d)) /\ Returns("puts", d, Puts(gf, node, d))

gfs_pio_putline == Usable /\ \E d \in Data :
                     Fits(Len(d) + 1) /\ Returns("putline", Append(d, NL), Putline(gf, node, d))

gfs_pio_gets == Usable /\ \E n \in 1..3 : Returns("gets", n, Gets(gf, node, n))

gfs_pio_getline == Usable /\ \E n \in 2..3 : Returns("getline", n, Getline(gf, node, n))

gfs_pio_readline == Usable /\ Returns("readline", 0, Readline(gf, node))

gfs_pio_readdelim ==
  /\ Usable
  /\ \/ Returns("readall", 0, Readdelim(gf, node, "all"))
     \/ Returns("readparagraph", 0, Readdelim(gf, node, "paragraph"))
     \/ \E d \in Delims : Returns("readdelim", d, Readdelim(gf, node, d))

gfs_pio_clearerr == /\ Usable
                    /\ PioError(gf) # "none"
                    /\ Returns("clearerr", 0, Ok([gf EXCEPT !.error = "none"], node))

gfs_pio_close == Usable /\ Returns("close", 0, ClosePio(gf, node))

PInit == /\ \E m \in Modes :
              gf = [rd |-> m.rd, wr |-> m.wr, unbuf |-> m.unbuf, view |-> FALSE,
                    dirty |-> FALSE, error |-> "none", p |-> 0, buffer |-> <<>>,
                    offset |-> 0, io_offset |-> 0, skewed |-> FALSE, aborted |-> FALSE,
                    closed |-> FALSE]
         /\ \E f \in Files : node = [file |-> f, faults |-> MaxFaults]
         /\ call = [op |-> "open", arg |-> 0, out |-> <<>>, e |-> "ok", error |-> "none"]

PNext == \/ gfs_pio_read \/ gfs_pio_write \/ gfs_pio_seek \/ gfs_pio_truncate
         \/ gfs_pio_sync \/ gfs_pio_getc \/ gfs_pio_putc \/ gfs_pio_puts
         \/ gfs_pio_putline \/ gfs_pio_gets \/ gfs_pio_getline \/ gfs_pio_readline
         \/ gfs_pio_readdelim \/ gfs_pio_clearerr \/ gfs_pio_close

PSpec == PInit /\ [][PNext]_pvars

(***************************************************************************)
(* Properties                                                              *)
(***************************************************************************)
\* What the caller has written: the file, with the dirty buffer on top of it.
Contents == IF gf.dirty THEN Overlay(node.file, gf.offset, gf.buffer) ELSE node.file

GfarmFile == INSTANCE GfarmFile WITH content <- Contents, pos <- Where

\* The buffer, its position and the short, failing and repeated requests under
\* it behave as a file with a position (all of gfs_pio.c).
PioSpec == GfarmFile!ASpec

\* Unless truncate or a failed unbuffered write left io_offset behind, a buffer
\* that is not dirty holds the bytes of the file at offset, and io_offset is
\* behind them: the assertion of gfs_pio_fillbuf cannot fail.
Positions == /\ gf.p <= Length(gf) /\ Length(gf) <= BufSize
             /\ ~gf.skewed => ~gf.aborted
             /\ ~gf.dirty /\ ~gf.skewed /\ ~gf.closed =>
                  gf.io_offset = gf.offset + Length(gf)
             /\ ~gf.dirty /\ gf.buffer # <<>> =>
                  gf.buffer = SubSeq(node.file, gf.offset + 1, gf.offset + Length(gf))

\* A sync or close that returns no error has brought every byte to the file.
Stable == [][call'.op \in {"sync", "close"} /\ call'.e = "ok" => node'.file = Contents]_pvars

\* assert(gf->io_offset == gf->offset) of gfs_pio_fillbuf.
NeverAborts == ~gf.aborted
=============================================================================
