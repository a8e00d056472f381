----------------------------- MODULE GfarmFile -----------------------------
(* What a caller of the gfs_pio functions may rely on: a file is a sequence *)
(* of bytes with a position.  A call that reports no error does exactly     *)
(* what its reference says; one that reports an error does no damage        *)
(* outside the bytes it was asked to move.                                  *)
EXTENDS FileBytes

CONSTANT Files      \* contents a file may have when it is opened

VARIABLES content,  \* the bytes of the file, as the caller sees them
          pos,      \* where the next call reads or writes
          call      \* the last call: op, arg, what it gave back (out), the
                    \* error it returned (e) and gfs_pio_error() (error)

avars == <<content, pos, call>>

\* The least n such that the first n bytes of s end with d, or all of s.
Through(s, d) ==
  LET ends == {n \in Len(d)..Len(s) : SubSeq(s, n - Len(d) + 1, n) = d}
  IN  IF ends = {} THEN Len(s) ELSE Min(ends)

\* n and the newlines that follow the first n bytes of s.
AndNewlines(s, n) == Max({m \in n..Len(s) : \A i \in n+1..m : s[i] = NL})

\* How many bytes a call takes from what is left of the file.
Expect(op, arg, s) ==
  CASE op \in {"read", "getc"}    -> Min({arg, Len(s)})
    [] op \in {"gets", "getline"} -> Min({arg - 1, Through(s, <<NL>>)})
    [] op = "readline"            -> Through(s, <<NL>>)
    [] op = "readall"             -> Len(s)
    [] op = "readdelim"           -> Through(s, arg)
    [] op = "readparagraph"       -> AndNewlines(s, Through(s, <<NL, NL>>))

\* getline drops the newline; the others give what they take.
Given(op, s) == IF op = "getline" THEN SelectSeq(s, LAMBDA b : b # NL) ELSE s

TakeOps == {"read", "getc", "gets", "getline", "readline", "readall", "readdelim",
            "readparagraph"}
PutOps  == {"write", "putc", "puts", "putline"}

Clean(c) == c.e = "ok" /\ c.error = "none"

AInit == /\ content \in Files
         /\ pos = 0
         /\ call = [op |-> "open", arg |-> 0, out |-> <<>>, e |-> "ok", error |-> "none"]

\* A byte taken and not given back is reported: ungetc of an unbuffered file.
Take == /\ call'.op \in TakeOps
        /\ UNCHANGED content
        /\ LET s == Rest(content, pos)
               n == Expect(call'.op, call'.arg, s)
           IN  \E k \in 0..Min({n + 1, Len(s)}) :
                 /\ pos' = pos + k
                 /\ Clean(call') => k = n /\ call'.out = Given(call'.op, SubSeq(s, 1, n))
                 /\ IsPrefix(call'.out, Given(call'.op, SubSeq(s, 1, k)))

Put == /\ call'.op \in PutOps
       /\ LET d == call'.arg
          IN  /\ pos' \in pos..pos + Len(d)
              /\ Clean(call') => /\ pos' = pos + Len(d)
                                 /\ content' = Overlay(content, pos, d)
              /\ \A i \in 1..Len(content) + Len(content') :
                   i \notin pos+1..pos+Len(d) => At(content', i) = At(content, i)

Seek == /\ call'.op = "seek"
        /\ UNCHANGED content
        /\ pos' = IF Clean(call') THEN call'.arg ELSE pos

Truncate == /\ call'.op = "truncate"
            /\ UNCHANGED pos
            /\ content' = IF Clean(call') THEN Resize(content, call'.arg) ELSE content

Quiet == /\ call'.op \in {"sync", "clearerr", "refused"}
         /\ UNCHANGED <<content, pos>>

\* What a failed close could not write is lost.
Close == /\ call'.op = "close"
         /\ UNCHANGED pos
         /\ Clean(call') => UNCHANGED content

\* The library stops the program.
Abort == /\ call'.op = "abort"
         /\ UNCHANGED content

ANext == Take \/ Put \/ Seek \/ Truncate \/ Quiet \/ Close \/ Abort

ASpec == AInit /\ [][ANext]_avars
=============================================================================
