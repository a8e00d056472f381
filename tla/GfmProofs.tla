----------------------------- MODULE GfmProofs ------------------------------
(* The operations on gfmd, for any operations on any paths, any number of   *)
(* connections, and faults at any time: an operation reads the answers to   *)
(* its own requests, gives back its references, and tells the program what  *)
(* gfmd has done. The cache of attributes (StatCache), for any listing,     *)
(* limit and lifespans: it answers with what was last seen. And the cache of*)
(* connections (ConnCache), for any number of servers, connections and      *)
(* references: its list, its table and its counter agree with who holds     *)
(* what, and the connections used longest ago go first.                     *)
EXTENDS GfmOp, StatCache, ConnCache, FiniteSetTheorems, SequenceTheorems, WellFoundedInduction, TLAPS

(***************************************************************************)
(* The invariant                                                           *)
(***************************************************************************)
Requests == {"begin", "root", "open", "save", "op", "getfd", "putfd", "end"}

Results == {"none", "ok", "error", "root", "connection"}

OpStates ==
  [pc : {"idle", "acquire", "alloc", "request", "result"}, o : Operations \cup {NoOp},
   n : 0 .. Len(Ops), c : Wire \cup {NoWire}, i : Nat \ {0}, retry : {0, 1}, sleep : Nat,
   stale : BOOLEAN, faults : Nat]

Asks    == [r : Requests, n : Nat]
Answers == [r : Requests, n : Nat, e : {"ok", "error"}]

WireStates ==
  [st : {"none", "up", "lost"}, cached : BOOLEAN, held : Int, pid : BOOLEAN, out : Seq(Asks),
   in : Seq(Answers)]

GfmdStates == [up : BOOLEAN, skip : [Wire -> BOOLEAN], in : [Wire -> BOOLEAN]]

LogEntries == [result : Results, executed : Nat, stale : BOOLEAN, faults : Nat]

GfmTypeOK ==
  /\ op \in OpStates
  /\ wires \in [Wire -> WireStates]
  /\ gfmd \in GfmdStates
  /\ open \in Wire \cup {NoWire}
  /\ log \in [DOMAIN Ops -> LogEntries]

\* Where an operation is, and on which connection.
Placed ==
  /\ op.pc \in {"idle", "acquire"} <=> op.c = NoWire
  /\ op.pc # "idle" => op.n \in DOMAIN Ops /\ op.o \in Operations
  /\ op.pc = "idle" => op.o = NoOp
  /\ Opens(op.o) => open = NoWire
  /\ OnFile(op.o) => op.pc \in {"request", "result"} /\ op.c = open /\ open # NoWire
  /\ op.pc = "result" => op.i <= Len(ResultsOf(op.o))

\* The references to c: of the open file, and of the operation.
RefsTo(c) == (IF c = open THEN 1 ELSE 0)
             + (IF c # op.c \/ OnFile(op.o) THEN 0 ELSE IF op.pc = "alloc" THEN 1 ELSE Refs(op.o))

\* Each connection is held as often, or can be found in the cache, where there is one.
Held ==
  /\ \A c \in Wire : wires[c].held = RefsTo(c)
  /\ \A c \in Wire : wires[c].st # "none" <=> wires[c].cached \/ c = open \/ c = op.c
  /\ \A c, d \in Cached : c = d

\* The operation waits for results on c.
Reading(c) == op.pc = "result" /\ op.c = c

\* gfmd has nothing to do on c, or skips the rest of a compound.
Skips(s) == s # <<>> /\ s[Len(s)].r = "end" /\ \A k \in 1 .. Len(s) - 1 : s[k].r # "end"

Finished(c) == IF gfmd.skip[c] THEN Skips(wires[c].out) ELSE wires[c].out = <<>> /\ ~gfmd.in[c]

\* What has been answered belongs to the results that are expected next; an error is the last.
InOrder(c) ==
  LET in == wires[c].in
  IN  \A j \in 1 .. Len(in) :
        /\ op.i + j - 1 <= Len(ResultsOf(op.o))
        /\ in[j].n = op.n /\ in[j].r = ResultsOf(op.o)[op.i + j - 1]
        /\ in[j].e # "ok" => j = Len(in)

\* What gfmd executes next of the compound, and how much of it is left.
Position(c) == op.i + Len(wires[c].in)
Left(c) == Len(ResultsOf(op.o)) + 1 - Position(c)

\* It answers the compound of the operation, maybe after the rest of an earlier one.
Answering(c) ==
  LET out == wires[c].out
      before == Len(out) - Left(c)
      R == ResultsOf(op.o)
  IN  /\ \A j \in 1 .. Len(wires[c].in) : wires[c].in[j].e = "ok"
      /\ before >= 0
      /\ \A k \in 1 .. Left(c) : out[before + k] = [r |-> R[Position(c) + k - 1], n |-> op.n]
      /\ gfmd.skip[c] <=> before > 0
      /\ before > 0 => Position(c) = 1 /\ out[before].r = "end" /\ \A k \in 1 .. before - 1 : out[k].r # "end"
      /\ before = 0 => (gfmd.in[c] <=> R[1] = "begin" /\ Position(c) > 1 /\ Left(c) > 0)

\* It has answered an error, after which there is nothing more.
Refused(c) == /\ wires[c].in # <<>> /\ wires[c].in[Len(wires[c].in)].e = "error"
              /\ Finished(c)

Traffic ==
  \A c \in Wire :
    /\ ~Reading(c) => wires[c].in = <<>>
    /\ Reading(c) => InOrder(c)
    /\ wires[c].st = "up" => IF Reading(c) THEN Answering(c) \/ Refused(c) ELSE Finished(c)

\* Operation n is still to be executed by what is under way on c.
Sent(c, n) == \E k \in 1 .. Len(wires[c].out) : wires[c].out[k] = [r |-> "op", n |-> n]

SentOn(n) == {c \in Wire : Sent(c, n)}

\* Each once, and only what the operation, or an earlier one, has written.
SentOnce ==
  \A c \in Wire : LET out == wires[c].out IN
    /\ \A k \in 1 .. Len(out) : out[k].n \in 1 .. op.n
    /\ \A k, l \in 1 .. Len(out) : out[k].r = "op" /\ out[k] = out[l] => k = l
    /\ wires[c].st = "up" /\ op.pc # "idle" /\ ~Reading(c) =>
         \A k \in 1 .. Len(out) : out[k].n # op.n

\* How often gfmd may have been asked to execute n: once, and once more after a fault.
Asked(n) ==
  IF n > op.n THEN 0
  ELSE IF n < op.n \/ op.pc = "idle" THEN 1 + log[n].faults
  ELSE op.faults + IF op.pc = "result" /\ wires[op.c].st = "up" THEN 1 ELSE 0

AskedFor == \A n \in DOMAIN Ops : log[n].executed + Cardinality(SentOn(n)) <= Asked(n)

\* What was answered was executed.
Done ==
  /\ \A n \in DOMAIN Ops : /\ log[n].result = "ok" => log[n].executed >= 1
                           /\ n >= op.n /\ op.pc # "idle" => log[n].result = "none"
                           /\ n > op.n => log[n].result = "none"
  /\ op.pc = "result" =>
       /\ \A k \in 1 .. op.i - 1 : ResultsOf(op.o)[k] = "op" => log[op.n].executed >= 1
       /\ \A j \in 1 .. Len(wires[op.c].in) :
            wires[op.c].in[j].r = "op" /\ wires[op.c].in[j].e = "ok" => log[op.n].executed >= 1

\* A connection that was lost before the operation is met once, and replaced.
Replaced ==
  op.stale /\ op.faults = 0 =>
    /\ gfmd.up /\ ~OnFile(op.o) /\ op.pc # "idle"
    /\ op.retry = 0 /\ op.pc = "acquire" => \E c \in Cached : wires[c].st = "lost" /\ wires[c].pid
    /\ op.retry = 0 /\ op.pc # "acquire" =>
         /\ op.pc # "alloc" /\ wires[op.c].st = "lost" /\ wires[op.c].cached
         /\ op.pc = "result" => op.i = 1 /\ wires[op.c].in = <<>>
    /\ op.retry = 1 => IF op.pc = "acquire" THEN Cached = {} ELSE wires[op.c].st = "up"

GfmInv == /\ GfmTypeOK /\ Placed /\ Held /\ Traffic /\ SentOnce /\ AskedFor /\ Done /\ Replaced
          /\ StaleForgiven

(***************************************************************************)
(* Sequences                                                               *)
(***************************************************************************)
LEMMA TailOf ==
  ASSUME NEW S, NEW s \in Seq(S), s # <<>>
  PROVE  /\ Tail(s) \in Seq(S) /\ Len(Tail(s)) = Len(s) - 1
         /\ \A k \in 1 .. Len(s) - 1 : Tail(s)[k] = s[k + 1]
         /\ Head(s) = s[1] /\ Head(s) \in S /\ Len(s) \in Nat \ {0}
         /\ Len(s) = 1 => Tail(s) = <<>>
<1>1. Len(s) \in Nat /\ Len(s) # 0
  BY EmptySeq
<1>2. Tail(s) \in Seq(S) /\ Len(Tail(s)) = Len(s) - 1 /\ Head(s) = s[1]
  BY <1>1, HeadTailProperties
<1>3. \A k \in 1 .. Len(s) - 1 : Tail(s)[k] = s[k + 1]
  BY <1>1
<1>4. s[1] \in S
  BY <1>1
<1>5. Len(s) = 1 => Tail(s) = <<>>
  <2>1. \A t \in Seq(S) : Len(t) = 0 => t = <<>>
    BY EmptySeq
  <2> QED
    <3>1. Len(s) = 1 => Len(Tail(s)) = 0
      BY <1>2
    <3> QED BY <1>2, <2>1, <3>1
<1> QED
  BY <1>1, <1>2, <1>3, <1>4, <1>5

LEMMA Joined ==
  ASSUME NEW S, NEW s \in Seq(S), NEW t \in Seq(S)
  PROVE  /\ s \o t \in Seq(S) /\ Len(s \o t) = Len(s) + Len(t)
         /\ \A k \in 1 .. Len(s) : (s \o t)[k] = s[k]
         /\ \A k \in 1 .. Len(t) : (s \o t)[Len(s) + k] = t[k]
OBVIOUS

LEMMA Appended ==
  ASSUME NEW S, NEW s \in Seq(S), NEW x \in S
  PROVE  /\ Append(s, x) \in Seq(S) /\ Len(Append(s, x)) = Len(s) + 1
         /\ \A k \in 1 .. Len(s) : Append(s, x)[k] = s[k]
         /\ Append(s, x)[Len(s) + 1] = x
OBVIOUS

LEMMA Cut ==
  ASSUME NEW S, NEW s \in Seq(S), NEW i \in {0, Len(s)}
  PROVE  IF i = 0 THEN SubSeq(s, 1, i) = <<>> ELSE SubSeq(s, 1, i) = s
<1>1. Len(s) \in Nat OBVIOUS
<1>2. CASE i = 0 BY <1>2
<1>3. CASE i # 0
  <2>1. i = Len(s) BY <1>3
  <2>2. SubSeq(s, 1, Len(s)) \in Seq(S) /\ Len(SubSeq(s, 1, Len(s))) = Len(s) BY <1>1
  <2>3. \A k \in 1 .. Len(s) : SubSeq(s, 1, Len(s))[k] = s[k] BY <1>1
  <2> QED BY <1>3, <2>1, <2>2, <2>3
<1> QED BY <1>2, <1>3

(***************************************************************************)
(* The compounds                                                           *)
(***************************************************************************)
Lookups == {"root", "open", "save", "putfd"}

\* The beginning of a compound.
Opening(p) == /\ p \in Seq(Requests) /\ Len(p) >= 1 /\ p[1] = "begin"
              /\ \A k \in 2 .. Len(p) : p[k] \in Lookups

\* A whole one: with one operation at most.
Compound(R) ==
  /\ R \in Seq(Requests) /\ Len(R) >= 2 /\ R[1] = "begin" /\ R[Len(R)] = "end"
  /\ \A k \in 2 .. Len(R) : R[k] # "begin"
  /\ \A k \in 1 .. Len(R) - 1 : R[k] # "end"
  /\ \A k, l \in 1 .. Len(R) : R[k] = "op" /\ R[l] = "op" => k = l

HasOp(R) == \E k \in 1 .. Len(R) : R[k] = "op"

LEMMA OpeningGoesOn ==
  ASSUME NEW p, Opening(p), NEW w \in Seq(Lookups)
  PROVE  Opening(p \o w)
<1>1. w \in Seq(Requests)
  BY DEF Lookups, Requests
<1>2. \A k \in 2 .. Len(p \o w) : (p \o w)[k] \in Lookups
  <2> TAKE k \in 2 .. Len(p \o w)
  <2>1. CASE k <= Len(p)
    BY <2>1, <1>1, Joined DEF Opening
  <2>2. CASE k > Len(p)
    <3>1. k - Len(p) \in 1 .. Len(w)
      BY <2>2, <1>1 DEF Opening
    <3>2. (p \o w)[Len(p) + (k - Len(p))] = w[k - Len(p)]
      BY <3>1, <1>1 DEF Opening
    <3> QED BY <3>1, <3>2, <1>1 DEF Opening
  <2> QED BY <2>1, <2>2, <1>1 DEF Opening
<1> QED
  BY <1>1, <1>2 DEF Opening

LEMMA OpeningEnds ==
  ASSUME NEW p, Opening(p), NEW x \in {<<>>, <<"op">>, <<"op", "getfd">>}
  PROVE  Compound(p \o x \o <<"end">>) /\ (HasOp(p \o x \o <<"end">>) <=> x # <<>>)
<1> DEFINE R == p \o x \o <<"end">>
<1>1. x \in Seq(Requests) /\ <<"end">> \in Seq(Requests) /\ p \in Seq(Requests)
  <2>1. CASE x = <<>> BY <2>1 DEF Requests, Opening
  <2>2. CASE x = <<"op">> BY <2>2 DEF Requests, Opening
  <2>3. CASE x = <<"op", "getfd">> BY <2>3 DEF Requests, Opening
  <2> QED BY <2>1, <2>2, <2>3
<1>2. R \in Seq(Requests) /\ Len(R) = Len(p) + Len(x) + 1 /\ Len(x) \in 0 .. 2
  BY <1>1
<1>3. \A k \in 1 .. Len(p) : R[k] = p[k]
  BY <1>1
<1>4. \A k \in 1 .. Len(x) : R[Len(p) + k] = x[k]
  BY <1>1
<1>5. R[Len(R)] = "end"
  BY <1>1
<1>6. \A k \in 1 .. Len(R) : k <= Len(p) \/ (k - Len(p) \in 1 .. Len(x)) \/ k = Len(R)
  BY <1>1, <1>2
<1>7. \A k \in 1 .. Len(x) : x[k] \in {"op", "getfd"} /\ (x[k] = "op" <=> k = 1)
  OBVIOUS
<1>8. \A k \in 1 .. Len(p) : p[k] \notin {"end", "op", "getfd"} /\ (p[k] = "begin" <=> k = 1)
  BY DEF Opening, Lookups
<1>9. \A k \in 1 .. Len(R) : k > Len(p) /\ k < Len(R) => R[k] = x[k - Len(p)] /\ k - Len(p) \in 1 .. Len(x)
  BY <1>1, <1>2, <1>4, <1>6
<1>10. Len(p) \in Nat /\ Len(p) >= 1
  BY DEF Opening
<1> HIDE DEF R
<1>11. \A k \in 1 .. Len(R) : R[k] = "op" <=> (k = Len(p) + 1 /\ Len(x) > 0)
  BY <1>2, <1>3, <1>5, <1>6, <1>7, <1>8, <1>9, <1>10
<1>12. Compound(R)
  <2>1. R[1] = "begin"
    BY <1>3, <1>8, <1>10
  <2>2. \A k \in 1 .. Len(R) : R[k] = "begin" => k = 1
    BY <1>2, <1>3, <1>5, <1>6, <1>7, <1>8, <1>9, <1>10
  <2>3. \A k \in 1 .. Len(R) : R[k] = "end" => k = Len(R)
    BY <1>2, <1>3, <1>5, <1>6, <1>7, <1>8, <1>9, <1>10
  <2> QED
    BY <1>2, <1>5, <1>10, <1>11, <2>1, <2>2, <2>3 DEF Compound
<1>13. HasOp(R) <=> Len(x) > 0
  BY <1>2, <1>10, <1>11 DEF HasOp
<1>14. Len(x) > 0 <=> x # <<>>
  OBVIOUS
<1> QED
  BY <1>12, <1>13, <1>14 DEF R

LEMMA LookupDirIs ==
  ASSUME NEW path \in Nat
  PROVE  LookupDirResult(path) \in Seq(Lookups)
<1>1. CASE path = 0
  BY <1>1 DEF LookupDirResult
<1>2. CASE path # 0
  <2>1. [k \in 1 .. path - 1 |-> "open"] \in Seq(Lookups)
    BY <1>2 DEF Lookups
  <2> QED BY <1>2, <2>1 DEF LookupDirResult, Lookups
<1> QED BY <1>1, <1>2

LEMMA ParentIs ==
  ASSUME NEW path \in Nat
  PROVE  Opening(LookupParentResult(path))
<1>1. Opening(<<"begin">>)
  BY DEF Opening, Requests
<1> QED
  BY <1>1, LookupDirIs, OpeningGoesOn DEF LookupParentResult

LEMMA TmpOpenIs ==
  ASSUME NEW path \in Nat
  PROVE  Opening(TmpOpenResult(path))
<1> DEFINE x == IF path = 0 THEN "root" ELSE "open"
           p == LookupParentResult(path)
<1>1. Opening(p) /\ p \in Seq(Requests) /\ x \in Lookups /\ x \in Requests
  BY ParentIs DEF Opening, Lookups, Requests
<1> HIDE DEF p, x
<1>2. Opening(Append(p, x))
  BY <1>1, Appended DEF Opening
<1> QED
  BY <1>2 DEF p, x, TmpOpenResult

\* Both passes agree; a compound has one operation, unless it is about "/".
LEMMA ResultsAre ==
  ASSUME NEW o \in Operations
  PROVE  /\ RequestsOf(o) = ResultsOf(o)
         /\ IF o.kind = "statfs" THEN ResultsOf(o) = <<"op">> ELSE Compound(ResultsOf(o))
         /\ HasOp(ResultsOf(o)) <=> ~RootError(o)
         /\ OnFile(o) \/ LookupLength(o) >= 1
         /\ Refs(o) \in {1, 2} /\ (Opens(o) \/ OnFile(o) => Refs(o) = 1)
         /\ ~(Opens(o) /\ OnFile(o))
<1>0. o.src \in Nat /\ o.dst \in Nat /\ o.kind \in OpKinds
  BY DEF Operations
<1>1. RequestsOf(o) = ResultsOf(o)
  BY <1>0 DEF RequestsOf, ResultsOf, OpKinds, NameRequest, NameResult, InodeRequest, InodeResult,
     RenameRequest, RenameResult, LinkRequest, LinkResult, FdRequest, FdResult, LookupDirRequest,
     LookupDirResult, LookupParentRequest, LookupParentResult, TmpOpenRequest, TmpOpenResult
<1>2. Len(LookupParentResult(o.src)) >= 1 /\ Len(TmpOpenResult(o.src)) >= 1
  BY <1>0, ParentIs, TmpOpenIs DEF Opening
<1>3. OnFile(o) \/ LookupLength(o) >= 1
  BY <1>0, <1>2 DEF OnFile, LookupLength, OpKinds
<1>4. Refs(o) \in {1, 2} /\ (Opens(o) \/ OnFile(o) => Refs(o) = 1) /\ ~(Opens(o) /\ OnFile(o))
  BY DEF Refs, Opens, OnFile
<1>5. \A p : Opening(p) => /\ Compound(p \o <<"op", "end">>) /\ HasOp(p \o <<"op", "end">>)
  <2> SUFFICES ASSUME NEW p, Opening(p)
               PROVE  Compound(p \o <<"op", "end">>) /\ HasOp(p \o <<"op", "end">>)
    OBVIOUS
  <2>1. p \o <<"op", "end">> = p \o <<"op">> \o <<"end">>
    <3>1. p \in Seq(Requests) BY DEF Opening
    <3> QED BY <3>1
  <2> QED BY <2>1, OpeningEnds
<1>6. CASE o.kind \in {"name", "create"}
  <2>1. PICK x \in {<<"op">>, <<"op", "getfd">>} : ResultsOf(o) = NameResult(o.src, x)
    BY <1>6 DEF ResultsOf
  <2>2. If(o.src # 0, x) \in {<<>>, <<"op">>, <<"op", "getfd">>} /\ (If(o.src # 0, x) # <<>> <=> o.src # 0)
    <3>1. CASE o.src = 0 BY <3>1 DEF If
    <3>2. CASE o.src # 0 BY <2>1, <3>2 DEF If
    <3> QED BY <3>1, <3>2
  <2>3. Compound(ResultsOf(o)) /\ (HasOp(ResultsOf(o)) <=> o.src # 0)
    BY <2>1, <2>2, <1>0, ParentIs, OpeningEnds DEF NameResult
  <2> QED BY <1>1, <1>3, <1>4, <1>6, <2>3 DEF RootError
<1>7. CASE o.kind \in {"inode", "open"}
  <2>1. ResultsOf(o) = TmpOpenResult(o.src) \o <<"op", "end">>
    BY <1>7 DEF ResultsOf, InodeResult
  <2> QED BY <1>0, <1>1, <1>3, <1>4, <1>5, <1>7, <2>1, TmpOpenIs DEF RootError
<1>8. CASE o.kind = "rename"
  <2>1. ResultsOf(o) = RenameResult(o.src, o.dst)
    BY <1>8 DEF ResultsOf
  <2>2. If(o.src # 0, <<"save">>) \in Seq(Lookups)
    <3>1. CASE o.src = 0 BY <3>1 DEF If
    <3>2. CASE o.src # 0 BY <3>2 DEF If, Lookups
    <3> QED BY <3>1, <3>2
  <2>3. Opening(LookupParentResult(o.src) \o If(o.src # 0, <<"save">>) \o LookupDirResult(o.dst))
    BY <1>0, <2>2, ParentIs, LookupDirIs, OpeningGoesOn
  <2>4. /\ If(o.src # 0 /\ o.dst # 0, <<"op">>) \in {<<>>, <<"op">>, <<"op", "getfd">>}
        /\ If(o.src # 0 /\ o.dst # 0, <<"op">>) # <<>> <=> o.src # 0 /\ o.dst # 0
    BY DEF If
  <2>5. Compound(ResultsOf(o)) /\ (HasOp(ResultsOf(o)) <=> o.src # 0 /\ o.dst # 0)
    BY <2>1, <2>3, <2>4, OpeningEnds DEF RenameResult
  <2> QED BY <1>1, <1>3, <1>4, <1>8, <2>5 DEF RootError
<1>9. CASE o.kind = "link"
  <2>1. ResultsOf(o) = LinkResult(o.src, o.dst)
    BY <1>9 DEF ResultsOf
  <2>2. <<"save">> \in Seq(Lookups)
    BY DEF Lookups
  <2>3. Opening(TmpOpenResult(o.src) \o <<"save">> \o LookupDirResult(o.dst))
    BY <1>0, <2>2, TmpOpenIs, LookupDirIs, OpeningGoesOn
  <2>4. /\ If(o.dst # 0, <<"op">>) \in {<<>>, <<"op">>, <<"op", "getfd">>}
        /\ If(o.dst # 0, <<"op">>) # <<>> <=> o.dst # 0
    BY DEF If
  <2>5. Compound(ResultsOf(o)) /\ (HasOp(ResultsOf(o)) <=> o.dst # 0)
    BY <2>1, <2>3, <2>4, OpeningEnds DEF LinkResult
  <2> QED BY <1>1, <1>3, <1>4, <1>9, <2>5 DEF RootError
<1>10. CASE o.kind \in {"fd", "close"}
  <2>1. Opening(<<"begin", "putfd">>)
    BY DEF Opening, Requests, Lookups
  <2>2. ResultsOf(o) = <<"begin", "putfd">> \o <<"op", "end">>
    BY <1>10 DEF ResultsOf, FdResult
  <2> QED BY <1>1, <1>3, <1>4, <1>5, <1>10, <2>1, <2>2 DEF RootError
<1>11. CASE o.kind = "statfs"
  <2>1. ResultsOf(o) = <<"op">>
    BY <1>11 DEF ResultsOf
  <2> QED BY <1>1, <1>3, <1>4, <1>11, <2>1 DEF RootError, HasOp
<1> QED
  BY <1>0, <1>6, <1>7, <1>8, <1>9, <1>10, <1>11 DEF OpKinds

(***************************************************************************)
(* The steps of an operation                                               *)
(***************************************************************************)
LEMMA NoOpIs == NoOp.kind = "none" /\ ~Opens(NoOp) /\ ~OnFile(NoOp) /\ NoOp \notin Operations
BY DEF NoOp, Op, Opens, OnFile, Operations, OpKinds

LEMMA OpsAre == DOMAIN Ops = 1 .. Len(Ops) /\ Len(Ops) \in Nat
BY GfmAssumption

LEMMA RefsAre == Refs(op.o) \in {1, 2}
BY DEF Refs

\* What is sent is on finitely many connections.
LEMMA SentFinite ==
  ASSUME NEW n
  PROVE  IsFiniteSet(SentOn(n)) /\ Cardinality(SentOn(n)) \in Nat
<1>1. IsFiniteSet(SentOn(n))
  BY GfmAssumption, FS_Subset DEF SentOn
<1> QED BY <1>1, FS_CardinalityType

\* One connection changes.
LEMMA OneWire ==
  ASSUME GfmTypeOK, NEW c \in Wire, NEW l \in WireStates, wires' = [wires EXCEPT ![c] = l]
  PROVE  /\ wires' \in [Wire -> WireStates] /\ wires'[c] = l
         /\ \A d \in Wire \ {c} : wires'[d] = wires[d]
BY DEF GfmTypeOK

LEMMA HeldAs ==
  ASSUME NEW l \in WireStates, NEW h \in Int
  PROVE  LET m == [l EXCEPT !.held = h]
         IN  /\ m \in WireStates /\ m.held = h /\ m.st = l.st /\ m.cached = l.cached
             /\ m.pid = l.pid /\ m.out = l.out /\ m.in = l.in
BY DEF WireStates

LEMMA UpAs ==
  ASSUME NEW l \in WireStates
  PROVE  LET m == [l EXCEPT !.st = "up", !.cached = TRUE, !.held = 1]
         IN  /\ m \in WireStates /\ m.st = "up" /\ m.cached = TRUE /\ m.held = 1 /\ m.pid = l.pid
             /\ m.out = l.out /\ m.in = l.in
<1> DEFINE x == [l EXCEPT !.st = "up"]
           y == [x EXCEPT !.cached = TRUE]
<1>1. x \in WireStates /\ x.st = "up" /\ x.pid = l.pid /\ x.out = l.out /\ x.in = l.in
  BY DEF WireStates
<1> HIDE DEF x
<1>2. /\ y \in WireStates /\ y.st = "up" /\ y.cached = TRUE /\ y.pid = l.pid /\ y.out = l.out
      /\ y.in = l.in
  BY <1>1 DEF WireStates
<1>3. y = [l EXCEPT !.st = "up", !.cached = TRUE]
  BY DEF x
<1> HIDE DEF y
<1>4. [y EXCEPT !.held = 1] = [l EXCEPT !.st = "up", !.cached = TRUE, !.held = 1]
  BY <1>3
<1> QED
  BY <1>2, <1>4, HeldAs

LEMMA NewWireIs ==
  /\ NewWire \in WireStates
  /\ NewWire.st = "none" /\ ~NewWire.cached /\ NewWire.held = 0 /\ NewWire.pid = FALSE
  /\ NewWire.out = <<>> /\ NewWire.in = <<>>
<1> DEFINE e == <<>>
           New == [st |-> "none", cached |-> FALSE, held |-> 0, pid |-> FALSE, out |-> e, in |-> e]
<1>1. NewWire = New
  BY DEF NewWire
<1>2. e \in Seq(Asks) /\ e \in Seq(Answers)
  OBVIOUS
<1> HIDE DEF e
<1>3. /\ New \in WireStates /\ New.st = "none" /\ ~New.cached /\ New.held = 0 /\ New.pid = FALSE
      /\ New.out = e /\ New.in = e
  BY <1>2 DEF WireStates
<1> HIDE DEF New
<1>4. e = <<>>
  BY DEF e
<1> QED
  BY <1>1, <1>3, <1>4

LEMMA BeginStep ==
  ASSUME GfmInv, NEW o \in UNION Range(Ops), BeginOp(o)
  PROVE  GfmInv'
<1> USE DEF GfmInv
<1>1. o \in Operations /\ op.n + 1 \in DOMAIN Ops
  <2>1. op.n + 1 \in DOMAIN Ops /\ o \in Ops[op.n + 1]
    BY OpsAre DEF BeginOp, GfmTypeOK, OpStates
  <2> QED BY <2>1, GfmAssumption
<1>2. /\ op.pc = "idle" /\ op.c = NoWire /\ op.o = NoOp
      /\ UNCHANGED <<wires, gfmd, open, log>>
  BY DEF BeginOp, Placed
<1> DEFINE stale == gfmd.up /\ ~OnFile(o) /\ \E c \in Cached : wires[c].st = "lost" /\ wires[c].pid
<1>a. op' = [pc |-> IF OnFile(o) THEN "request" ELSE "acquire", o |-> o, n |-> op.n + 1,
             c |-> IF OnFile(o) THEN open ELSE NoWire, i |-> 1, retry |-> 0, sleep |-> 0,
             stale |-> stale, faults |-> 0]
  BY DEF BeginOp, NotRunning
<1>b. stale \in BOOLEAN
  OBVIOUS
<1>c. op.n + 1 \in 0 .. Len(Ops)
  BY <1>1, OpsAre
<1>3. /\ op' \in OpStates /\ op'.o = o /\ op'.n = op.n + 1 /\ op'.i = 1 /\ op'.retry = 0
      /\ op'.faults = 0
      /\ op'.pc = (IF OnFile(o) THEN "request" ELSE "acquire")
      /\ op'.c = (IF OnFile(o) THEN open ELSE NoWire)
      /\ op'.stale = stale
  <2> HIDE DEF stale
  <2> QED BY <1>1, <1>a, <1>b, <1>c DEF OpStates, GfmTypeOK
<1>4. GfmTypeOK'
  BY <1>2, <1>3 DEF GfmTypeOK
<1>5. Placed'
  BY <1>1, <1>2, <1>3 DEF Placed, BeginOp, GfmTypeOK, Opens, OnFile
<1>6. \A c \in Wire : RefsTo(c)' = RefsTo(c)
  BY <1>2, <1>3, GfmAssumption, NoOpIs DEF RefsTo, OnFile
<1>7. Held'
  <2>1. \A c \in Wire : c = open \/ c = op.c <=> c = open \/ c = op'.c
    BY <1>2, <1>3, GfmAssumption
  <2> QED BY <1>2, <1>6, <2>1 DEF Held, Cached
<1>8. Traffic'
  <2>1. \A c : ~Reading(c) /\ ~Reading(c)'
    BY <1>2, <1>3 DEF Reading
  <2> QED BY <1>2, <2>1 DEF Traffic, Finished
<1>9. SentOnce'
  BY <1>2, <1>3, <1>4 DEF SentOnce, GfmTypeOK, OpStates
<1>10. \A n : \A c \in Wire : Sent(c, n)' = Sent(c, n)
  BY <1>2 DEF Sent
<1>11. \A n \in DOMAIN Ops : Asked(n)' = Asked(n)
  BY <1>2, <1>3, GfmAssumption DEF Asked, GfmTypeOK, OpStates
<1>12. AskedFor'
  BY <1>2, <1>10, <1>11 DEF AskedFor, SentOn
<1>13. Done'
  BY <1>2, <1>3, <1>4, GfmAssumption DEF Done, GfmTypeOK, OpStates
<1>14. Replaced'
  <2> SUFFICES ASSUME op'.stale PROVE Replaced'
    BY DEF Replaced
  <2>1. stale /\ op'.pc = "acquire" /\ op'.retry = 0 /\ op'.o = o
    BY <1>3
  <2>2. Cached' = Cached
    BY <1>2 DEF Cached
  <2> QED BY <1>2, <2>1, <2>2 DEF Replaced
<1>15. StaleForgiven'
  BY <1>2 DEF StaleForgiven
<1> QED
  BY <1>4, <1>5, <1>7, <1>8, <1>9, <1>12, <1>13, <1>14, <1>15

\* An operation may end when its references are given back and its connection, if it
\* is still there, is one on which gfmd has nothing more to do.
LEMMA EndKeeps ==
  ASSUME GfmInv, op.pc # "idle", NEW e \in Results, NEW ls \in [Wire -> WireStates],
         EndOp(e, ls), gfmd' = gfmd, open' \in Wire \cup {NoWire},
         \A c \in Wire : /\ ls[c].in = <<>> /\ ls[c].out = wires[c].out
                         /\ ls[c].st \in {wires[c].st, "none"}
                         /\ ls[c].held = (IF c = open' THEN 1 ELSE 0)
                         /\ ls[c].st # "none" <=> ls[c].cached \/ c = open'
                         /\ ls[c].cached => wires[c].cached
                         /\ Reading(c) /\ ls[c].st = "up" => Finished(c),
         e = "ok" => log[op.n].executed >= 1,
         e = "connection" => ~(op.stale /\ op.faults = 0)
  PROVE  GfmInv'
<1> USE DEF GfmInv
<1>1. /\ wires' = ls
      /\ op.n \in DOMAIN Ops /\ op.n \in Nat
  BY DEF EndOp, Placed, GfmTypeOK, OpStates
<1>2. /\ op' \in OpStates /\ op'.pc = "idle" /\ op'.o = NoOp /\ op'.n = op.n /\ op'.c = NoWire
      /\ op'.faults = 0 /\ ~op'.stale
  BY DEF EndOp, NotRunning, GfmTypeOK, OpStates
<1>3. /\ log' \in [DOMAIN Ops -> LogEntries]
      /\ \A n \in DOMAIN Ops : log'[n].executed = log[n].executed /\ (n # op.n => log'[n] = log[n])
      /\ log'[op.n].result = e /\ log'[op.n].stale = op.stale /\ log'[op.n].faults = op.faults
  BY <1>1 DEF EndOp, GfmTypeOK, LogEntries, OpStates
<1>4. GfmTypeOK'
  BY <1>1, <1>2, <1>3 DEF GfmTypeOK
<1>5. Placed'
  BY <1>2, NoOpIs DEF Placed
<1>6. Held'
  <2>1. \A c \in Wire : RefsTo(c)' = IF c = open' THEN 1 ELSE 0
    BY <1>2, GfmAssumption DEF RefsTo
  <2>2. \A c, d \in Cached' : c = d
    BY <1>1 DEF Cached, Held
  <2>3. \A c \in Wire : c # op'.c
    BY <1>2, GfmAssumption
  <2> QED BY <1>1, <2>1, <2>2, <2>3 DEF Held
<1>7. Traffic'
  <2>1. \A c : ~Reading(c)'
    BY <1>2 DEF Reading
  <2>2. \A c \in Wire : ls[c].st = "up" => Finished(c)
    BY DEF Traffic
  <2>3. \A c \in Wire : Finished(c)' = Finished(c)
    BY <1>1 DEF Finished
  <2> QED BY <1>1, <2>1, <2>2, <2>3 DEF Traffic
<1>8. SentOnce'
  BY <1>1, <1>2 DEF SentOnce
<1>9. AskedFor'
  <2> SUFFICES ASSUME NEW n \in DOMAIN Ops
               PROVE  (log[n].executed + Cardinality(SentOn(n)) <= Asked(n))'
    BY DEF AskedFor
  <2>1. SentOn(n)' = SentOn(n)
    BY <1>1 DEF Sent, SentOn
  <2>2. n \in Nat /\ op.faults \in Nat /\ log[n].faults \in Nat /\ log[n].executed \in Nat
    BY OpsAre DEF GfmTypeOK, LogEntries, OpStates
  <2>3. log'[n].faults = (IF n = op.n THEN op.faults ELSE log[n].faults)
    BY <1>3
  <2>4. Asked(n) <= Asked(n)' /\ Asked(n) \in Nat /\ Asked(n)' \in Nat
    BY <1>1, <1>2, <2>2, <2>3 DEF Asked
  <2>5. log'[n].executed = log[n].executed
    BY <1>3
  <2>6. Cardinality(SentOn(n)) \in Nat
    BY SentFinite
  <2>7. log[n].executed + Cardinality(SentOn(n)) <= Asked(n)
    BY DEF AskedFor
  <2> HIDE DEF GfmInv
  <2> QED BY <2>1, <2>2, <2>4, <2>5, <2>6, <2>7
<1>10. Done'
  BY <1>1, <1>2, <1>3, GfmAssumption DEF Done
<1>11. Replaced'
  BY <1>2 DEF Replaced
<1>12. StaleForgiven'
  BY <1>1, <1>3 DEF StaleForgiven
<1> QED
  BY <1>4, <1>5, <1>6, <1>7, <1>8, <1>9, <1>10, <1>11, <1>12

\* It goes on to another place; nothing is sent or answered.
LEMMA AcquireStep ==
  ASSUME GfmInv, AcquireWire
  PROVE  GfmInv'
<1> USE DEF GfmInv
<1>1. PICK c \in Cached :
        /\ op' = [op EXCEPT !.c = c, !.pc = IF wires[c].pid THEN "request" ELSE "alloc"]
        /\ wires' = [wires EXCEPT ![c].held = @ + IF wires[c].pid THEN Refs(op.o) ELSE 1]
  BY DEF AcquireWire
<1>2. /\ c \in Wire /\ wires[c].cached /\ op.pc = "acquire" /\ op.c = NoWire
      /\ ~OnFile(op.o) /\ UNCHANGED <<gfmd, open, log>> /\ c # NoWire
  BY GfmAssumption DEF AcquireWire, Cached, Placed
<1>3. /\ op' \in OpStates /\ op'.pc = (IF wires[c].pid THEN "request" ELSE "alloc") /\ op'.c = c
      /\ op'.o = op.o /\ op'.n = op.n /\ op'.retry = op.retry /\ op'.stale = op.stale
      /\ op'.faults = op.faults /\ op'.i = op.i
  BY <1>1, <1>2 DEF GfmTypeOK, OpStates
<1>4. /\ wires' \in [Wire -> WireStates]
      /\ \A d \in Wire : /\ wires'[d].st = wires[d].st /\ wires'[d].cached = wires[d].cached
                         /\ wires'[d].pid = wires[d].pid /\ wires'[d].out = wires[d].out
                         /\ wires'[d].in = wires[d].in
                         /\ d # c => wires'[d].held = wires[d].held
      /\ wires'[c].held = wires[c].held + (IF wires[c].pid THEN Refs(op.o) ELSE 1)
  <2> DEFINE h == wires[c].held + (IF wires[c].pid THEN Refs(op.o) ELSE 1)
             l == [wires[c] EXCEPT !.held = h]
  <2>1. wires[c] \in WireStates /\ h \in Int
    <3>1. wires[c] \in WireStates
      BY <1>2 DEF GfmTypeOK
    <3>2. wires[c].held \in Int
      BY <3>1 DEF WireStates
    <3> QED BY <3>1, <3>2, RefsAre
  <2>2. wires' = [wires EXCEPT ![c] = l]
    BY <1>1
  <2> HIDE DEF h
  <2>3. /\ l \in WireStates /\ l.held = h /\ l.st = wires[c].st /\ l.cached = wires[c].cached
        /\ l.pid = wires[c].pid /\ l.out = wires[c].out /\ l.in = wires[c].in
    BY <2>1, HeldAs
  <2> HIDE DEF l
  <2>4. /\ wires' \in [Wire -> WireStates] /\ wires'[c] = l
        /\ \A d \in Wire \ {c} : wires'[d] = wires[d]
    BY <1>2, <2>2, <2>3, OneWire
  <2> QED BY <2>3, <2>4 DEF h
<1>5. GfmTypeOK'
  BY <1>2, <1>3, <1>4 DEF GfmTypeOK
<1>6. Placed'
  BY <1>2, <1>3 DEF Placed
<1>7. Held'
  <2>1. RefsTo(c)' = RefsTo(c) + (IF wires[c].pid THEN Refs(op.o) ELSE 1)
    BY <1>2, <1>3, RefsAre DEF RefsTo
  <2>2. \A d \in Wire \ {c} : RefsTo(d)' = RefsTo(d)
    BY <1>2, <1>3, GfmAssumption DEF RefsTo
  <2>3. Cached' = Cached
    BY <1>4 DEF Cached
  <2> QED BY <1>2, <1>3, <1>4, <2>1, <2>2, <2>3, GfmAssumption DEF Held
<1>8. Traffic'
  <2>1. \A d : ~Reading(d) /\ ~Reading(d)'
    BY <1>2, <1>3 DEF Reading
  <2> QED BY <1>2, <1>4, <2>1 DEF Traffic, Finished
<1>9. SentOnce'
  <2>1. \A d : ~Reading(d) /\ ~Reading(d)'
    BY <1>2, <1>3 DEF Reading
  <2> QED BY <1>2, <1>3, <1>4, <2>1 DEF SentOnce
<1>10. AskedFor'
  <2>1. \A n : SentOn(n)' = SentOn(n)
    BY <1>4 DEF SentOn, Sent
  <2>2. \A n : Asked(n)' = Asked(n)
    BY <1>2, <1>3 DEF Asked
  <2> QED BY <1>2, <2>1, <2>2 DEF AskedFor
<1>11. Done'
  BY <1>2, <1>3 DEF Done
<1>12. Replaced'
  <2> SUFFICES ASSUME op.stale, op.faults = 0 PROVE Replaced'
    BY <1>3 DEF Replaced
  <2>1. op.retry = 0 /\ \E d \in Cached : wires[d].st = "lost" /\ wires[d].pid
    BY <1>1, <1>2 DEF Replaced, GfmTypeOK, OpStates
  <2>2. wires[c].st = "lost" /\ wires[c].pid
    BY <1>1, <2>1 DEF Held
  <2>3. gfmd'.up /\ wires'[c].st = "lost" /\ wires'[c].cached
    BY <1>2, <1>4, <2>2 DEF Replaced
  <2> QED BY <1>2, <1>3, <2>1, <2>2, <2>3 DEF Replaced
<1>13. StaleForgiven'
  BY <1>2 DEF StaleForgiven
<1> QED
  BY <1>5, <1>6, <1>7, <1>8, <1>9, <1>10, <1>11, <1>12, <1>13

\* A new connection.
LEMMA ConnectStep ==
  ASSUME GfmInv, ConnectWire
  PROVE  GfmInv'
<1> USE DEF GfmInv
<1>1. op.pc = "acquire" /\ Cached = {} /\ open' = open /\ op.c = NoWire /\ ~OnFile(op.o)
  BY DEF ConnectWire, Placed
<1>2. \A d : ~Reading(d)
  BY <1>1 DEF Reading
<1>3. \A d \in Wire : /\ ~wires[d].cached /\ d # op.c /\ wires[d].in = <<>>
                      /\ wires[d].held = (IF d = open THEN 1 ELSE 0)
                      /\ wires[d].st # "none" <=> d = open
  BY <1>1, <1>2, GfmAssumption DEF Cached, Held, RefsTo, Traffic
<1>4. ASSUME gfmd.up, EndOp("error", wires), UNCHANGED gfmd
      PROVE  GfmInv'
  BY <1>1, <1>2, <1>3, <1>4, EndKeeps DEF Results, GfmTypeOK
<1>5. ASSUME ~gfmd.up, EndOp("connection", wires), UNCHANGED gfmd
      PROVE  GfmInv'
  <2>1. ~(op.stale /\ op.faults = 0)
    BY <1>5 DEF Replaced
  <2> QED BY <1>1, <1>2, <1>3, <1>5, <2>1, EndKeeps DEF Results, GfmTypeOK
<1>6. ASSUME op' = [op EXCEPT !.sleep = IF @ = 0 THEN 1 ELSE 2 * @],
             UNCHANGED <<wires, log, gfmd>>
      PROVE  GfmInv'
  <2>1. /\ op' \in OpStates
        /\ op'.pc = op.pc /\ op'.o = op.o /\ op'.n = op.n /\ op'.c = op.c /\ op'.i = op.i
        /\ op'.retry = op.retry /\ op'.stale = op.stale /\ op'.faults = op.faults
    BY <1>6 DEF GfmTypeOK, OpStates
  <2>2. GfmTypeOK' /\ Placed' /\ StaleForgiven'
    BY <1>1, <1>6, <2>1 DEF GfmTypeOK, Placed, StaleForgiven
  <2>3. Held'
    <3>1. \A c : RefsTo(c)' = RefsTo(c)
      BY <1>1, <2>1 DEF RefsTo
    <3> QED BY <1>1, <1>6, <2>1, <3>1 DEF Held, Cached
  <2>4. \A c : Reading(c)' = Reading(c)
    BY <2>1 DEF Reading
  <2>5. Traffic'
    BY <1>2, <1>6, <2>4 DEF Traffic, Finished
  <2>6. SentOnce'
    BY <1>6, <2>1, <2>4 DEF SentOnce
  <2>7. AskedFor'
    <3>1. \A n : SentOn(n)' = SentOn(n) /\ Asked(n)' = Asked(n)
      BY <1>6, <2>1 DEF SentOn, Sent, Asked
    <3> QED BY <1>6, <3>1 DEF AskedFor
  <2>8. Done' /\ Replaced'
    BY <1>6, <2>1 DEF Done, Replaced, Cached
  <2> QED BY <2>2, <2>3, <2>5, <2>6, <2>7, <2>8
<1>7. ASSUME gfmd.up, NEW c \in Gone,
             wires' = [wires EXCEPT ![c] = [NewWire EXCEPT !.st = "up", !.cached = TRUE, !.held = 1]],
             op' = [op EXCEPT !.c = c, !.pc = "alloc", !.sleep = 0],
             gfmd' = [gfmd EXCEPT !.skip[c] = FALSE, !.in[c] = FALSE],
             UNCHANGED log
      PROVE  GfmInv'
  <2>1. /\ c \in Wire /\ c # NoWire /\ c # open /\ wires[c].out = <<>>
    BY <1>3, <1>7, GfmAssumption DEF Gone
  <2>2. /\ op' \in OpStates
        /\ op'.pc = "alloc" /\ op'.o = op.o /\ op'.n = op.n /\ op'.c = c /\ op'.i = op.i
        /\ op'.retry = op.retry /\ op'.stale = op.stale /\ op'.faults = op.faults
    BY <1>7, <2>1 DEF GfmTypeOK, OpStates
  <2>3. /\ wires' \in [Wire -> WireStates]
        /\ \A d \in Wire \ {c} : wires'[d] = wires[d]
        /\ wires'[c].st = "up" /\ wires'[c].cached /\ wires'[c].held = 1
        /\ wires'[c].out = <<>> /\ wires'[c].in = <<>>
    <3> DEFINE l == [NewWire EXCEPT !.st = "up", !.cached = TRUE, !.held = 1]
    <3>1. l \in WireStates /\ l.st = "up" /\ l.cached /\ l.held = 1 /\ l.out = <<>> /\ l.in = <<>>
      BY NewWireIs, UpAs
    <3>2. wires' = [wires EXCEPT ![c] = l]
      BY <1>7
    <3> HIDE DEF l
    <3> QED BY <2>1, <3>1, <3>2, OneWire
  <2>4. /\ gfmd' \in GfmdStates /\ gfmd'.up = gfmd.up
        /\ \A d \in Wire \ {c} : gfmd'.skip[d] = gfmd.skip[d] /\ gfmd'.in[d] = gfmd.in[d]
        /\ ~gfmd'.skip[c] /\ ~gfmd'.in[c]
    BY <1>7, <2>1 DEF GfmTypeOK, GfmdStates
  <2>5. GfmTypeOK' /\ Placed' /\ StaleForgiven'
    BY <1>1, <1>7, <2>1, <2>2, <2>3, <2>4 DEF GfmTypeOK, Placed, StaleForgiven
  <2>6. Held'
    <3>1. \A d \in Wire : RefsTo(d)' = IF d = c THEN 1 ELSE IF d = open THEN 1 ELSE 0
      BY <1>1, <2>1, <2>2 DEF RefsTo
    <3>2. Cached' = {c}
      BY <1>3, <2>1, <2>3 DEF Cached
    <3>3. \A d \in Wire \ {c} : wires'[d].st # "none" <=> wires'[d].cached \/ d = open \/ d = c
      BY <1>3, <2>3
    <3> QED BY <1>1, <1>3, <2>1, <2>2, <2>3, <3>1, <3>2, <3>3 DEF Held
  <2>7. \A d : ~Reading(d)'
    BY <2>2 DEF Reading
  <2>8. Traffic'
    <3> SUFFICES ASSUME NEW d \in Wire
                 PROVE  wires'[d].in = <<>> /\ (wires'[d].st = "up" => Finished(d)')
      BY <2>7 DEF Traffic
    <3>1. CASE d = c
      BY <2>3, <2>4, <3>1 DEF Finished
    <3>2. CASE d # c
      BY <1>2, <2>3, <2>4, <3>2 DEF Finished, Traffic
    <3> QED BY <3>1, <3>2
  <2>9. SentOnce'
    <3> SUFFICES ASSUME NEW d \in Wire
                 PROVE  LET out == wires'[d].out IN
                        /\ \A k \in 1 .. Len(out) : out[k].n \in 1 .. op.n
                        /\ \A k, l \in 1 .. Len(out) : out[k].r = "op" /\ out[k] = out[l] => k = l
                        /\ wires'[d].st = "up" => \A k \in 1 .. Len(out) : out[k].n # op.n
      BY <2>2 DEF SentOnce
    <3>1. CASE d = c
      BY <2>3, <3>1
    <3>2. CASE d # c
      BY <1>1, <1>2, <2>3, <3>2 DEF SentOnce
    <3> QED BY <3>1, <3>2
  <2>10. AskedFor'
    <3>1. \A n : SentOn(n)' = SentOn(n)
      <4> SUFFICES ASSUME NEW n, NEW d \in Wire PROVE Sent(d, n)' = Sent(d, n)
        BY DEF SentOn
      <4> QED BY <2>1, <2>3 DEF Sent
    <3>2. \A n : Asked(n)' = Asked(n)
      BY <1>1, <1>7, <2>2 DEF Asked
    <3> QED BY <1>7, <3>1, <3>2 DEF AskedFor
  <2>11. Done'
    BY <1>1, <1>7, <2>2 DEF Done
  <2>12. Replaced'
    BY <1>1, <2>2, <2>3, <2>4 DEF Replaced, Cached, GfmTypeOK, OpStates
  <2> QED BY <2>5, <2>6, <2>8, <2>9, <2>10, <2>11, <2>12
<1>8. Gone # {} => (CHOOSE d \in Gone : TRUE) \in Gone
  OBVIOUS
<1> QED
  BY <1>1, <1>4, <1>5, <1>6, <1>7, <1>8 DEF ConnectWire

\* References are given back; a connection that is not cached is closed with the last one.
GivenBack(rs, ls, c, n) ==
  /\ rs \in [Wire -> WireStates] /\ \A d \in Wire \ {c} : rs[d] = ls[d]
  /\ rs[c].out = ls[c].out /\ rs[c].held = ls[c].held - n
  /\ rs[c].cached <=> ls[c].cached
  /\ rs[c].st = (IF ls[c].held - n = 0 /\ ~ls[c].cached THEN "none" ELSE ls[c].st)
  /\ rs[c].in = (IF ls[c].held - n = 0 /\ ~ls[c].cached THEN <<>> ELSE ls[c].in)

LEMMA FreedIs ==
  ASSUME NEW ls \in [Wire -> WireStates], NEW c \in Wire, NEW n \in Int
  PROVE  GivenBack(Release(ls, c, n), ls, c, n)
<1> DEFINE l == [ls[c] EXCEPT !.held = ls[c].held - n]
           g == [NewWire EXCEPT !.out = l.out]
           m == IF l.held = 0 /\ ~l.cached THEN g ELSE l
<1>1. ls[c] \in WireStates /\ ls[c].held - n \in Int /\ ls[c].cached \in BOOLEAN
  <2>1. ls[c] \in WireStates
    OBVIOUS
  <2> QED BY <2>1 DEF WireStates
<1>2. /\ l \in WireStates /\ l.held = ls[c].held - n /\ l.st = ls[c].st /\ l.cached = ls[c].cached
      /\ l.out = ls[c].out /\ l.in = ls[c].in
  BY <1>1, HeldAs
<1>3. Release(ls, c, n) = [ls EXCEPT ![c] = m]
  BY DEF Release
<1> HIDE DEF l
<1>4. /\ g \in WireStates /\ g.st = "none" /\ ~g.cached /\ g.held = 0 /\ g.out = l.out /\ g.in = <<>>
  <2>1. l.out \in Seq(Asks)
    BY <1>2 DEF WireStates
  <2>2. /\ g \in WireStates /\ g.st = NewWire.st /\ g.cached = NewWire.cached
        /\ g.held = NewWire.held /\ g.out = l.out /\ g.in = NewWire.in
    BY <2>1, NewWireIs DEF WireStates
  <2> QED BY <2>2, NewWireIs
<1> HIDE DEF g
<1>5. m \in WireStates
  BY <1>2, <1>4
<1>6. /\ m.out = ls[c].out /\ m.held = ls[c].held - n /\ (m.cached <=> ls[c].cached)
      /\ m.st = (IF ls[c].held - n = 0 /\ ~ls[c].cached THEN "none" ELSE ls[c].st)
      /\ m.in = (IF ls[c].held - n = 0 /\ ~ls[c].cached THEN <<>> ELSE ls[c].in)
  <2>1. CASE l.held = 0 /\ ~l.cached
    <3>1. m = g
      BY <2>1
    <3>2. g.cached \in BOOLEAN
      BY <1>4 DEF WireStates
    <3> QED BY <1>1, <1>2, <1>4, <2>1, <3>1, <3>2
  <2>2. CASE ~(l.held = 0 /\ ~l.cached)
    <3>1. m = l
      BY <2>2
    <3> QED BY <1>2, <2>2, <3>1
  <2> QED BY <2>1, <2>2
<1> HIDE DEF m
<1>7. PICK rs : rs = [ls EXCEPT ![c] = m]
  OBVIOUS
<1>8. rs[c] = m /\ rs \in [Wire -> WireStates] /\ \A d \in Wire \ {c} : rs[d] = ls[d]
  BY <1>5, <1>7
<1>9. GivenBack(rs, ls, c, n)
  BY <1>6, <1>8 DEF GivenBack
<1> QED
  BY <1>3, <1>7, <1>9

\* A connection is taken out of the cache.
LEMMA PurgedIs ==
  ASSUME NEW ls \in [Wire -> WireStates], NEW c \in Wire
  PROVE  LET ps == Purge(ls, c)
         IN  /\ ps \in [Wire -> WireStates] /\ \A d \in Wire \ {c} : ps[d] = ls[d]
             /\ ps[c].out = ls[c].out /\ ps[c].in = ls[c].in /\ ps[c].held = ls[c].held
             /\ ps[c].st = ls[c].st /\ ~ps[c].cached
<1> DEFINE l == [ls[c] EXCEPT !.cached = FALSE]
<1>1. l \in WireStates /\ l.st = ls[c].st /\ l.held = ls[c].held /\ l.out = ls[c].out /\ l.in = ls[c].in
      /\ ~l.cached
  BY DEF WireStates
<1>2. Purge(ls, c) = [ls EXCEPT ![c] = l]
  BY DEF Purge
<1> HIDE DEF l
<1> QED
  BY <1>1, <1>2

\* The connection of an operation that has one.
LEMMA OpWire ==
  ASSUME GfmTypeOK, Placed, op.pc \notin {"idle", "acquire"}
  PROVE  op.c \in Wire /\ op.c # NoWire
BY GfmAssumption DEF GfmTypeOK, Placed, OpStates

\* An operation without a process ends.
LEMMA AllocEnds ==
  ASSUME GfmInv, op.pc = "alloc", NEW e \in {"error", "connection"}, NEW ls \in [Wire -> WireStates],
         \A d \in Wire \ {op.c} : ls[d] = wires[d],
         ls[op.c].out = wires[op.c].out, ls[op.c].in = wires[op.c].in,
         ls[op.c].held = wires[op.c].held, ls[op.c].st = wires[op.c].st,
         ls[op.c].cached => wires[op.c].cached,
         EndOp(e, Release(ls, op.c, 1)), gfmd' = gfmd, open' = open,
         e = "connection" => ~(op.stale /\ op.faults = 0)
  PROVE  GfmInv'
<1> USE DEF GfmInv
<1>1. op.c \in Wire /\ op.c # NoWire /\ ~OnFile(op.o)
  BY OpWire DEF Placed
<1>2. \A d : ~Reading(d)
  BY DEF Reading
<1> DEFINE rs == Release(ls, op.c, 1)
<1>3. /\ rs \in [Wire -> WireStates] /\ \A d \in Wire \ {op.c} : rs[d] = wires[d]
      /\ rs[op.c].out = wires[op.c].out /\ rs[op.c].held = wires[op.c].held - 1
      /\ rs[op.c].cached <=> ls[op.c].cached
      /\ rs[op.c].st = (IF wires[op.c].held - 1 = 0 /\ ~ls[op.c].cached THEN "none" ELSE wires[op.c].st)
      /\ rs[op.c].in = (IF wires[op.c].held - 1 = 0 /\ ~ls[op.c].cached THEN <<>> ELSE wires[op.c].in)
  <2>1. /\ rs \in [Wire -> WireStates] /\ \A d \in Wire \ {op.c} : rs[d] = ls[d]
        /\ rs[op.c].out = ls[op.c].out /\ rs[op.c].held = ls[op.c].held - 1
        /\ rs[op.c].cached <=> ls[op.c].cached
        /\ rs[op.c].st = (IF ls[op.c].held - 1 = 0 /\ ~ls[op.c].cached THEN "none" ELSE ls[op.c].st)
        /\ rs[op.c].in = (IF ls[op.c].held - 1 = 0 /\ ~ls[op.c].cached THEN <<>> ELSE ls[op.c].in)
    <3> HIDE DEF GfmInv
    <3>1. op.c \in Wire /\ 1 \in Int
      BY <1>1
    <3>2. GivenBack(rs, ls, op.c, 1)
      BY ONLY <3>1, ls \in [Wire -> WireStates], FreedIs DEF rs
    <3> QED BY ONLY <3>2 DEF GivenBack
  <2> QED BY <2>1
<1>4. EndOp(e, rs)
  OBVIOUS
<1> HIDE DEF rs
<1>5. \A d \in Wire : wires[d].in = <<>> /\ wires[d].held = RefsTo(d)
                      /\ (wires[d].st # "none" <=> wires[d].cached \/ d = open \/ d = op.c)
  BY <1>2 DEF Traffic, Held
<1>6. RefsTo(op.c) = (IF op.c = open THEN 1 ELSE 0) + 1
      /\ \A d \in Wire \ {op.c} : RefsTo(d) = IF d = open THEN 1 ELSE 0
  BY <1>1 DEF RefsTo
<1>7. ASSUME NEW d \in Wire
      PROVE  /\ rs[d].in = <<>> /\ rs[d].out = wires[d].out
             /\ rs[d].st \in {wires[d].st, "none"}
             /\ rs[d].held = (IF d = open' THEN 1 ELSE 0)
             /\ rs[d].st # "none" <=> rs[d].cached \/ d = open'
             /\ rs[d].cached => wires[d].cached
             /\ Reading(d) /\ rs[d].st = "up" => Finished(d)
  <2>1. CASE d # op.c
    BY <1>2, <1>3, <1>5, <1>6, <2>1
  <2>2. CASE d = op.c
    <3>1. wires[op.c].held - 1 = IF op.c = open THEN 1 ELSE 0
      BY <1>1, <1>5, <1>6
    <3>2. wires[op.c].in = <<>> /\ wires[op.c].st # "none" /\ ~Reading(op.c)
      BY <1>1, <1>2, <1>5
    <3>3. rs[op.c].in = <<>>
      BY <1>3, <3>2
    <3>4. rs[op.c].st # "none" <=> rs[op.c].cached \/ op.c = open
      <4>1. CASE op.c = open
        <5>1. ~(wires[op.c].held - 1 = 0)
          BY <3>1, <4>1
        <5>2. rs[op.c].st = wires[op.c].st
          BY <1>3, <5>1
        <5> QED BY <3>2, <4>1, <5>2
      <4>2. CASE op.c # open
        <5>1. wires[op.c].held - 1 = 0
          BY <3>1, <4>2
        <5>2. rs[op.c].st = IF ~ls[op.c].cached THEN "none" ELSE wires[op.c].st
          BY <1>3, <5>1
        <5>3. rs[op.c].cached <=> ls[op.c].cached
          BY <1>3
        <5> QED BY <3>2, <4>2, <5>2, <5>3
      <4> QED BY <4>1, <4>2
    <3>5. rs[op.c].st \in {wires[op.c].st, "none"}
      BY <1>3
    <3> QED BY <1>3, <2>2, <3>1, <3>2, <3>3, <3>4, <3>5
  <2> QED BY <2>1, <2>2
<1>8. open' \in Wire \cup {NoWire} /\ e \in Results
  BY DEF GfmTypeOK, Results
<1> QED
  BY <1>3, <1>4, <1>7, <1>8, EndKeeps

\* A connection whose process is allocated.
LEMMA PidAs ==
  ASSUME NEW l \in WireStates, NEW h \in Int
  PROVE  LET m == [l EXCEPT !.pid = TRUE, !.held = h]
         IN  /\ m \in WireStates /\ m.held = h /\ m.st = l.st /\ m.cached = l.cached
             /\ m.pid = TRUE /\ m.out = l.out /\ m.in = l.in
<1> DEFINE x == [l EXCEPT !.pid = TRUE]
<1>1. /\ x \in WireStates /\ x.st = l.st /\ x.cached = l.cached /\ x.pid = TRUE /\ x.out = l.out
      /\ x.in = l.in
  BY DEF WireStates
<1>2. [x EXCEPT !.held = h] = [l EXCEPT !.pid = TRUE, !.held = h]
  OBVIOUS
<1> HIDE DEF x
<1> QED
  BY <1>1, <1>2, HeldAs

LEMMA AllocStep ==
  ASSUME GfmInv, AllocProcess
  PROVE  GfmInv'
<1> USE DEF GfmInv
<1> DEFINE c == op.c
<1>1. /\ op.pc = "alloc" /\ c \in Wire /\ c # NoWire /\ ~OnFile(op.o)
      /\ UNCHANGED <<gfmd, open>>
  BY OpWire DEF AllocProcess, Placed
<1>2. \A d : ~Reading(d)
  BY <1>1 DEF Reading
<1>3. wires \in [Wire -> WireStates] /\ wires[c] \in WireStates
  BY <1>1 DEF GfmTypeOK
<1>4. ASSUME EndOp("error", Release(wires, c, 1))
      PROVE  GfmInv'
  BY <1>1, <1>3, <1>4, AllocEnds
<1>5. ASSUME wires[c].st = "lost", EndOp("connection", Release(Purge(wires, c), c, 1))
      PROVE  GfmInv'
  <2> DEFINE ls == Purge(wires, c)
  <2>1. /\ ls \in [Wire -> WireStates] /\ \A d \in Wire \ {c} : ls[d] = wires[d]
        /\ ls[c].out = wires[c].out /\ ls[c].in = wires[c].in /\ ls[c].held = wires[c].held
        /\ ls[c].st = wires[c].st /\ ~ls[c].cached
    BY <1>1, <1>3, PurgedIs
  <2>2. EndOp("connection", Release(ls, c, 1))
    BY <1>5
  <2>3. ~(op.stale /\ op.faults = 0)
    BY <1>1, <1>5 DEF Replaced, GfmTypeOK, OpStates
  <2> HIDE DEF ls
  <2> QED BY <1>1, <2>1, <2>2, <2>3, AllocEnds
<1>6. ASSUME wires[c].st = "up",
             wires' = [wires EXCEPT ![c].pid = TRUE, ![c].held = @ + Refs(op.o) - 1],
             op' = [op EXCEPT !.pc = "request"], UNCHANGED log
      PROVE  GfmInv'
  <2>1. /\ op' \in OpStates /\ op'.pc = "request" /\ op'.c = c
        /\ op'.o = op.o /\ op'.n = op.n /\ op'.retry = op.retry /\ op'.stale = op.stale
        /\ op'.faults = op.faults /\ op'.i = op.i
    BY <1>6 DEF GfmTypeOK, OpStates
  <2>2. /\ wires' \in [Wire -> WireStates]
        /\ \A d \in Wire : /\ wires'[d].st = wires[d].st /\ wires'[d].cached = wires[d].cached
                           /\ wires'[d].out = wires[d].out /\ wires'[d].in = wires[d].in
                           /\ d # c => wires'[d].held = wires[d].held
        /\ wires'[c].held = wires[c].held + Refs(op.o) - 1
    <3> DEFINE h == wires[c].held + Refs(op.o) - 1
               l == [wires[c] EXCEPT !.pid = TRUE, !.held = h]
    <3>1. h \in Int
      <4>1. wires[c].held \in Int
        BY <1>3 DEF WireStates
      <4> QED BY <4>1, RefsAre
    <3>2. wires' = [wires EXCEPT ![c] = l]
      BY <1>1, <1>3, <1>6
    <3> HIDE DEF h
    <3>3. /\ l \in WireStates /\ l.held = h /\ l.st = wires[c].st /\ l.cached = wires[c].cached
          /\ l.out = wires[c].out /\ l.in = wires[c].in
      BY <1>3, <3>1, PidAs
    <3> HIDE DEF l
    <3>4. /\ wires' \in [Wire -> WireStates] /\ wires'[c] = l
          /\ \A d \in Wire \ {c} : wires'[d] = wires[d]
      BY <1>1, <3>2, <3>3, OneWire
    <3> QED BY <3>3, <3>4 DEF h
  <2> HIDE DEF c
  <2>3. GfmTypeOK' /\ Placed'
    <3>1. GfmTypeOK'
      BY <1>1, <1>6, <2>1, <2>2 DEF GfmTypeOK
    <3>2. Placed'
      BY <1>1, <2>1 DEF Placed, c
    <3> QED BY <3>1, <3>2
  <2>4. Held'
    <3>1. RefsTo(c)' = RefsTo(c) + Refs(op.o) - 1
      BY <1>1, <2>1, RefsAre DEF RefsTo, c
    <3>2. \A d \in Wire \ {c} : RefsTo(d)' = RefsTo(d)
      BY <1>1, <2>1 DEF RefsTo, c
    <3>3. Cached' = Cached
      BY <2>2 DEF Cached
    <3> QED BY <1>1, <2>1, <2>2, <3>1, <3>2, <3>3 DEF Held, c
  <2>5. \A d : ~Reading(d)'
    BY <2>1 DEF Reading
  <2>6. Traffic' /\ SentOnce'
    BY <1>1, <1>2, <2>1, <2>2, <2>5 DEF Traffic, Finished, SentOnce
  <2>7. AskedFor'
    <3>1. \A n : SentOn(n)' = SentOn(n)
      BY <2>2 DEF SentOn, Sent
    <3>2. \A n : Asked(n)' = Asked(n)
      BY <1>1, <1>6, <2>1 DEF Asked
    <3> QED BY <1>6, <3>1, <3>2 DEF AskedFor
  <2>8. Done' /\ StaleForgiven'
    BY <1>1, <1>6, <2>1 DEF Done, StaleForgiven
  <2>9. Replaced'
    BY <1>1, <1>6, <2>1, <2>2 DEF Replaced, GfmTypeOK, OpStates, c
  <2> QED BY <2>3, <2>4, <2>6, <2>7, <2>8, <2>9
<1> QED
  BY <1>1, <1>4, <1>5, <1>6 DEF AllocProcess

\* The results of an operation, whatever it is.
LEMMA ResultsShape ==
  ASSUME NEW o \in Operations
  PROVE  LET R == ResultsOf(o)
         IN  /\ R \in Seq(Requests) /\ Len(R) \in Nat /\ Len(R) >= 1
             /\ \A k, l \in 1 .. Len(R) : R[k] = "op" /\ R[l] = "op" => k = l
             /\ \A k \in 2 .. Len(R) : R[k] # "begin"
             /\ \A k \in 1 .. Len(R) - 1 : R[k] # "end"
             /\ R[1] = "begin" => Len(R) >= 2 /\ R[Len(R)] = "end"
             /\ R[1] # "begin" => Len(R) = 1 /\ R[1] = "op"
<1>1. CASE o.kind = "statfs"
  <2>1. ResultsOf(o) = <<"op">>
    BY <1>1, ResultsAre
  <2>2. <<"op">> \in Seq(Requests) /\ Len(<<"op">>) = 1 /\ <<"op">>[1] = "op"
    BY DEF Requests
  <2> QED BY <2>1, <2>2
<1>2. CASE o.kind # "statfs"
  <2>1. Compound(ResultsOf(o))
    BY <1>2, ResultsAre
  <2> QED BY <2>1 DEF Compound
<1> QED
  BY <1>1, <1>2

\* Something is sent or received.
LEMMA OutAs ==
  ASSUME NEW l \in WireStates, NEW s \in Seq(Asks)
  PROVE  LET m == [l EXCEPT !.out = s]
         IN  /\ m \in WireStates /\ m.held = l.held /\ m.st = l.st /\ m.cached = l.cached
             /\ m.pid = l.pid /\ m.out = s /\ m.in = l.in
BY DEF WireStates

LEMMA InAs ==
  ASSUME NEW l \in WireStates, NEW s \in Seq(Answers)
  PROVE  LET m == [l EXCEPT !.in = s]
         IN  /\ m \in WireStates /\ m.held = l.held /\ m.st = l.st /\ m.cached = l.cached
             /\ m.pid = l.pid /\ m.out = l.out /\ m.in = s
BY DEF WireStates

LEMMA WireIs ==
  ASSUME GfmTypeOK, NEW c \in Wire
  PROVE  /\ wires[c] \in WireStates /\ wires[c].st \in {"none", "up", "lost"}
         /\ wires[c].out \in Seq(Asks) /\ Len(wires[c].out) \in Nat
         /\ wires[c].in \in Seq(Answers) /\ Len(wires[c].in) \in Nat
         /\ wires[c].held \in Int
BY DEF GfmTypeOK, WireStates

LEMMA WritingAs ==
  ASSUME NEW p \in OpStates
  PROVE  LET q == [p EXCEPT !.pc = "result", !.i = 1]
         IN  /\ q \in OpStates /\ q.pc = "result" /\ q.i = 1 /\ q.o = p.o /\ q.n = p.n
             /\ q.c = p.c /\ q.retry = p.retry /\ q.stale = p.stale /\ q.faults = p.faults
<1> DEFINE x == [p EXCEPT !.pc = "result"]
<1>1. /\ x \in OpStates /\ x.pc = "result" /\ x.o = p.o /\ x.n = p.n
      /\ x.c = p.c /\ x.retry = p.retry /\ x.stale = p.stale /\ x.faults = p.faults
  BY DEF OpStates
<1>2. [x EXCEPT !.i = 1] = [p EXCEPT !.pc = "result", !.i = 1]
  OBVIOUS
<1> HIDE DEF x
<1>3. LET q == [x EXCEPT !.i = 1]
      IN  /\ q \in OpStates /\ q.pc = x.pc /\ q.i = 1 /\ q.o = x.o /\ q.n = x.n
          /\ q.c = x.c /\ q.retry = x.retry /\ q.stale = x.stale /\ q.faults = x.faults
  BY <1>1 DEF OpStates
<1> QED
  BY <1>1, <1>2, <1>3

\* The requests are written on a connection that is lost, or are sent.
LEMMA WriteLost ==
  ASSUME GfmInv, op.pc = "request", wires[op.c].st = "lost",
         op' = [op EXCEPT !.pc = "result", !.i = 1], wires' = wires, UNCHANGED <<gfmd, open, log>>
  PROVE  GfmInv'
<1> USE DEF GfmInv
<1>1. op.c \in Wire /\ op.c # NoWire /\ op.o \in Operations
  BY OpWire DEF Placed
<1>2. /\ op' \in OpStates /\ op'.pc = "result" /\ op'.i = 1 /\ op'.o = op.o /\ op'.n = op.n
      /\ op'.c = op.c /\ op'.retry = op.retry /\ op'.stale = op.stale /\ op'.faults = op.faults
  BY WritingAs DEF GfmTypeOK
<1>3. \A d : ~Reading(d) /\ (Reading(d)' <=> d = op.c)
  BY <1>2 DEF Reading
<1>4. wires[op.c].in = <<>> /\ Len(wires[op.c].in) = 0
  BY <1>1, <1>3 DEF Traffic
<1>5. GfmTypeOK' /\ StaleForgiven'
  BY <1>2 DEF GfmTypeOK, StaleForgiven
<1>6. Placed'
  BY <1>1, <1>2, ResultsShape DEF Placed
<1>7. Held'
  <2>1. \A d : RefsTo(d)' = RefsTo(d)
    BY <1>2 DEF RefsTo
  <2> QED BY <1>2, <2>1 DEF Held, Cached
<1>8. Traffic'
  <2> SUFFICES ASSUME NEW d \in Wire
               PROVE  /\ ~Reading(d)' => wires[d].in = <<>>
                      /\ Reading(d)' => InOrder(d)' /\ wires[d].st # "up"
                      /\ ~Reading(d)' /\ wires[d].st = "up" => Finished(d)'
    BY DEF Traffic
  <2>1. CASE d = op.c
    BY <1>2, <1>3, <1>4, <2>1 DEF InOrder
  <2>2. CASE d # op.c
    BY <1>2, <1>3, <2>2 DEF Traffic, Finished
  <2> QED BY <2>1, <2>2
<1>9. SentOnce'
  BY <1>2, <1>3 DEF SentOnce
<1>10. AskedFor'
  <2>1. \A n : SentOn(n)' = SentOn(n) /\ Asked(n)' = Asked(n)
    BY <1>2 DEF SentOn, Sent, Asked
  <2> QED BY <2>1 DEF AskedFor
<1>11. Done'
  BY <1>2, <1>4 DEF Done
<1>12. Replaced'
  BY <1>2, <1>4 DEF Replaced, GfmTypeOK, OpStates
<1> QED
  BY <1>5, <1>6, <1>7, <1>8, <1>9, <1>10, <1>11, <1>12

\* What is on the way when the requests R of n are sent after out.
SentTo(out, R, n) == out \o [k \in DOMAIN R |-> [r |-> R[k], n |-> n]]

LEMMA SentAfter ==
  ASSUME NEW out \in Seq(Asks), NEW R \in Seq(Requests), NEW n \in Nat
  PROVE  LET s == SentTo(out, R, n)
         IN  /\ s \in Seq(Asks) /\ Len(s) = Len(out) + Len(R)
             /\ \A k \in 1 .. Len(out) : s[k] = out[k]
             /\ \A k \in 1 .. Len(R) : s[Len(out) + k] = [r |-> R[k], n |-> n]
<1> DEFINE Q == [k \in DOMAIN R |-> [r |-> R[k], n |-> n]]
<1>1. DOMAIN R = 1 .. Len(R) /\ Len(R) \in Nat
  OBVIOUS
<1>2. \A k \in 1 .. Len(R) : [r |-> R[k], n |-> n] \in Asks
  BY DEF Asks
<1>3. \A k \in 1 .. Len(R) : Q[k] = [r |-> R[k], n |-> n]
  BY <1>1
<1>4. Q \in [1 .. Len(R) -> Asks]
  BY <1>1, <1>2
<1>5. Q \in Seq(Asks) /\ Len(Q) = Len(R)
  BY <1>1, <1>4
<1> HIDE DEF Q
<1>6. /\ out \o Q \in Seq(Asks) /\ Len(out \o Q) = Len(out) + Len(Q)
      /\ \A k \in 1 .. Len(out) : (out \o Q)[k] = out[k]
      /\ \A k \in 1 .. Len(Q) : (out \o Q)[Len(out) + k] = Q[k]
  BY ONLY <1>5, out \in Seq(Asks)
<1> QED
  BY <1>3, <1>5, <1>6 DEF Q, SentTo

\* Operations are on their way once, none of them n; R has one operation.
OnceBefore(out, n) == /\ \A k \in 1 .. Len(out) : out[k].n \in 1 .. n /\ out[k].n # n
                      /\ \A k, l \in 1 .. Len(out) : out[k].r = "op" /\ out[k] = out[l] => k = l

OneOp(R) == \A k, l \in 1 .. Len(R) : R[k] = "op" /\ R[l] = "op" => k = l

LEMMA SentOnceMore ==
  ASSUME NEW out \in Seq(Asks), NEW R \in Seq(Requests), NEW n \in Nat, n >= 1,
         OneOp(R), OnceBefore(out, n)
  PROVE  LET s == SentTo(out, R, n)
         IN  /\ \A k \in 1 .. Len(s) : s[k].n \in 1 .. n
             /\ \A k, l \in 1 .. Len(s) : s[k].r = "op" /\ s[k] = s[l] => k = l
             /\ \A k \in 1 .. Len(s) : s[k].n # n => k \in 1 .. Len(out) /\ s[k] = out[k]
<1> DEFINE s == SentTo(out, R, n)
<1>1. /\ s \in Seq(Asks) /\ Len(s) = Len(out) + Len(R)
      /\ \A k \in 1 .. Len(out) : s[k] = out[k]
      /\ \A k \in 1 .. Len(R) : s[Len(out) + k] = [r |-> R[k], n |-> n]
  BY SentAfter
<1> HIDE DEF s
<1>2. Len(out) \in Nat /\ Len(R) \in Nat
  OBVIOUS
<1>o. /\ \A k \in 1 .. Len(out) : out[k].n \in 1 .. n /\ out[k].n # n
      /\ \A k, l \in 1 .. Len(out) : out[k].r = "op" /\ out[k] = out[l] => k = l
      /\ \A k, l \in 1 .. Len(R) : R[k] = "op" /\ R[l] = "op" => k = l
  BY DEF OnceBefore, OneOp
<1>3. \A k \in 1 .. Len(s) : k > Len(out) => /\ k - Len(out) \in 1 .. Len(R)
                                             /\ s[k].r = R[k - Len(out)] /\ s[k].n = n
  <2> TAKE k \in 1 .. Len(s)
  <2> HAVE k > Len(out)
  <2>1. k - Len(out) \in 1 .. Len(R) /\ Len(out) + (k - Len(out)) = k
    BY <1>1, <1>2
  <2>2. s[Len(out) + (k - Len(out))] = [r |-> R[k - Len(out)], n |-> n]
    BY <1>1, <2>1
  <2>3. s[k] = [r |-> R[k - Len(out)], n |-> n]
    BY <2>1, <2>2
  <2> QED BY <2>1, <2>3
<1>4. \A k \in 1 .. Len(s) : k <= Len(out) => k \in 1 .. Len(out) /\ s[k] = out[k]
  BY <1>1, <1>2
<1>5. \A k \in 1 .. Len(s) : k \in Nat /\ (k <= Len(out) \/ k > Len(out))
  BY <1>1, <1>2
<1>6. \A k \in 1 .. Len(s) : s[k].n \in 1 .. n
  <2>1. n \in 1 .. n
    OBVIOUS
  <2> QED BY <1>3, <1>4, <1>5, <1>o, <2>1
<1>7. \A k \in 1 .. Len(s) : s[k].n # n => k \in 1 .. Len(out) /\ s[k] = out[k]
  BY <1>3, <1>4, <1>5
<1>8. ASSUME NEW k \in 1 .. Len(s), NEW l \in 1 .. Len(s), s[k].r = "op", s[k] = s[l]
      PROVE  k = l
  <2>1. CASE s[k].n # n
    BY <1>7, <1>8, <1>o, <2>1
  <2>2. CASE s[k].n = n
    <3>1. k > Len(out) /\ l > Len(out)
      BY <1>4, <1>5, <1>8, <1>o, <2>2
    <3>2. R[k - Len(out)] = "op" /\ R[l - Len(out)] = "op"
      BY <1>3, <1>8, <3>1
    <3>3. k - Len(out) = l - Len(out)
      BY <1>3, <1>o, <3>1, <3>2
    <3> QED BY <1>2, <1>5, <3>3
  <2> QED BY <2>1, <2>2
<1> QED
  BY <1>6, <1>7, <1>8 DEF s

\* The set of connections with n on its way grows by c at most.
LEMMA SentGrows ==
  ASSUME NEW n, NEW S, NEW c, S \subseteq SentOn(n) \cup {c}
  PROVE  Cardinality(S) <= Cardinality(SentOn(n)) + 1 /\ Cardinality(S) \in Nat
<1>1. IsFiniteSet(SentOn(n)) /\ Cardinality(SentOn(n)) \in Nat
  BY SentFinite
<1>2. /\ IsFiniteSet(SentOn(n) \cup {c})
      /\ Cardinality(SentOn(n) \cup {c}) =
           IF c \in SentOn(n) THEN Cardinality(SentOn(n)) ELSE Cardinality(SentOn(n)) + 1
  BY <1>1, FS_AddElement
<1>3. IsFiniteSet(S) /\ Cardinality(S) <= Cardinality(SentOn(n) \cup {c})
  BY <1>2, FS_Subset
<1>4. Cardinality(S) \in Nat /\ Cardinality(SentOn(n) \cup {c}) \in Nat
  BY <1>2, <1>3, FS_CardinalityType
<1> QED
  BY <1>1, <1>2, <1>3, <1>4

LEMMA SentShrinks ==
  ASSUME NEW n, NEW S, S \subseteq SentOn(n)
  PROVE  Cardinality(S) <= Cardinality(SentOn(n)) /\ Cardinality(S) \in Nat
BY SentFinite, FS_Subset, FS_CardinalityType

\* gfmd answers what is sent after what it has left.
LEMMA AnswersNext ==
  ASSUME GfmTypeOK, NEW c \in Wire, Finished(c), op.o \in Operations, op.n \in Nat,
         op'.i = 1, op'.o = op.o, op'.n = op.n, wires'[c].in = <<>>, gfmd' = gfmd,
         wires'[c].out = SentTo(wires[c].out, ResultsOf(op.o), op.n)
  PROVE  Answering(c)'
<1> DEFINE R == ResultsOf(op.o)
           out == wires[c].out
           s == SentTo(out, R, op.n)
<1>1. Len(R) \in Nat /\ Len(R) >= 1 /\ ResultsOf(op'.o) = R
  BY ResultsShape
<1>2. out \in Seq(Asks) /\ Len(out) \in Nat
  BY WireIs
<1>3. Len(wires'[c].in) = 0
  OBVIOUS
<1>a. /\ s \in Seq(Asks) /\ Len(s) = Len(out) + Len(R)
      /\ \A k \in 1 .. Len(out) : s[k] = out[k]
      /\ \A k \in 1 .. Len(R) : s[Len(out) + k] = [r |-> R[k], n |-> op.n]
  <2>1. R \in Seq(Requests)
    BY ResultsShape
  <2> HIDE DEF R, out
  <2> QED BY <1>2, <2>1, SentAfter
<1>b. wires'[c].out = s
  OBVIOUS
<1> HIDE DEF s
<1>4. Position(c)' = 1 /\ Left(c)' = Len(R)
  <2>1. Position(c)' = 1
    BY <1>3 DEF Position
  <2> QED BY <1>1, <2>1 DEF Left
<1>5. Len(s) - Len(R) = Len(out)
  BY <1>1, <1>2, <1>a
<1>6. IF gfmd.skip[c] THEN Skips(out) ELSE out = <<>> /\ ~gfmd.in[c]
  BY DEF Finished
<1> HIDE DEF R, out
<1>7. gfmd.skip[c] <=> Len(out) > 0
  BY <1>2, <1>6, EmptySeq DEF Skips
<1>8. Len(out) > 0 => /\ s[Len(out)].r = "end"
                      /\ \A k \in 1 .. Len(out) - 1 : s[k].r # "end"
  <2> HAVE Len(out) > 0
  <2>1. out[Len(out)].r = "end" /\ \A k \in 1 .. Len(out) - 1 : out[k].r # "end"
    BY <1>6, <1>7 DEF Skips
  <2>2. \A k \in 1 .. Len(out) : s[k] = out[k]
    BY <1>a
  <2> QED BY <1>2, <2>1, <2>2
<1>9. Len(out) = 0 => ~gfmd.in[c]
  BY <1>2, <1>6, <1>7
<1>10. \A k \in 1 .. Len(R) : s[Len(out) + k] = [r |-> R[1 + k - 1], n |-> op.n]
  <2>1. TAKE k \in 1 .. Len(R)
  <2>2. 1 + k - 1 = k
    BY <1>1
  <2>3. s[Len(out) + k] = [r |-> R[k], n |-> op.n]
    BY <1>a
  <2> QED BY <2>2, <2>3
<1> QED
  <2>1. \A j \in 1 .. Len(wires'[c].in) : wires'[c].in[j].e = "ok"
    BY <1>3
  <2>2. /\ Len(s) - Left(c)' = Len(out) /\ Len(out) >= 0
        /\ \A k \in 1 .. Left(c)' : s[Len(out) + k] = [r |-> R[Position(c)' + k - 1], n |-> op.n]
    BY <1>2, <1>4, <1>5, <1>10
  <2>3. gfmd.skip[c] <=> Len(out) > 0
    BY <1>7
  <2>4. Len(out) > 0 => /\ Position(c)' = 1 /\ s[Len(out)].r = "end"
                        /\ \A k \in 1 .. Len(out) - 1 : s[k].r # "end"
    BY <1>4, <1>8
  <2>5. Len(out) = 0 => (gfmd.in[c] <=> R[1] = "begin" /\ Position(c)' > 1 /\ Left(c)' > 0)
    BY <1>4, <1>9
  <2> HIDE DEF Position, Left
  <2> QED BY ONLY <1>1, <1>b, <2>1, <2>2, <2>3, <2>4, <2>5, op'.n = op.n, gfmd' = gfmd DEF Answering

LEMMA WriteUp ==
  ASSUME GfmInv, op.pc = "request", wires[op.c].st = "up",
         op' \in OpStates, op'.pc = "result", op'.i = 1, op'.o = op.o, op'.n = op.n,
         op'.c = op.c, op'.retry = op.retry, op'.stale = op.stale, op'.faults = op.faults,
         NEW s, s = SentTo(wires[op.c].out, ResultsOf(op.o), op.n),
         NEW l \in WireStates, wires' = [wires EXCEPT ![op.c] = l],
         l.out = s, l.in = wires[op.c].in, l.st = "up",
         l.held = wires[op.c].held, l.cached = wires[op.c].cached,
         UNCHANGED <<gfmd, open, log>>
  PROVE  GfmInv'
<1> USE DEF GfmInv
<1> DEFINE R == ResultsOf(op.o)
           out == wires[op.c].out
<1>1. op.c \in Wire /\ op.c # NoWire /\ op.o \in Operations /\ op.n \in DOMAIN Ops /\ op.n \in Nat
      /\ op.n >= 1
  BY OpWire, OpsAre DEF Placed
<1>3. \A d : ~Reading(d) /\ (Reading(d)' <=> d = op.c)
  BY DEF Reading
<1>4. wires[op.c].in = <<>> /\ Len(wires[op.c].in) = 0
  BY <1>1, <1>3 DEF Traffic
<1>5. /\ R \in Seq(Requests) /\ Len(R) \in Nat /\ Len(R) >= 1
      /\ \A k, m \in 1 .. Len(R) : R[k] = "op" /\ R[m] = "op" => k = m
  BY <1>1, ResultsShape
<1>7. out \in Seq(Asks) /\ Len(out) \in Nat
  BY <1>1, WireIs
<1>8. s \in Seq(Asks)
  BY <1>1, <1>5, <1>7, SentAfter
<1>9. /\ wires' \in [Wire -> WireStates] /\ \A d \in Wire \ {op.c} : wires'[d] = wires[d]
      /\ wires'[op.c] = l
  BY <1>1, OneWire
<1>10. GfmTypeOK' /\ StaleForgiven'
  BY <1>9 DEF GfmTypeOK, StaleForgiven
<1>11. Placed'
  BY <1>1, ResultsShape DEF Placed
<1>12. Held'
  <2>1. \A d : RefsTo(d)' = RefsTo(d)
    BY DEF RefsTo
  <2>2. \A d \in Wire : wires'[d].held = wires[d].held /\ wires'[d].st = wires[d].st
                        /\ wires'[d].cached = wires[d].cached
    BY <1>9
  <2>3. Cached' = Cached
    BY <2>2 DEF Cached
  <2> QED BY <2>1, <2>2, <2>3 DEF Held
<1>13. Finished(op.c)
  BY <1>1, <1>3 DEF Traffic
<1>14. Answering(op.c)'
  <2> DEFINE c == op.c
  <2>1. /\ c \in Wire /\ Finished(c) /\ wires'[c].in = <<>>
        /\ wires'[c].out = SentTo(wires[c].out, ResultsOf(op.o), op.n)
    BY <1>1, <1>4, <1>9, <1>13
  <2>2. Answering(c)'
    BY <1>1, <2>1, AnswersNext
  <2> QED BY <2>2
<1>15. Traffic'
  <2> SUFFICES ASSUME NEW d \in Wire
               PROVE  /\ ~Reading(d)' => wires'[d].in = <<>>
                      /\ Reading(d)' => InOrder(d)' /\ Answering(d)'
                      /\ ~Reading(d)' /\ wires'[d].st = "up" => Finished(d)'
    BY DEF Traffic
  <2>1. CASE d = op.c
    <3>1. Len(wires'[d].in) = 0
      BY <1>4, <1>9, <2>1
    <3>2. InOrder(d)'
      BY <3>1 DEF InOrder
    <3> QED BY <1>3, <1>14, <2>1, <3>2
  <2>2. CASE d # op.c
    BY <1>3, <1>9, <2>2 DEF Traffic, Finished
  <2> QED BY <2>1, <2>2
<1>16. /\ \A k \in 1 .. Len(out) : out[k].n \in 1 .. op.n /\ out[k].n # op.n
       /\ \A k, m \in 1 .. Len(out) : out[k].r = "op" /\ out[k] = out[m] => k = m
  BY <1>1, <1>3 DEF SentOnce
<1>17. /\ \A k \in 1 .. Len(s) : s[k].n \in 1 .. op.n
       /\ \A k, m \in 1 .. Len(s) : s[k].r = "op" /\ s[k] = s[m] => k = m
       /\ \A k \in 1 .. Len(s) : s[k].n # op.n => k \in 1 .. Len(out) /\ s[k] = out[k]
  <2> HIDE DEF R, out
  <2>1. s = SentTo(out, R, op.n)
    BY DEF R, out
  <2>2. OnceBefore(out, op.n) /\ OneOp(R)
    BY <1>5, <1>16 DEF OnceBefore, OneOp
  <2> QED BY <1>1, <1>5, <1>7, <2>1, <2>2, SentOnceMore
<1>18. SentOnce'
  <2> SUFFICES ASSUME NEW d \in Wire
               PROVE  LET w == wires'[d].out IN
                      /\ \A k \in 1 .. Len(w) : w[k].n \in 1 .. op.n
                      /\ \A k, m \in 1 .. Len(w) : w[k].r = "op" /\ w[k] = w[m] => k = m
                      /\ d # op.c /\ wires'[d].st = "up" => \A k \in 1 .. Len(w) : w[k].n # op.n
    BY <1>3 DEF SentOnce
  <2>1. CASE d # op.c
    BY <1>3, <1>9, <2>1 DEF SentOnce
  <2>2. CASE d = op.c
    BY <1>9, <1>17, <2>2
  <2> QED BY <2>1, <2>2
<1>19. AskedFor'
  <2> SUFFICES ASSUME NEW n \in DOMAIN Ops
               PROVE  (log[n].executed + Cardinality(SentOn(n)) <= Asked(n))'
    BY DEF AskedFor
  <2>1. n \in Nat /\ op.faults \in Nat /\ log[n].faults \in Nat /\ log[n].executed \in Nat
    BY OpsAre DEF GfmTypeOK, LogEntries, OpStates
  <2>2. log[n].executed + Cardinality(SentOn(n)) <= Asked(n)
    BY DEF AskedFor
  <2>3. Cardinality(SentOn(n)) \in Nat
    BY SentFinite
  <2>4. CASE n # op.n
    <3>1. \A d \in Wire : Sent(d, n)' => Sent(d, n)
      <4> SUFFICES ASSUME NEW d \in Wire, Sent(d, n)' PROVE Sent(d, n)
        OBVIOUS
      <4>1. CASE d # op.c
        BY <1>9, <4>1 DEF Sent
      <4>2. CASE d = op.c
        <5>1. PICK k \in 1 .. Len(s) : s[k] = [r |-> "op", n |-> n]
          BY <1>9, <4>2 DEF Sent
        <5>2. k \in 1 .. Len(out) /\ s[k] = out[k]
          BY <1>17, <2>4, <5>1
        <5> QED BY <4>2, <5>1, <5>2 DEF Sent
      <4> QED BY <4>1, <4>2
    <3>2. SentOn(n)' \subseteq SentOn(n)
      BY <3>1 DEF SentOn
    <3>3. Cardinality(SentOn(n)') <= Cardinality(SentOn(n)) /\ Cardinality(SentOn(n)') \in Nat
      BY <3>2, SentShrinks
    <3>4. Asked(n)' = Asked(n) /\ Asked(n) \in Nat
      BY <1>1, <2>1, <2>4 DEF Asked
    <3> HIDE DEF GfmInv
    <3> QED BY <2>1, <2>2, <2>3, <3>3, <3>4
  <2>5. CASE n = op.n
    <3>1. SentOn(n)' \subseteq SentOn(n) \cup {op.c}
      BY <1>9 DEF SentOn, Sent
    <3>3. Cardinality(SentOn(n)') <= Cardinality(SentOn(n)) + 1 /\ Cardinality(SentOn(n)') \in Nat
      BY <3>1, SentGrows
    <3>4. Asked(n) = op.faults /\ Asked(n)' = op.faults + 1
      BY <1>1, <1>9, <2>1, <2>5 DEF Asked
    <3> HIDE DEF GfmInv
    <3> QED BY <2>1, <2>2, <2>3, <3>3, <3>4
  <2> QED BY <2>4, <2>5
<1>20. Done'
  BY <1>4, <1>9 DEF Done
<1>21. Replaced'
  BY <1>9 DEF Replaced, GfmTypeOK, OpStates
<1> QED
  BY <1>10, <1>11, <1>12, <1>15, <1>18, <1>19, <1>20, <1>21

LEMMA WriteStep ==
  ASSUME GfmInv, WriteRequests
  PROVE  GfmInv'
<1>1. /\ op.pc = "request" /\ op' = [op EXCEPT !.pc = "result", !.i = 1] /\ UNCHANGED <<gfmd, open, log>>
      /\ op.c \in Wire /\ op.o \in Operations
  BY OpWire DEF WriteRequests, GfmInv, Placed
<1>2. wires[op.c].st \in {"up", "lost"} /\ wires[op.c] \in WireStates /\ wires[op.c].out \in Seq(Asks)
  <2>1. wires[op.c].st # "none"
    BY <1>1 DEF GfmInv, Held
  <2> QED BY <1>1, <2>1, WireIs DEF GfmInv
<1> DEFINE s == SentTo(wires[op.c].out, ResultsOf(op.o), op.n)
           l == [wires[op.c] EXCEPT !.out = s]
<1>3. wires' = IF wires[op.c].st = "lost" THEN wires ELSE [wires EXCEPT ![op.c] = l]
  <2>1. RequestsOf(op.o) = ResultsOf(op.o)
    BY <1>1, ResultsAre
  <2> QED BY <2>1 DEF WriteRequests, SentTo
<1>4. s \in Seq(Asks)
  <2>1. ResultsOf(op.o) \in Seq(Requests) /\ op.n \in Nat
    BY <1>1, ResultsShape DEF GfmInv, GfmTypeOK, OpStates
  <2> QED BY <1>2, <2>1, SentAfter
<1>5. s = SentTo(wires[op.c].out, ResultsOf(op.o), op.n)
  OBVIOUS
<1> HIDE DEF s
<1>6. /\ l \in WireStates /\ l.held = wires[op.c].held /\ l.st = wires[op.c].st
      /\ l.cached = wires[op.c].cached /\ l.out = s /\ l.in = wires[op.c].in
  BY <1>2, <1>4, OutAs
<1> HIDE DEF l
<1>7. /\ op' \in OpStates /\ op'.pc = "result" /\ op'.i = 1 /\ op'.o = op.o /\ op'.n = op.n
      /\ op'.c = op.c /\ op'.retry = op.retry /\ op'.stale = op.stale /\ op'.faults = op.faults
  BY <1>1, WritingAs DEF GfmInv, GfmTypeOK
<1>8. CASE wires[op.c].st = "lost"
  BY <1>1, <1>3, <1>8, WriteLost
<1>9. CASE wires[op.c].st = "up"
  <2>1. wires' = [wires EXCEPT ![op.c] = l] /\ l.st = "up"
    BY <1>3, <1>6, <1>9
  <2> QED BY <1>1, <1>5, <1>6, <1>7, <1>9, <2>1, WriteUp
<1> QED
  BY <1>2, <1>8, <1>9

\* An operation ends with a result, its connection being ls[op.c] then.
LEMMA FinishKeeps ==
  ASSUME GfmInv, op.pc = "result", NEW e \in {"ok", "error", "connection"},
         NEW ls \in [Wire -> WireStates], FinishOp(e, ls), gfmd' = gfmd,
         \A d \in Wire \ {op.c} : ls[d] = wires[d],
         ls[op.c].out = wires[op.c].out, ls[op.c].in = <<>>,
         ls[op.c].held = wires[op.c].held, ls[op.c].st = wires[op.c].st,
         ls[op.c].cached => wires[op.c].cached,
         ls[op.c].st = "up" => Finished(op.c),
         ~RootError(op.o) /\ e = "ok" => log[op.n].executed >= 1,
         e = "connection" => ~(op.stale /\ op.faults = 0)
  PROVE  GfmInv'
<1> DEFINE c == op.c
           opened == Opens(op.o) /\ e = "ok" /\ ~RootError(op.o)
           stays == opened \/ op.o.kind = "fd"
           rs == Release(ls, c, Refs(op.o))
           fs == IF stays THEN ls ELSE rs
           f == IF RootError(op.o) THEN "root" ELSE e
<1>1. c \in Wire /\ c # NoWire /\ op.o \in Operations /\ wires[c].st # "none"
  BY OpWire DEF GfmInv, Placed, Held
<1>2. /\ EndOp(f, fs)
      /\ open' = IF opened THEN c ELSE IF op.o.kind = "close" THEN NoWire ELSE open
  BY DEF FinishOp
<1>3. /\ f \in Results /\ (f = "ok" => log[op.n].executed >= 1)
      /\ f = "connection" => ~(op.stale /\ op.faults = 0)
  BY DEF Results
<1>4. /\ rs \in [Wire -> WireStates] /\ \A d \in Wire \ {c} : rs[d] = wires[d]
      /\ rs[c].out = wires[c].out /\ rs[c].held = wires[c].held - Refs(op.o)
      /\ rs[c].cached <=> ls[c].cached
      /\ rs[c].st = (IF wires[c].held - Refs(op.o) = 0 /\ ~ls[c].cached THEN "none" ELSE wires[c].st)
      /\ rs[c].in = <<>>
  <2>1. /\ rs \in [Wire -> WireStates] /\ \A d \in Wire \ {c} : rs[d] = ls[d]
        /\ rs[c].out = ls[c].out /\ rs[c].held = ls[c].held - Refs(op.o)
        /\ rs[c].cached <=> ls[c].cached
        /\ rs[c].st = (IF ls[c].held - Refs(op.o) = 0 /\ ~ls[c].cached THEN "none" ELSE ls[c].st)
        /\ rs[c].in = (IF ls[c].held - Refs(op.o) = 0 /\ ~ls[c].cached THEN <<>> ELSE ls[c].in)
    <3>1. c \in Wire /\ Refs(op.o) \in Int
      BY <1>1, RefsAre
    <3>2. GivenBack(rs, ls, c, Refs(op.o))
      BY ONLY <3>1, ls \in [Wire -> WireStates], FreedIs DEF rs
    <3> QED BY ONLY <3>2 DEF GivenBack
  <2> QED BY <2>1
<1> HIDE DEF rs, f
<1>5. /\ \A d \in Wire \ {c} : wires[d].in = <<>> /\ ~Reading(d)
      /\ \A d \in Wire : wires[d].st # "none" <=> wires[d].cached \/ d = open \/ d = c
      /\ \A d \in Wire : wires[d].held = RefsTo(d)
  <2>1. \A d \in Wire \ {c} : ~Reading(d)
    BY DEF Reading
  <2> QED BY <2>1 DEF GfmInv, Traffic, Held
<1>6. \A d \in Wire \ {c} : RefsTo(d) = IF d = open THEN 1 ELSE 0
  BY DEF RefsTo
<1>7. /\ Opens(op.o) => open = NoWire /\ Refs(op.o) = 1 /\ ~OnFile(op.o)
      /\ OnFile(op.o) => c = open /\ Refs(op.o) = 1
      /\ op.o.kind = "fd" \/ op.o.kind = "close" <=> OnFile(op.o)
  BY <1>1, ResultsAre DEF GfmInv, Placed, OnFile
<1>8. RefsTo(c) = (IF c = open THEN 1 ELSE 0) + (IF OnFile(op.o) THEN 0 ELSE Refs(op.o))
  BY DEF RefsTo
<1>9. open' \in Wire \cup {NoWire}
  BY <1>1, <1>2 DEF GfmInv, GfmTypeOK
<1>10. \A d \in Wire \ {c} : d = open' <=> d = open
  <2>1. op.o.kind = "close" => open = c
    BY <1>7
  <2>2. opened => open = NoWire
    BY <1>7
  <2> QED BY <1>2, <2>1, <2>2, GfmAssumption
<1>11. fs \in [Wire -> WireStates]
  BY <1>4
<1>12. \A d \in Wire \ {c} : fs[d] = wires[d]
  BY <1>4
<1>13. /\ fs[c].in = <<>> /\ fs[c].out = wires[c].out /\ (fs[c].cached <=> ls[c].cached)
       /\ fs[c].st \in {wires[c].st, "none"}
  BY <1>4
<1>14. /\ fs[c].held = (IF c = open' THEN 1 ELSE 0)
       /\ fs[c].st # "none" <=> fs[c].cached \/ c = open'
  <2>1. CASE opened
    <3>1. c = open' /\ fs = ls /\ wires[c].held = 1
      BY <1>1, <1>2, <1>5, <1>7, <1>8, <2>1
    <3> QED BY <1>1, <3>1
  <2>2. CASE ~opened /\ op.o.kind = "fd"
    <3>1. c = open' /\ fs = ls /\ wires[c].held = 1
      BY <1>1, <1>2, <1>5, <1>7, <1>8, <2>2
    <3> QED BY <1>1, <3>1
  <2>3. CASE ~opened /\ op.o.kind # "fd"
    <3>1. fs = rs
      BY <2>3
    <3>2. wires[c].held - Refs(op.o) = IF c = open' THEN 1 ELSE 0
      <4>1. CASE op.o.kind = "close"
        BY <1>1, <1>2, <1>5, <1>7, <1>8, <2>3, <4>1
      <4>2. CASE op.o.kind # "close"
        <5>1. open' = open /\ ~OnFile(op.o)
          BY <1>2, <1>7, <2>3, <4>2
        <5> QED BY <1>1, <1>5, <1>8, <5>1, RefsAre
      <4> QED BY <4>1, <4>2
    <3>3. CASE c = open'
      <4>1. ~(wires[c].held - Refs(op.o) = 0)
        BY <3>2, <3>3
      <4>2. rs[c].st = wires[c].st
        BY <1>4, <4>1
      <4> QED BY <1>1, <1>4, <3>1, <3>2, <3>3, <4>2
    <3>4. CASE c # open'
      <4>1. wires[c].held - Refs(op.o) = 0
        BY <3>2, <3>4
      <4>2. rs[c].st = IF ~ls[c].cached THEN "none" ELSE wires[c].st
        BY <1>4, <4>1
      <4>3. rs[c].cached <=> ls[c].cached
        BY <1>4
      <4>4. rs[c].st # "none" <=> rs[c].cached
        BY <1>1, <4>2, <4>3
      <4> QED BY <1>4, <3>1, <3>4, <4>1, <4>4
    <3> QED BY <3>3, <3>4
  <2> QED BY <2>1, <2>2, <2>3
<1> HIDE DEF fs
<1>15. ASSUME NEW d \in Wire
       PROVE  /\ fs[d].in = <<>> /\ fs[d].out = wires[d].out
              /\ fs[d].st \in {wires[d].st, "none"}
              /\ fs[d].held = (IF d = open' THEN 1 ELSE 0)
              /\ fs[d].st # "none" <=> fs[d].cached \/ d = open'
              /\ fs[d].cached => wires[d].cached
              /\ Reading(d) /\ fs[d].st = "up" => Finished(d)
  <2>1. CASE d # c
    <3>1. wires[d].held = IF d = open' THEN 1 ELSE 0
      BY <1>5, <1>6, <1>10, <2>1
    <3> QED BY <1>5, <1>10, <1>12, <2>1, <3>1
  <2>2. CASE d = c
    BY <1>13, <1>14, <2>2
  <2> QED BY <2>1, <2>2
<1>16. op.pc # "idle"
  OBVIOUS
<1> QED
  BY ONLY <1>2, <1>3, <1>9, <1>11, <1>15, <1>16, GfmInv, gfmd' = gfmd, EndKeeps

\* What is read of the answers on a connection.
LEMMA TakenAs ==
  ASSUME GfmTypeOK, NEW c \in Wire, wires[c].in # <<>>
  PROVE  LET ls == [wires EXCEPT ![c].in = Tail(@)]
         IN  /\ ls \in [Wire -> WireStates] /\ \A d \in Wire \ {c} : ls[d] = wires[d]
             /\ ls[c].in = Tail(wires[c].in) /\ ls[c].out = wires[c].out
             /\ ls[c].held = wires[c].held /\ ls[c].st = wires[c].st
             /\ ls[c].cached = wires[c].cached
<1> DEFINE t == Tail(wires[c].in)
           l == [wires[c] EXCEPT !.in = t]
<1>1. t \in Seq(Answers) /\ wires[c] \in WireStates
  BY WireIs, TailOf
<1>2. [wires EXCEPT ![c].in = Tail(@)] = [wires EXCEPT ![c] = l]
  OBVIOUS
<1> HIDE DEF t
<1>3. /\ l \in WireStates /\ l.in = t /\ l.out = wires[c].out /\ l.held = wires[c].held
      /\ l.st = wires[c].st /\ l.cached = wires[c].cached
  BY <1>1, InAs
<1> HIDE DEF l
<1>4. /\ [wires EXCEPT ![c] = l] \in [Wire -> WireStates] /\ [wires EXCEPT ![c] = l][c] = l
      /\ \A d \in Wire \ {c} : [wires EXCEPT ![c] = l][d] = wires[d]
  BY <1>3 DEF GfmTypeOK
<1> QED
  BY <1>2, <1>3, <1>4 DEF t

\* An error is read, after which there is nothing more, or the last result is.
LEMMA ReadEnds ==
  ASSUME GfmInv, op.pc = "result", wires[op.c].in # <<>>, NEW e \in {"ok", "error"},
         IF e = "ok" THEN Head(wires[op.c].in).e = "ok" /\ op.i = Len(ResultsOf(op.o))
                     ELSE Head(wires[op.c].in).e # "ok",
         FinishOp(e, [wires EXCEPT ![op.c].in = Tail(@)]), gfmd' = gfmd
  PROVE  GfmInv'
<1> DEFINE c == op.c
           ls == [wires EXCEPT ![c].in = Tail(@)]
           in == wires[c].in
           R == ResultsOf(op.o)
<1>1. c \in Wire /\ op.o \in Operations /\ Reading(c)
  BY OpWire DEF GfmInv, Placed, Reading
<1>2. FinishOp(e, ls)
  OBVIOUS
<1>3. /\ ls \in [Wire -> WireStates] /\ \A d \in Wire \ {c} : ls[d] = wires[d]
      /\ ls[c].in = Tail(in) /\ ls[c].out = wires[c].out
      /\ ls[c].held = wires[c].held /\ ls[c].st = wires[c].st
      /\ ls[c].cached = wires[c].cached
  BY <1>1, TakenAs DEF GfmInv
<1> HIDE DEF ls
<1>4. in \in Seq(Answers) /\ in # <<>> /\ Len(in) \in Nat \ {0} /\ Head(in) = in[1]
      /\ (Len(in) = 1 => Tail(in) = <<>>)
  BY <1>1, WireIs, TailOf DEF GfmInv
<1>5. InOrder(c)
  BY <1>1 DEF GfmInv, Traffic
<1>6. /\ op.i \in Nat \ {0} /\ Len(R) \in Nat /\ Len(R) >= 1
      /\ wires[c].out \in Seq(Asks) /\ Len(wires[c].out) \in Nat
  BY <1>1, ResultsShape, WireIs DEF GfmInv, GfmTypeOK, OpStates
<1>7. /\ \A j \in 1 .. Len(in) : /\ op.i + j - 1 <= Len(R)
                                 /\ in[j].r = R[op.i + j - 1]
                                 /\ in[j].e # "ok" => j = Len(in)
  BY <1>5 DEF InOrder
<1> HIDE DEF R, in
<1>8. Len(in) = 1
  <2>1. CASE e = "ok"
    <3>1. op.i = Len(R)
      BY <2>1 DEF R
    <3>2. op.i + Len(in) - 1 <= Len(R)
      BY <1>4, <1>7
    <3>3. Len(in) \in Nat /\ Len(in) >= 1 /\ Len(R) \in Nat /\ op.i \in Nat
      BY <1>4, <1>6
    <3> QED BY ONLY <3>1, <3>2, <3>3
  <2>2. CASE e # "ok"
    <3>1. in[1].e # "ok"
      BY <1>4, <2>2 DEF in
    <3>2. 1 \in 1 .. Len(in)
      BY ONLY <1>4
    <3>3. 1 = Len(in)
      BY ONLY <1>7, <3>1, <3>2
    <3> QED BY <3>3
  <2> QED BY <2>1, <2>2
<1>9. ls[c].in = <<>>
  BY <1>3, <1>4, <1>8
<1>10. wires[c].st = "up" => Finished(c)
  <2> SUFFICES ASSUME wires[c].st = "up" PROVE Finished(c)
    OBVIOUS
  <2>1. Answering(c) \/ Refused(c)
    BY <1>1 DEF GfmInv, Traffic
  <2>2. CASE Refused(c)
    BY <2>2 DEF Refused
  <2>3. CASE Answering(c)
    <3>1. in[1].e = "ok"
      BY <1>8, <2>3 DEF Answering, in
    <3>2. op.i = Len(R) /\ e = "ok"
      BY <1>4, <3>1 DEF in, R
    <3>3. Position(c) = Len(R) + 1 /\ Left(c) = 0 /\ Position(c) # 1
      BY <1>6, <1>8, <3>2 DEF Position, Left, in, R
    <3>4. Len(wires[c].out) - Left(c) = Len(wires[c].out)
      BY <1>6, <3>3
    <3>5. /\ Len(wires[c].out) = 0
          /\ ~gfmd.skip[c] /\ ~gfmd.in[c]
      BY <1>6, <2>3, <3>3, <3>4 DEF Answering, R, GfmInv, GfmTypeOK, GfmdStates
    <3>6. wires[c].out = <<>>
      BY <1>6, <3>5, EmptySeq
    <3> QED BY <3>5, <3>6 DEF Finished
  <2> QED BY <2>1, <2>2, <2>3
<1>11. ~RootError(op.o) /\ e = "ok" => log[op.n].executed >= 1
  <2> SUFFICES ASSUME ~RootError(op.o), e = "ok" PROVE log[op.n].executed >= 1
    OBVIOUS
  <2>1. PICK k \in 1 .. Len(R) : R[k] = "op"
    BY <1>1, ResultsAre DEF HasOp, R
  <2>2. op.i = Len(R) /\ in[1].e = "ok" /\ in[1].r = R[op.i]
    <3>1. op.i + 1 - 1 = op.i /\ 1 \in 1 .. Len(in)
      BY <1>6, <1>8
    <3>2. in[1].r = R[op.i]
      BY <1>7, <3>1
    <3> QED BY <1>4, <3>2 DEF in, R
  <2>3. CASE k < op.i
    <3>1. k \in 1 .. op.i - 1
      BY <1>6, <2>3
    <3> QED BY <2>1, <3>1 DEF GfmInv, Done, R
  <2>4. CASE k = op.i
    <3>1. in[1].r = "op" /\ 1 \in 1 .. Len(in)
      BY <1>8, <2>1, <2>2, <2>4
    <3> QED BY <2>2, <3>1 DEF GfmInv, Done, in
  <2> QED BY <1>6, <2>2, <2>3, <2>4
<1>12. /\ e \in {"ok", "error", "connection"} /\ e # "connection"
       /\ ls[c].cached => wires[c].cached
  BY <1>3
<1> QED
  BY <1>2, <1>3, <1>9, <1>10, <1>11, <1>12, FinishKeeps

\* The rest of the answers belongs to the rest of the results.
LEMMA OrderGoesOn ==
  ASSUME GfmTypeOK, NEW c \in Wire, InOrder(c), wires[c].in # <<>>, op.o \in Operations,
         Head(wires[c].in).e = "ok", op'.i = op.i + 1, op'.o = op.o, op'.n = op.n,
         wires'[c].in = Tail(wires[c].in), wires'[c].out = wires[c].out, gfmd' = gfmd
  PROVE  /\ InOrder(c)'
         /\ Answering(c) => Answering(c)'
         /\ Refused(c) => Refused(c)'
<1> DEFINE in == wires[c].in
           t == Tail(in)
           R == ResultsOf(op.o)
<1>1. /\ in \in Seq(Answers) /\ Len(in) \in Nat /\ Len(in) >= 1 /\ in[1].e = "ok"
      /\ t \in Seq(Answers) /\ Len(t) = Len(in) - 1
      /\ \A k \in 1 .. Len(in) - 1 : t[k] = in[k + 1]
  <2>1. in \in Seq(Answers)
    BY WireIs
  <2>2. Len(in) \in Nat \ {0} /\ Head(in) = in[1]
    BY <2>1, TailOf
  <2> QED BY <2>1, <2>2, TailOf
<1>2. op.i \in Nat /\ Len(R) \in Nat /\ ResultsOf(op'.o) = R /\ wires'[c].in = t
  BY ResultsShape DEF GfmTypeOK, OpStates
<1>3. /\ \A j \in 1 .. Len(in) : /\ op.i + j - 1 <= Len(R)
                                 /\ in[j].n = op.n /\ in[j].r = R[op.i + j - 1]
                                 /\ in[j].e # "ok" => j = Len(in)
  BY DEF InOrder
<1> HIDE DEF R, t, in
<1>4. \A j \in 1 .. Len(t) : /\ j + 1 \in 1 .. Len(in) /\ t[j] = in[j + 1]
                             /\ op.i + (j + 1) - 1 = op.i + 1 + j - 1
                             /\ (j + 1 = Len(in) <=> j = Len(t))
  BY <1>1, <1>2
<1>5. InOrder(c)'
  <2>1. \A j \in 1 .. Len(t) : /\ op.i + 1 + j - 1 <= Len(R)
                               /\ t[j].n = op.n /\ t[j].r = R[op.i + 1 + j - 1]
                               /\ t[j].e # "ok" => j = Len(t)
    <3> TAKE j \in 1 .. Len(t)
    <3>1. /\ op.i + (j + 1) - 1 <= Len(R)
          /\ in[j + 1].n = op.n /\ in[j + 1].r = R[op.i + (j + 1) - 1]
          /\ in[j + 1].e # "ok" => j + 1 = Len(in)
      BY <1>3, <1>4
    <3> QED BY <1>4, <3>1
  <2> QED BY <1>2, <2>1 DEF InOrder
<1>6. Position(c)' = Position(c) /\ Left(c)' = Left(c)
  <2>1. Position(c)' = op.i + 1 + Len(t) /\ Position(c) = op.i + Len(in)
    BY <1>2 DEF Position, in
  <2>2. Position(c)' = Position(c)
    BY <1>1, <1>2, <2>1
  <2>3. ResultsOf(op'.o) = ResultsOf(op.o)
    OBVIOUS
  <2> QED BY <2>2, <2>3 DEF Left
<1>7. ASSUME Answering(c) PROVE Answering(c)'
  <2>1. \A j \in 1 .. Len(in) : in[j].e = "ok"
    BY <1>7 DEF Answering, in
  <2>2. \A j \in 1 .. Len(wires'[c].in) : wires'[c].in[j].e = "ok"
    BY <1>2, <1>4, <2>1
  <2>3. ResultsOf(op'.o) = ResultsOf(op.o)
    OBVIOUS
  <2> QED BY <1>6, <1>7, <2>2, <2>3 DEF Answering
<1>8. ASSUME Refused(c) PROVE Refused(c)'
  <2>1. in[Len(in)].e = "error" /\ Finished(c)
    BY <1>8 DEF Refused, in
  <2>2. Len(in) # 1
    BY <1>1, <2>1
  <2>3. Len(t) \in 1 .. Len(t) /\ Len(t) + 1 = Len(in)
    BY <1>1, <2>2
  <2>4. t[Len(t)].e = "error" /\ t # <<>>
    BY <1>4, <2>1, <2>3
  <2>5. Finished(c)'
    BY <2>1 DEF Finished
  <2> QED BY <1>2, <2>4, <2>5 DEF Refused
<1> QED
  BY <1>5, <1>7, <1>8

LEMMA ReadOn ==
  ASSUME GfmInv, op.pc = "result", wires[op.c].in # <<>>,
         Head(wires[op.c].in).e = "ok", op.i # Len(ResultsOf(op.o)),
         op' = [op EXCEPT !.i = @ + 1], wires' = [wires EXCEPT ![op.c].in = Tail(@)],
         UNCHANGED <<gfmd, open, log>>
  PROVE  GfmInv'
<1> DEFINE in == wires[op.c].in
           R == ResultsOf(op.o)
<1>1. /\ op.c \in Wire /\ op.o \in Operations /\ Reading(op.c) /\ op.i \in Nat /\ op.i <= Len(R)
      /\ op.i >= 1 /\ Len(R) \in Nat
  <2>1. op.c \in Wire /\ op.o \in Operations /\ Reading(op.c) /\ op.i <= Len(R)
    BY OpWire DEF GfmInv, Placed, Reading
  <2>2. op.i \in Nat \ {0} /\ Len(R) \in Nat
    BY <2>1, ResultsShape DEF GfmInv, GfmTypeOK, OpStates
  <2> QED BY <2>1, <2>2
<1>2. /\ op' \in OpStates /\ op'.pc = "result" /\ op'.i = op.i + 1 /\ op'.o = op.o /\ op'.n = op.n
      /\ op'.c = op.c /\ op'.retry = op.retry /\ op'.stale = op.stale /\ op'.faults = op.faults
  BY DEF GfmInv, GfmTypeOK, OpStates
<1>3. /\ wires' \in [Wire -> WireStates] /\ \A d \in Wire \ {op.c} : wires'[d] = wires[d]
      /\ wires'[op.c].in = Tail(in) /\ wires'[op.c].out = wires[op.c].out
      /\ wires'[op.c].held = wires[op.c].held /\ wires'[op.c].st = wires[op.c].st
      /\ wires'[op.c].cached = wires[op.c].cached
  BY <1>1, TakenAs DEF GfmInv
<1>4. InOrder(op.c)' /\ (wires[op.c].st = "up" => Answering(op.c)' \/ Refused(op.c)')
  <2> DEFINE c == op.c
  <2>1. c \in Wire /\ InOrder(c) /\ (wires[c].st = "up" => Answering(c) \/ Refused(c))
    BY <1>1 DEF GfmInv, Traffic
  <2>2. wires'[c].in = Tail(wires[c].in) /\ wires'[c].out = wires[c].out
    BY <1>3
  <2>3. InOrder(c)' /\ (wires[c].st = "up" => Answering(c)' \/ Refused(c)')
    BY <1>1, <1>2, <2>1, <2>2, OrderGoesOn DEF GfmInv
  <2> QED BY <2>3
<1>5. \A d \in Wire : /\ wires'[d].out = wires[d].out /\ wires'[d].held = wires[d].held
                      /\ wires'[d].st = wires[d].st /\ wires'[d].cached = wires[d].cached
  BY <1>3
<1>6. \A d : Reading(d)' <=> Reading(d)
  BY <1>2 DEF Reading
<1>7. GfmTypeOK' /\ StaleForgiven'
  BY <1>2, <1>3 DEF GfmInv, GfmTypeOK, StaleForgiven
<1>8. Placed'
  <2>1. op'.i <= Len(ResultsOf(op'.o))
    BY <1>1, <1>2
  <2> QED BY <1>2, <2>1 DEF GfmInv, Placed
<1>9. Held'
  <2>1. \A d : RefsTo(d)' = RefsTo(d)
    BY <1>2 DEF RefsTo
  <2>2. Cached' = Cached
    BY <1>5 DEF Cached
  <2> QED BY <1>2, <1>5, <2>1, <2>2 DEF GfmInv, Held
<1>10. Traffic'
  <2> SUFFICES ASSUME NEW d \in Wire
               PROVE  /\ ~Reading(d)' => wires'[d].in = <<>>
                      /\ Reading(d)' => InOrder(d)'
                      /\ wires'[d].st = "up" =>
                           IF Reading(d)' THEN Answering(d)' \/ Refused(d)' ELSE Finished(d)'
    BY DEF Traffic
  <2>1. CASE d = op.c
    BY <1>1, <1>2, <1>4, <1>5, <1>6, <2>1
  <2>2. CASE d # op.c
    BY <1>2, <1>3, <1>6, <2>2 DEF GfmInv, Traffic, Finished, Reading
  <2> QED BY <2>1, <2>2
<1>11. SentOnce'
  BY <1>2, <1>5, <1>6 DEF GfmInv, SentOnce
<1>12. AskedFor'
  <2>1. \A n : SentOn(n)' = SentOn(n)
    BY <1>5 DEF SentOn, Sent
  <2>2. \A n : Asked(n)' = Asked(n)
    BY <1>1, <1>2, <1>5 DEF Asked
  <2> QED BY <2>1, <2>2 DEF GfmInv, AskedFor
<1>13. Done'
  <2>1. /\ in \in Seq(Answers) /\ Len(in) \in Nat /\ Len(in) >= 1 /\ Head(in) = in[1]
        /\ Len(Tail(in)) = Len(in) - 1 /\ \A k \in 1 .. Len(in) - 1 : Tail(in)[k] = in[k + 1]
    <3>1. in \in Seq(Answers)
      BY <1>1, WireIs DEF GfmInv
    <3> QED BY <3>1, TailOf
  <2>2. in[1].r = R[op.i] /\ in[1].e = "ok"
    <3>1. InOrder(op.c) /\ 1 \in 1 .. Len(in) /\ op.i + 1 - 1 = op.i
      BY <1>1, <2>1 DEF GfmInv, Traffic
    <3> QED BY <2>1, <3>1 DEF InOrder
  <2>3. \A j \in 1 .. Len(in) : in[j].r = "op" /\ in[j].e = "ok" => log[op.n].executed >= 1
    BY DEF GfmInv, Done
  <2>4. \A k \in 1 .. op.i - 1 : R[k] = "op" => log[op.n].executed >= 1
    BY DEF GfmInv, Done
  <2>5. \A k \in 1 .. op'.i - 1 : R[k] = "op" => log[op.n].executed >= 1
    <3> TAKE k \in 1 .. op'.i - 1
    <3>1. k \in 1 .. op.i - 1 \/ k = op.i
      BY <1>1, <1>2
    <3>2. 1 \in 1 .. Len(in)
      BY <2>1
    <3> QED BY <2>2, <2>3, <2>4, <3>1, <3>2
  <2>6. \A j \in 1 .. Len(Tail(in)) :
          Tail(in)[j].r = "op" /\ Tail(in)[j].e = "ok" => log[op.n].executed >= 1
    <3> TAKE j \in 1 .. Len(Tail(in))
    <3>1. j + 1 \in 1 .. Len(in) /\ Tail(in)[j] = in[j + 1]
      BY <2>1
    <3> QED BY <2>3, <3>1
  <2>7. \A n \in DOMAIN Ops : /\ log[n].result = "ok" => log[n].executed >= 1
                              /\ n >= op.n /\ op.pc # "idle" => log[n].result = "none"
                              /\ n > op.n => log[n].result = "none"
    BY DEF GfmInv, Done
  <2> HIDE DEF in
  <2>8. log' = log /\ ResultsOf(op'.o) = R /\ op'.n = op.n /\ op'.pc = "result" /\ op.pc = "result"
        /\ wires'[op'.c].in = Tail(in)
    BY <1>2, <1>3 DEF R
  <2> HIDE DEF R
  <2> QED BY ONLY <2>5, <2>6, <2>7, <2>8 DEF Done
<1>14. Replaced'
  BY <1>2, <1>5, <1>1 DEF GfmInv, Replaced, Cached, GfmTypeOK, OpStates
<1> QED
  BY <1>7, <1>8, <1>9, <1>10, <1>11, <1>12, <1>13, <1>14 DEF GfmInv

LEMMA ReadStep ==
  ASSUME GfmInv, ReadResult
  PROVE  GfmInv'
<1>1. op.pc = "result" /\ wires[op.c].in # <<>> /\ gfmd' = gfmd
  BY DEF ReadResult
<1>2. CASE Head(wires[op.c].in).e # "ok"
  BY <1>1, <1>2, ReadEnds DEF ReadResult
<1>3. CASE Head(wires[op.c].in).e = "ok" /\ op.i = Len(ResultsOf(op.o))
  BY <1>1, <1>3, ReadEnds DEF ReadResult
<1>4. CASE Head(wires[op.c].in).e = "ok" /\ op.i # Len(ResultsOf(op.o))
  <2>1. /\ op' = [op EXCEPT !.i = @ + 1] /\ wires' = [wires EXCEPT ![op.c].in = Tail(@)]
        /\ UNCHANGED <<gfmd, open, log>>
    BY <1>4 DEF ReadResult
  <2> QED BY <1>1, <1>4, <2>1, ReadOn
<1> QED
  BY <1>2, <1>3, <1>4

\* The operation is started again.
LEMMA AgainAs ==
  ASSUME NEW p \in OpStates, p.retry < 1
  PROVE  LET q == [p EXCEPT !.pc = "acquire", !.c = NoWire, !.i = 1, !.retry = @ + 1, !.sleep = 0]
         IN  /\ q \in OpStates /\ q.pc = "acquire" /\ q.c = NoWire /\ q.o = p.o /\ q.n = p.n
             /\ q.retry = 1 /\ q.stale = p.stale /\ q.faults = p.faults
<1> DEFINE x == [p EXCEPT !.pc = "acquire"]
           y == [x EXCEPT !.c = NoWire]
           z == [y EXCEPT !.i = 1]
           w == [z EXCEPT !.retry = p.retry + 1]
<1>1. /\ x \in OpStates /\ x.pc = "acquire" /\ x.o = p.o /\ x.n = p.n /\ x.retry = p.retry
      /\ x.stale = p.stale /\ x.faults = p.faults
  BY DEF OpStates
<1>a. [p EXCEPT !.pc = "acquire", !.c = NoWire, !.i = 1, !.retry = @ + 1, !.sleep = 0] =
        [w EXCEPT !.sleep = 0]
  OBVIOUS
<1> HIDE DEF x
<1>2. /\ y \in OpStates /\ y.pc = "acquire" /\ y.c = NoWire /\ y.o = p.o /\ y.n = p.n
      /\ y.retry = p.retry /\ y.stale = p.stale /\ y.faults = p.faults
  BY <1>1 DEF OpStates
<1> HIDE DEF y
<1>3. /\ z \in OpStates /\ z.pc = "acquire" /\ z.c = NoWire /\ z.o = p.o /\ z.n = p.n
      /\ z.retry = p.retry /\ z.stale = p.stale /\ z.faults = p.faults
  BY <1>2 DEF OpStates
<1> HIDE DEF z
<1>b. p.retry + 1 = 1 /\ p.retry + 1 \in {0, 1}
  BY DEF OpStates
<1>4. /\ w \in OpStates /\ w.pc = "acquire" /\ w.c = NoWire /\ w.o = p.o /\ w.n = p.n
      /\ w.retry = 1 /\ w.stale = p.stale /\ w.faults = p.faults
  BY <1>3, <1>b DEF OpStates
<1> HIDE DEF w
<1>5. LET q == [w EXCEPT !.sleep = 0]
      IN  /\ q \in OpStates /\ q.pc = w.pc /\ q.c = w.c /\ q.o = w.o /\ q.n = w.n
          /\ q.retry = w.retry /\ q.stale = w.stale /\ q.faults = w.faults
  BY <1>4 DEF OpStates
<1> QED
  BY <1>a, <1>4, <1>5

\* After a loss, its connection is given up.
LEMMA RetryKeeps ==
  ASSUME GfmInv, op.pc = "result", wires[op.c].in = <<>>, wires[op.c].st = "lost",
         op.i <= LookupLength(op.o), op.retry < 1,
         op' = [op EXCEPT !.pc = "acquire", !.c = NoWire, !.i = 1, !.retry = @ + 1, !.sleep = 0],
         wires' = Release(Purge(wires, op.c), op.c, Refs(op.o)), UNCHANGED <<gfmd, open, log>>
  PROVE  GfmInv'
<1> DEFINE c == op.c
           ps == Purge(wires, c)
<1>1. /\ c \in Wire /\ c # NoWire /\ op.o \in Operations /\ op.i >= 1 /\ ~OnFile(op.o)
      /\ wires \in [Wire -> WireStates]
  <2>1. c \in Wire /\ c # NoWire /\ op.o \in Operations /\ op.i \in Nat \ {0}
    BY OpWire DEF GfmInv, Placed, GfmTypeOK, OpStates
  <2>2. ~OnFile(op.o)
    BY <2>1 DEF OnFile, LookupLength
  <2> QED BY <2>1, <2>2 DEF GfmInv, GfmTypeOK
<1>2. /\ op' \in OpStates /\ op'.pc = "acquire" /\ op'.c = NoWire /\ op'.o = op.o /\ op'.n = op.n
      /\ op'.retry = 1 /\ op'.stale = op.stale /\ op'.faults = op.faults
  BY AgainAs DEF GfmInv, GfmTypeOK
<1>3. wires' = Release(ps, c, Refs(op.o))
  OBVIOUS
<1>4. /\ ps \in [Wire -> WireStates] /\ \A d \in Wire \ {c} : ps[d] = wires[d]
      /\ ps[c].out = wires[c].out /\ ps[c].in = <<>> /\ ps[c].held = wires[c].held
      /\ ps[c].st = "lost" /\ ~ps[c].cached
  BY <1>1, PurgedIs
<1> HIDE DEF ps
<1>5. /\ wires' \in [Wire -> WireStates] /\ \A d \in Wire \ {c} : wires'[d] = ps[d]
      /\ wires'[c].out = ps[c].out /\ wires'[c].held = ps[c].held - Refs(op.o)
      /\ wires'[c].cached <=> ps[c].cached
      /\ wires'[c].st = (IF ps[c].held - Refs(op.o) = 0 /\ ~ps[c].cached THEN "none" ELSE ps[c].st)
      /\ wires'[c].in = (IF ps[c].held - Refs(op.o) = 0 /\ ~ps[c].cached THEN <<>> ELSE ps[c].in)
  <2>1. c \in Wire /\ Refs(op.o) \in Int
    BY <1>1, RefsAre
  <2>2. GivenBack(wires', ps, c, Refs(op.o))
    BY ONLY <1>3, <1>4, <2>1, FreedIs
  <2> QED BY ONLY <2>2 DEF GivenBack
<1>6. /\ \A d \in Wire \ {c} : wires'[d] = wires[d]
      /\ wires'[c].out = wires[c].out /\ wires'[c].in = <<>> /\ ~wires'[c].cached
      /\ wires'[c].held = (IF c = open THEN 1 ELSE 0)
      /\ wires'[c].st = (IF c = open THEN "lost" ELSE "none")
  <2>1. wires[c].held = (IF c = open THEN 1 ELSE 0) + Refs(op.o)
    BY <1>1 DEF GfmInv, Held, RefsTo
  <2>2. ps[c].held - Refs(op.o) = IF c = open THEN 1 ELSE 0
    BY <1>4, <2>1, RefsAre
  <2>3. CASE c = open
    <3>1. ps[c].held - Refs(op.o) = 1
      BY <2>2, <2>3
    <3> QED BY <1>4, <1>5, <2>3, <3>1
  <2>4. CASE c # open
    <3>1. ps[c].held - Refs(op.o) = 0
      BY <2>2, <2>4
    <3> QED BY <1>4, <1>5, <2>4, <3>1
  <2> QED BY <2>3, <2>4
<1> HIDE DEF c
<1>7. op.pc = "result" /\ op.c = c /\ wires[c].st = "lost" /\ gfmd' = gfmd /\ open' = open /\ log' = log
  BY DEF c
<1>8. \A d : ~Reading(d)' /\ (d # c => ~Reading(d))
  BY <1>2, <1>7 DEF Reading
<1>9. GfmTypeOK' /\ StaleForgiven'
  BY <1>2, <1>5, <1>7 DEF GfmInv, GfmTypeOK, StaleForgiven
<1>10. Placed'
  BY <1>1, <1>2, <1>7 DEF GfmInv, Placed
<1>11. Held'
  <2>1. \A d \in Wire : RefsTo(d)' = IF d = open THEN 1 ELSE 0
    BY <1>2, <1>7, GfmAssumption DEF RefsTo
  <2>2. \A d \in Wire \ {c} : wires[d].held = (IF d = open THEN 1 ELSE 0)
                              /\ (wires[d].st # "none" <=> wires[d].cached \/ d = open)
    BY <1>7 DEF GfmInv, Held, RefsTo
  <2>3. \A d \in Cached' : d \in Cached
    BY <1>6 DEF Cached
  <2>4. \A d \in Wire : d # op'.c
    BY <1>2, GfmAssumption
  <2>5. \A d \in Wire : wires'[d].held = IF d = open THEN 1 ELSE 0
    BY <1>6, <2>2
  <2>6. \A d \in Wire : wires'[d].st # "none" <=> wires'[d].cached \/ d = open
    BY <1>6, <2>2
  <2>7. \A d, e \in Cached : d = e
    BY DEF GfmInv, Held
  <2> QED BY <1>7, <2>1, <2>3, <2>4, <2>5, <2>6, <2>7 DEF Held
<1>12. Traffic'
  <2> SUFFICES ASSUME NEW d \in Wire
               PROVE  wires'[d].in = <<>> /\ (wires'[d].st = "up" => Finished(d)')
    BY <1>8 DEF Traffic
  <2>1. CASE d = c
    BY <1>6, <2>1
  <2>2. CASE d # c
    BY <1>6, <1>7, <1>8, <2>2 DEF GfmInv, Traffic, Finished
  <2> QED BY <2>1, <2>2
<1>13. \A d \in Wire : wires'[d].out = wires[d].out
  BY <1>6
<1>14. SentOnce'
  <2> SUFFICES ASSUME NEW d \in Wire
               PROVE  LET w == wires[d].out IN
                      /\ \A k \in 1 .. Len(w) : w[k].n \in 1 .. op.n
                      /\ \A k, l \in 1 .. Len(w) : w[k].r = "op" /\ w[k] = w[l] => k = l
                      /\ wires'[d].st = "up" => \A k \in 1 .. Len(w) : w[k].n # op.n
    BY <1>2, <1>13 DEF SentOnce
  <2>1. CASE d = c
    BY <1>6, <2>1 DEF GfmInv, SentOnce
  <2>2. CASE d # c
    BY <1>6, <1>7, <1>8, <2>2 DEF GfmInv, SentOnce
  <2> QED BY <2>1, <2>2
<1>15. AskedFor'
  <2>1. \A n : SentOn(n)' = SentOn(n)
    BY <1>13 DEF SentOn, Sent
  <2>2. \A n : Asked(n)' = Asked(n)
    BY <1>2, <1>7 DEF Asked
  <2> QED BY <1>7, <2>1, <2>2 DEF GfmInv, AskedFor
<1>16. Done'
  BY <1>2, <1>7 DEF GfmInv, Done
<1>17. Replaced'
  <2> SUFFICES ASSUME op.stale, op.faults = 0 PROVE Cached' = {} /\ gfmd.up
    BY <1>1, <1>2, <1>7 DEF Replaced
  <2>1. op.retry = 0
    BY DEF GfmInv, GfmTypeOK, OpStates
  <2>2. gfmd.up /\ c \in Cached
    BY <1>1, <1>7, <2>1 DEF GfmInv, Replaced, Cached
  <2>3. Cached = {c}
    BY <2>2 DEF GfmInv, Held
  <2> QED BY <1>6, <2>2, <2>3 DEF Cached
<1> QED
  BY <1>9, <1>10, <1>11, <1>12, <1>14, <1>15, <1>16, <1>17 DEF GfmInv

LEMMA ErrorStep ==
  ASSUME GfmInv, ReadError
  PROVE  GfmInv'
<1> DEFINE ls == Purge(wires, op.c)
<1>1. /\ op.pc = "result" /\ wires[op.c].in = <<>> /\ wires[op.c].st = "lost" /\ gfmd' = gfmd
      /\ op.c \in Wire /\ op.o \in Operations
  BY OpWire DEF ReadError, GfmInv, Placed
<1>2. CASE op.i <= LookupLength(op.o) /\ op.retry < 1
  <2>1. /\ op' = [op EXCEPT !.pc = "acquire", !.c = NoWire, !.i = 1, !.retry = @ + 1, !.sleep = 0]
        /\ wires' = Release(ls, op.c, Refs(op.o))
        /\ UNCHANGED <<open, log>>
    BY <1>2 DEF ReadError
  <2> QED BY <1>1, <1>2, <2>1, RetryKeeps
<1>3. CASE ~(op.i <= LookupLength(op.o) /\ op.retry < 1)
  <2>1. FinishOp("connection", ls)
    BY <1>3 DEF ReadError
  <2>2. /\ ls \in [Wire -> WireStates] /\ \A d \in Wire \ {op.c} : ls[d] = wires[d]
        /\ ls[op.c].out = wires[op.c].out /\ ls[op.c].in = <<>>
        /\ ls[op.c].held = wires[op.c].held /\ ls[op.c].st = "lost" /\ ~ls[op.c].cached
    BY <1>1, PurgedIs DEF GfmInv, GfmTypeOK
  <2>3. ~(op.stale /\ op.faults = 0)
    <3> SUFFICES ASSUME op.stale, op.faults = 0 PROVE FALSE
      OBVIOUS
    <3>1. op.retry \in {0, 1}
      BY DEF GfmInv, GfmTypeOK, OpStates
    <3>2. CASE op.retry = 1
      BY <1>1, <3>2 DEF GfmInv, Replaced
    <3>3. CASE op.retry = 0
      <4>1. op.i = 1 /\ ~OnFile(op.o)
        BY <1>1, <3>3 DEF GfmInv, Replaced
      <4>2. LookupLength(op.o) >= 1
        BY <1>1, <4>1, ResultsAre
      <4> QED BY <1>3, <3>3, <4>1, <4>2
    <3> QED BY <3>1, <3>2, <3>3
  <2> HIDE DEF ls
  <2> QED BY <1>1, <2>1, <2>2, <2>3, FinishKeeps
<1> QED
  BY <1>2, <1>3

(***************************************************************************)
(* The steps of gfmd                                                       *)
(***************************************************************************)
\* The rest of a compound is skipped up to its end.
LEMMA SkipsOn ==
  ASSUME NEW out \in Seq(Asks), Skips(out)
  PROVE  IF Head(out).r # "end" THEN Skips(Tail(out)) ELSE Tail(out) = <<>>
<1>1. /\ Len(out) \in Nat /\ Len(out) >= 1 /\ Head(out) = out[1]
      /\ Tail(out) \in Seq(Asks) /\ Len(Tail(out)) = Len(out) - 1
      /\ \A k \in 1 .. Len(out) - 1 : Tail(out)[k] = out[k + 1]
      /\ Len(out) = 1 => Tail(out) = <<>>
  <2>1. out # <<>>
    BY DEF Skips
  <2>2. Len(out) \in Nat \ {0}
    BY <2>1, TailOf
  <2> QED BY <2>1, <2>2, TailOf
<1>2. out[Len(out)].r = "end" /\ \A k \in 1 .. Len(out) - 1 : out[k].r # "end"
  BY DEF Skips
<1>3. CASE out[1].r = "end"
  <2>1. Len(out) = 1
    <3> SUFFICES ASSUME Len(out) # 1 PROVE FALSE
      OBVIOUS
    <3>1. 1 \in 1 .. Len(out) - 1
      BY <1>1
    <3> QED BY <1>2, <1>3, <3>1
  <2> QED BY <1>1, <1>3, <2>1
<1>4. CASE out[1].r # "end"
  <2> DEFINE t == Tail(out)
  <2>1. Len(out) # 1
    BY <1>2, <1>4
  <2>2. Len(t) >= 1 /\ Len(t) + 1 = Len(out)
    BY <1>1, <2>1
  <2>3. \A k \in 1 .. Len(t) : t[k] = out[k + 1]
    BY <1>1
  <2> HIDE DEF t
  <2>4. t[Len(t)].r = "end"
    <3>1. Len(t) \in 1 .. Len(t)
      BY <1>1, <2>2
    <3>2. t[Len(t)] = out[Len(out)]
      BY <2>2, <2>3, <3>1
    <3> QED BY <1>2, <3>2
  <2>5. \A k \in 1 .. Len(t) - 1 : t[k].r # "end"
    <3> TAKE k \in 1 .. Len(t) - 1
    <3>1. k \in 1 .. Len(t) /\ k + 1 \in 1 .. Len(out) - 1
      BY <1>1, <2>2
    <3> QED BY <1>2, <2>3, <3>1
  <2>6. t # <<>>
    <3>1. Len(<<>>) = 0
      OBVIOUS
    <3> QED BY <2>2, <3>1
  <2>7. Skips(t)
    BY <2>4, <2>5, <2>6 DEF Skips
  <2> QED BY <1>1, <1>4, <2>7 DEF t
<1> QED
  BY <1>3, <1>4

\* What gfmd executes when nothing is before the compound of the operation.
LEMMA NextAnswer ==
  ASSUME GfmTypeOK, NEW c \in Wire, Answering(c), ~gfmd.skip[c], wires[c].out # <<>>,
         op.o \in Operations
  PROVE  LET out == wires[c].out
             R == ResultsOf(op.o)
             p == Position(c)
         IN  /\ Len(out) = Left(c) /\ Len(out) \in Nat /\ Len(out) >= 1
             /\ p \in Nat /\ p >= 1 /\ p <= Len(R) /\ Len(out) = Len(R) + 1 - p
             /\ Head(out).r = R[p] /\ Head(out).n = op.n
             /\ \A k \in 1 .. Len(out) : out[k].r = R[p + k - 1] /\ out[k] = [r |-> R[p + k - 1], n |-> op.n]
             /\ gfmd.in[c] <=> R[1] = "begin" /\ p > 1
<1> DEFINE out == wires[c].out
           R == ResultsOf(op.o)
           p == Position(c)
<1>1. /\ Len(R) \in Nat /\ Len(R) >= 1 /\ op.i \in Nat /\ op.i >= 1 /\ Len(wires[c].in) \in Nat
      /\ Len(out) \in Nat /\ Len(out) >= 1 /\ Head(out) = out[1]
  <2>1. Len(R) \in Nat /\ Len(R) >= 1
    BY ResultsShape
  <2>2. op.i \in Nat \ {0} /\ Len(wires[c].in) \in Nat /\ out \in Seq(Asks)
    BY WireIs DEF GfmTypeOK, OpStates
  <2>3. Len(out) \in Nat \ {0} /\ Head(out) = out[1]
    BY <2>2, TailOf
  <2> QED BY <2>1, <2>2, <2>3
<1>2. p \in Nat /\ p >= 1 /\ Left(c) = Len(R) + 1 - p
  <2>1. p = op.i + Len(wires[c].in)
    BY DEF Position
  <2> HIDE DEF p
  <2>2. p \in Nat /\ p >= 1
    BY <1>1, <2>1
  <2> QED BY <2>2 DEF Left, p
<1>3. gfmd.skip[c] \in BOOLEAN /\ gfmd.in[c] \in BOOLEAN
  BY DEF GfmTypeOK, GfmdStates
<1>4. /\ Len(out) - Left(c) >= 0 /\ ~(Len(out) - Left(c) > 0)
      /\ \A k \in 1 .. Left(c) : out[Len(out) - Left(c) + k] = [r |-> R[p + k - 1], n |-> op.n]
      /\ Len(out) - Left(c) = 0 => (gfmd.in[c] <=> R[1] = "begin" /\ p > 1 /\ Left(c) > 0)
  BY <1>3 DEF Answering
<1> HIDE DEF out, R, p
<1>5. Len(out) = Left(c)
  BY <1>1, <1>2, <1>4
<1>6. \A k \in 1 .. Len(out) : out[k] = [r |-> R[p + k - 1], n |-> op.n]
  <2> TAKE k \in 1 .. Len(out)
  <2>1. k \in 1 .. Left(c) /\ Len(out) - Left(c) + k = k
    BY <1>1, <1>5
  <2> QED BY <1>4, <2>1
<1>7. out[1] = [r |-> R[p], n |-> op.n]
  <2>1. 1 \in 1 .. Len(out) /\ p + 1 - 1 = p
    BY <1>1, <1>2
  <2> QED BY <1>6, <2>1
<1>8. \A k \in 1 .. Len(out) : out[k].r = R[p + k - 1]
  <2> TAKE k \in 1 .. Len(out)
  <2>1. out[k] = [r |-> R[p + k - 1], n |-> op.n]
    BY <1>6
  <2> QED BY <2>1
<1>9. Head(out).r = R[p] /\ Head(out).n = op.n
  BY <1>1, <1>7
<1>10. gfmd.in[c] <=> R[1] = "begin" /\ p > 1
  BY <1>1, <1>2, <1>4, <1>5
<1>11. p <= Len(R) /\ Len(out) = Len(R) + 1 - p
  BY <1>1, <1>2, <1>5
<1> QED
  BY <1>1, <1>2, <1>5, <1>6, <1>8, <1>9, <1>10, <1>11 DEF out, R, p

\* What gfmd has to do on c goes on when it skips a request.
LEMMA FinishedSkips ==
  ASSUME GfmTypeOK, NEW c \in Wire, Finished(c), gfmd.skip[c],
         wires'[c].out = Tail(wires[c].out),
         gfmd'.skip[c] <=> Head(wires[c].out).r # "end", gfmd'.in[c] <=> Head(wires[c].out).r # "end"
  PROVE  Finished(c)'
<1>1. wires[c].out \in Seq(Asks) /\ Skips(wires[c].out)
  BY WireIs DEF Finished
<1> QED
  BY <1>1, SkipsOn DEF Finished

LEMMA AnsweringSkips ==
  ASSUME GfmTypeOK, NEW c \in Wire, Answering(c), gfmd.skip[c], wires[c].out # <<>>,
         op.o \in Operations, op' = op, wires'[c].out = Tail(wires[c].out), wires'[c].in = wires[c].in,
         gfmd'.skip[c] <=> Head(wires[c].out).r # "end", gfmd'.in[c] <=> Head(wires[c].out).r # "end"
  PROVE  Answering(c)'
<1> DEFINE out == wires[c].out
           t == Tail(out)
           R == ResultsOf(op.o)
           p == Position(c)
           b == Len(out) - Left(c)
<1>1. /\ Len(out) \in Nat /\ Len(out) >= 1 /\ Head(out) = out[1]
      /\ Len(t) = Len(out) - 1 /\ \A k \in 1 .. Len(out) - 1 : t[k] = out[k + 1]
  <2>1. out \in Seq(Asks)
    BY WireIs
  <2>2. Len(out) \in Nat \ {0} /\ Head(out) = out[1]
    BY <2>1, TailOf
  <2> QED BY <2>1, <2>2, TailOf
<1>2. Position(c)' = p /\ Left(c)' = Left(c) /\ Left(c) \in Int
  <2>1. Len(wires[c].in) \in Nat /\ op.i \in Nat /\ Len(R) \in Nat
    BY WireIs, ResultsShape DEF GfmTypeOK, OpStates
  <2> QED BY <2>1 DEF Position, Left
<1>3. /\ \A j \in 1 .. Len(wires[c].in) : wires[c].in[j].e = "ok"
      /\ b > 0 /\ p = 1 /\ out[b].r = "end" /\ \A k \in 1 .. b - 1 : out[k].r # "end"
      /\ \A k \in 1 .. Left(c) : out[b + k] = [r |-> R[p + k - 1], n |-> op.n]
  BY DEF Answering
<1>4. Left(c) = Len(R) /\ Len(R) >= 1 /\ Len(R) \in Nat
  BY <1>3, ResultsShape DEF Left
<1> HIDE DEF R, p, out, t
<1>5. b \in Int /\ Len(t) - Left(c) = b - 1 /\ b <= Len(out) - 1
  BY <1>1, <1>2, <1>4
<1> HIDE DEF b
<1>6. \A k \in 1 .. Left(c) : t[b - 1 + k] = [r |-> R[p + k - 1], n |-> op.n]
  <2> TAKE k \in 1 .. Left(c)
  <2>1. b - 1 + k \in 1 .. Len(out) - 1 /\ b - 1 + k + 1 = b + k
    <3>1. b + Left(c) = Len(out)
      BY <1>1, <1>2 DEF b
    <3> QED BY <1>1, <1>2, <1>3, <1>5, <3>1
  <2>2. t[b - 1 + k] = out[b + k]
    BY <1>1, <2>1
  <2> QED BY <1>3, <2>2
<1>7. out[1].r # "end" <=> b - 1 > 0
  <2>1. CASE b = 1
    BY <1>3, <2>1
  <2>2. CASE b # 1
    <3>0. b \in Int /\ b > 0
      BY <1>3, <1>5
    <3>1. 1 \in 1 .. b - 1
      BY ONLY <3>0, <2>2
    <3>2. b - 1 > 0
      BY ONLY <3>0, <2>2
    <3> QED BY <1>3, <3>1, <3>2
  <2> QED BY <2>1, <2>2
<1>8. b - 1 > 0 => t[b - 1].r = "end" /\ \A k \in 1 .. (b - 1) - 1 : t[k].r # "end"
  <2> HAVE b - 1 > 0
  <2>1. b - 1 \in 1 .. Len(out) - 1 /\ b - 1 + 1 = b
    BY <1>1, <1>5
  <2>2. \A k \in 1 .. (b - 1) - 1 : k \in 1 .. Len(out) - 1 /\ k + 1 \in 1 .. b - 1
    BY <1>1, <1>5
  <2> QED BY <1>1, <1>3, <2>1, <2>2
<1>9. wires'[c].out = t /\ (gfmd'.skip[c] <=> b - 1 > 0) /\ (b - 1 = 0 => ~gfmd'.in[c])
  BY <1>1, <1>5, <1>7 DEF t, out
<1>10. b - 1 >= 0
  BY <1>3, <1>5
<1>11. \A j \in 1 .. Len(wires'[c].in) : wires'[c].in[j].e = "ok"
  BY <1>3
<1>12. ResultsOf(op'.o) = R /\ op'.n = op.n
  BY DEF R
<1> QED
  BY ONLY <1>2, <1>3, <1>5, <1>6, <1>8, <1>9, <1>10, <1>11, <1>12 DEF Answering

LEMMA OneOn ==
  ASSUME NEW n \in Nat, NEW p \in Nat, NEW q, NEW l, q = p + 1, l = n - 1, NEW k \in 1 .. l
  PROVE  k \in 1 .. n - 1 /\ k + 1 \in 1 .. n /\ 0 + k = k /\ q + k - 1 = p + (k + 1) - 1
OBVIOUS

LEMMA AnsweringGoesOn ==
  ASSUME GfmTypeOK, NEW c \in Wire, Answering(c), ~gfmd.skip[c], wires[c].out # <<>>,
         op.o \in Operations, op' = op, wires'[c].out = Tail(wires[c].out),
         NEW a \in Answers, a.e = "ok", wires'[c].in = Append(wires[c].in, a),
         ~gfmd'.skip[c],
         gfmd'.in[c] <=> (gfmd.in[c] \/ Head(wires[c].out).r = "begin") /\ Head(wires[c].out).r # "end"
  PROVE  Answering(c)'
<1> DEFINE out == wires[c].out
           in == wires[c].in
           t == Tail(out)
           R == ResultsOf(op.o)
           p == Position(c)
<1>1. /\ Len(out) \in Nat /\ Len(out) >= 1
      /\ Len(t) = Len(out) - 1 /\ \A k \in 1 .. Len(out) - 1 : t[k] = out[k + 1]
  <2>1. out \in Seq(Asks)
    BY WireIs
  <2>2. Len(out) \in Nat \ {0}
    BY <2>1, TailOf
  <2> QED BY <2>1, <2>2, TailOf
<1>2. /\ Len(out) = Left(c) /\ p \in Nat /\ p >= 1 /\ p <= Len(R) /\ Len(out) = Len(R) + 1 - p
      /\ Head(out).r = R[p]
      /\ \A k \in 1 .. Len(out) : out[k] = [r |-> R[p + k - 1], n |-> op.n]
      /\ gfmd.in[c] <=> R[1] = "begin" /\ p > 1
  BY NextAnswer
<1>3. /\ in \in Seq(Answers) /\ Len(in) \in Nat /\ Len(Append(in, a)) = Len(in) + 1
      /\ \A k \in 1 .. Len(in) : Append(in, a)[k] = in[k]
      /\ Append(in, a)[Len(in) + 1] = a
  <2>1. in \in Seq(Answers) /\ Len(in) \in Nat
    BY WireIs
  <2> HIDE DEF in
  <2> QED BY <2>1, Appended
<1>4. /\ Len(R) \in Nat /\ Len(R) >= 1 /\ \A k \in 2 .. Len(R) : R[k] # "begin"
      /\ \A k \in 1 .. Len(R) - 1 : R[k] # "end"
      /\ R[1] = "begin" => Len(R) >= 2 /\ R[Len(R)] = "end"
      /\ R[1] # "begin" => Len(R) = 1 /\ R[1] = "op"
  BY ResultsShape
<1>5. Position(c)' = p + 1 /\ Left(c)' = Len(out) - 1
  <2>1. Len(wires'[c].in) = Len(in) + 1 /\ op.i \in Nat /\ Len(in) \in Nat
    BY <1>3 DEF GfmTypeOK, OpStates
  <2>2. Position(c)' = op.i + (Len(in) + 1) /\ p = op.i + Len(in)
    BY <2>1 DEF Position
  <2>3. Position(c)' = p + 1
    BY ONLY <2>1, <2>2
  <2>4. ResultsOf(op'.o) = R
    OBVIOUS
  <2> HIDE DEF R, p, out
  <2>6. Left(c)' = Len(R) + 1 - Position(c)'
    BY <2>4 DEF Left
  <2>7. Left(c)' = Len(R) + 1 - (p + 1)
    BY <2>3, <2>6
  <2>8. Len(R) + 1 - (p + 1) = Len(out) - 1
    BY <1>2, <1>4
  <2> QED BY <2>3, <2>7, <2>8
<1>6. \A j \in 1 .. Len(in) : in[j].e = "ok"
  BY DEF Answering
<1>7. \A j \in 1 .. Len(wires'[c].in) : wires'[c].in[j].e = "ok"
  <2> TAKE j \in 1 .. Len(wires'[c].in)
  <2>1. wires'[c].in = Append(in, a)
    OBVIOUS
  <2>2. j \in 1 .. Len(in) \/ j = Len(in) + 1
    BY <1>3, <2>1
  <2> QED BY <1>3, <1>6, <2>1, <2>2
<1>a. (gfmd'.in[c] <=> (gfmd.in[c] \/ R[p] = "begin") /\ R[p] # "end") /\ wires'[c].out = t
      /\ ResultsOf(op'.o) = R /\ op'.n = op.n /\ ~gfmd'.skip[c]
  BY <1>2
<1> HIDE DEF R, p, out, t, in
<1>b. /\ Len(out) \in Nat /\ Len(out) >= 1 /\ p \in Nat /\ p >= 1 /\ p <= Len(R)
      /\ Len(out) = Len(R) + 1 - p /\ Len(R) \in Nat /\ Position(c)' = p + 1
      /\ Left(c)' = Len(out) - 1 /\ Len(t) = Len(out) - 1
  BY <1>1, <1>2, <1>4, <1>5
<1>8. Len(t) - Left(c)' = 0
  BY <1>b
<1>9. \A k \in 1 .. Left(c)' : t[0 + k] = [r |-> R[Position(c)' + k - 1], n |-> op.n]
  <2> TAKE k \in 1 .. Left(c)'
  <2>0. k \in 1 .. Left(c)'
    OBVIOUS
  <2>1. k \in 1 .. Len(out) - 1 /\ k + 1 \in 1 .. Len(out) /\ 0 + k = k
        /\ Position(c)' + k - 1 = p + (k + 1) - 1
    BY ONLY <1>b, <2>0, OneOn
  <2>2. t[k] = out[k + 1] /\ out[k + 1] = [r |-> R[p + (k + 1) - 1], n |-> op.n]
    BY <1>1, <1>2, <2>1
  <2> QED BY <2>1, <2>2
<1>10. gfmd'.in[c] <=> R[1] = "begin" /\ Position(c)' > 1 /\ Left(c)' > 0
  <2>1. Position(c)' > 1 /\ (Left(c)' > 0 <=> p < Len(R))
    BY <1>b
  <2>2. R[p] = "end" => p = Len(R)
    <3>1. p < Len(R) => p \in 1 .. Len(R) - 1
      BY <1>b
    <3> QED BY <1>2, <1>4, <3>1
  <2>3. R[p] = "begin" => p = 1
    <3>1. p # 1 => p \in 2 .. Len(R)
      BY <1>b
    <3> QED BY <1>4, <3>1
  <2>4. CASE R[1] = "begin"
    <3>1. R[p] = "begin" \/ p > 1
      BY <1>2, <2>4
    <3>2. R[p] = "end" <=> ~(p < Len(R))
      BY <1>2, <1>4, <2>2, <2>4
    <3> QED BY <1>2, <1>a, <2>1, <2>4, <3>1, <3>2
  <2>5. CASE R[1] # "begin"
    <3>1. p = 1
      BY <1>2, <1>4, <2>5
    <3> QED BY <1>2, <1>a, <2>5, <3>1
  <2> QED BY <2>4, <2>5
<1>11. ~(0 > 0) /\ 0 >= 0
  OBVIOUS
<1> QED
  BY ONLY <1>a, <1>7, <1>8, <1>9, <1>10, <1>11 DEF Answering

LEMMA AnsweringRefuses ==
  ASSUME GfmTypeOK, NEW c \in Wire, Answering(c), ~gfmd.skip[c], wires[c].out # <<>>,
         op.o \in Operations, op' = op, wires'[c].out = Tail(wires[c].out),
         NEW a \in Answers, a.e = "error", wires'[c].in = Append(wires[c].in, a),
         Head(wires[c].out).r \notin {"begin", "end"},
         gfmd'.skip[c] <=> gfmd.in[c], gfmd'.in[c] <=> gfmd.in[c]
  PROVE  Refused(c)'
<1> DEFINE out == wires[c].out
           in == wires[c].in
           t == Tail(out)
           R == ResultsOf(op.o)
           p == Position(c)
<1>1. /\ Len(out) \in Nat /\ Len(out) >= 1 /\ t \in Seq(Asks)
      /\ Len(t) = Len(out) - 1 /\ \A k \in 1 .. Len(out) - 1 : t[k] = out[k + 1]
      /\ Len(out) = 1 => t = <<>>
  <2>1. out \in Seq(Asks)
    BY WireIs
  <2>2. Len(out) \in Nat \ {0}
    BY <2>1, TailOf
  <2> QED BY <2>1, <2>2, TailOf
<1>2. /\ p \in Nat /\ p >= 1 /\ p <= Len(R) /\ Len(out) = Len(R) + 1 - p
      /\ Head(out).r = R[p]
      /\ \A k \in 1 .. Len(out) : out[k].r = R[p + k - 1]
      /\ gfmd.in[c] <=> R[1] = "begin" /\ p > 1
  BY NextAnswer
<1>3. /\ Len(in) \in Nat /\ Len(Append(in, a)) = Len(in) + 1
      /\ Append(in, a)[Len(in) + 1] = a /\ Append(in, a) # <<>>
  <2>1. in \in Seq(Answers) /\ Len(in) \in Nat
    BY WireIs
  <2> HIDE DEF in
  <2>2. Len(Append(in, a)) = Len(in) + 1 /\ Append(in, a)[Len(in) + 1] = a
    BY <2>1, Appended
  <2>3. Len(<<>>) = 0
    OBVIOUS
  <2> QED BY <2>1, <2>2, <2>3
<1>4. /\ Len(R) \in Nat /\ Len(R) >= 1
      /\ \A k \in 1 .. Len(R) - 1 : R[k] # "end"
      /\ R[1] = "begin" => Len(R) >= 2 /\ R[Len(R)] = "end"
      /\ R[1] # "begin" => Len(R) = 1 /\ R[1] = "op"
  BY ResultsShape
<1>5. R[p] \notin {"begin", "end"}
  BY <1>2
<1>6. wires'[c].in # <<>> /\ wires'[c].in[Len(wires'[c].in)].e = "error" /\ wires'[c].out = t
  BY <1>3
<1> HIDE DEF R, p, out, t, in
<1>7. CASE gfmd.in[c]
  <2>1. p < Len(R) /\ R[Len(R)] = "end"
    BY <1>2, <1>4, <1>5, <1>7
  <2>2. Len(t) >= 1 /\ Len(t) = Len(R) - p
    BY <1>1, <1>2, <1>4, <2>1
  <2>3. \A k \in 1 .. Len(t) : t[k].r = R[p + k]
    <3> TAKE k \in 1 .. Len(t)
    <3>1. k \in 1 .. Len(out) - 1 /\ k + 1 \in 1 .. Len(out) /\ p + (k + 1) - 1 = p + k
      BY <1>1, <1>2
    <3> QED BY <1>1, <1>2, <3>1
  <2>4. t[Len(t)].r = "end"
    <3>1. Len(t) \in 1 .. Len(t) /\ p + Len(t) = Len(R)
      BY <1>2, <1>4, <2>2
    <3> QED BY <2>1, <2>3, <3>1
  <2>5. \A k \in 1 .. Len(t) - 1 : t[k].r # "end"
    <3> TAKE k \in 1 .. Len(t) - 1
    <3>1. k \in 1 .. Len(t) /\ p + k \in 1 .. Len(R) - 1
      BY <1>2, <1>4, <2>2
    <3> QED BY <1>4, <2>3, <3>1
  <2>6. t # <<>>
    <3>1. Len(<<>>) = 0
      OBVIOUS
    <3> QED BY <2>2, <3>1
  <2>7. Skips(wires'[c].out) /\ gfmd'.skip[c]
    BY <1>6, <1>7, <2>4, <2>5, <2>6 DEF Skips
  <2> QED BY <1>6, <2>7 DEF Refused, Finished
<1>8. CASE ~gfmd.in[c]
  <2>1. R[1] # "begin"
    BY <1>2, <1>5, <1>8
  <2>2. Len(out) = 1
    BY <1>2, <1>4, <2>1
  <2>3. wires'[c].out = <<>> /\ ~gfmd'.skip[c] /\ ~gfmd'.in[c]
    BY <1>1, <1>6, <1>8, <2>2
  <2> QED BY <1>6, <2>3 DEF Refused, Finished
<1> QED
  BY <1>7, <1>8

\* The answers belong to the results still when one more is given.
LEMMA OrderGrows ==
  ASSUME GfmTypeOK, NEW c \in Wire, InOrder(c), Answering(c), ~gfmd.skip[c], wires[c].out # <<>>,
         op.o \in Operations, op' = op,
         NEW a \in Answers, a.r = Head(wires[c].out).r, a.n = Head(wires[c].out).n,
         wires'[c].in = Append(wires[c].in, a)
  PROVE  InOrder(c)'
<1> DEFINE in == wires[c].in
           R == ResultsOf(op.o)
           p == Position(c)
<1>1. /\ in \in Seq(Answers) /\ Len(in) \in Nat /\ Len(Append(in, a)) = Len(in) + 1
      /\ \A k \in 1 .. Len(in) : Append(in, a)[k] = in[k]
      /\ Append(in, a)[Len(in) + 1] = a
  <2>1. in \in Seq(Answers) /\ Len(in) \in Nat
    BY WireIs
  <2> HIDE DEF in
  <2> QED BY <2>1, Appended
<1>2. p <= Len(R) /\ a.r = R[p] /\ a.n = op.n
  BY NextAnswer
<1>3. p = op.i + (Len(in) + 1) - 1
  <2>1. op.i \in Nat
    BY DEF GfmTypeOK, OpStates
  <2>2. p = op.i + Len(in)
    BY DEF Position
  <2> HIDE DEF p, in
  <2> QED BY <1>1, <2>1, <2>2
<1>4. /\ \A j \in 1 .. Len(in) : in[j].e = "ok"
      /\ \A j \in 1 .. Len(in) : /\ op.i + j - 1 <= Len(R)
                                 /\ in[j].n = op.n /\ in[j].r = R[op.i + j - 1]
  BY DEF Answering, InOrder
<1>5. wires'[c].in = Append(in, a) /\ ResultsOf(op'.o) = R /\ op'.n = op.n /\ op'.i = op.i
  OBVIOUS
<1> HIDE DEF R, p, in
<1> DEFINE s == Append(in, a)
<1>6. \A j \in 1 .. Len(s) : /\ op.i + j - 1 <= Len(R)
                             /\ s[j].n = op.n /\ s[j].r = R[op.i + j - 1]
                             /\ s[j].e # "ok" => j = Len(s)
  <2> TAKE j \in 1 .. Len(s)
  <2>1. CASE j = Len(in) + 1
    BY <1>1, <1>2, <1>3, <2>1
  <2>2. CASE j # Len(in) + 1
    <3>1. j \in 1 .. Len(in)
      BY <1>1, <2>2
    <3> QED BY <1>1, <1>4, <3>1
  <2> QED BY <2>1, <2>2
<1> QED
  BY ONLY <1>5, <1>6 DEF InOrder

\* gfmd skips a request, executes it or answers an error (x).
LEMMA ServeTraffic ==
  ASSUME GfmInv, NEW c \in Wire, wires[c].out # <<>>, op' = op,
         NEW x \in {"skip", "ok", "error"}, gfmd.skip[c] <=> x = "skip",
         \A d \in Wire \ {c} : wires'[d] = wires[d] /\ gfmd'.skip[d] = gfmd.skip[d]
                               /\ gfmd'.in[d] = gfmd.in[d],
         wires'[c].out = Tail(wires[c].out), wires'[c].st = wires[c].st,
         NEW a \in Answers, a.r = Head(wires[c].out).r, a.n = Head(wires[c].out).n,
         x # "skip" => a.e = x,
         wires'[c].in = IF x # "skip" /\ wires[c].st = "up" THEN Append(wires[c].in, a) ELSE wires[c].in,
         x = "skip" => /\ gfmd'.skip[c] <=> Head(wires[c].out).r # "end"
                       /\ gfmd'.in[c] <=> Head(wires[c].out).r # "end",
         x = "ok" => /\ ~gfmd'.skip[c]
                     /\ gfmd'.in[c] <=> (gfmd.in[c] \/ Head(wires[c].out).r = "begin")
                                        /\ Head(wires[c].out).r # "end",
         x = "error" => /\ Head(wires[c].out).r \notin {"begin", "end"}
                        /\ gfmd'.skip[c] <=> gfmd.in[c]
                        /\ gfmd'.in[c] <=> gfmd.in[c]
  PROVE  /\ Traffic'
         /\ wires[c].st = "up" /\ x # "skip" => Reading(c) /\ Answering(c)
<1>1. GfmTypeOK /\ Traffic
  BY DEF GfmInv
<1>2. \A d : Reading(d)' <=> Reading(d)
  BY DEF Reading
<1>3. Reading(c) => op.o \in Operations
  BY DEF GfmInv, Placed, Reading
<1>4. Finished(c) => gfmd.skip[c]
  BY DEF Finished
<1>5. wires[c].st = "up" /\ x # "skip" => Reading(c) /\ Answering(c)
  BY <1>1, <1>4 DEF Traffic, Refused
<1>6. ~Reading(c) => wires'[c].in = <<>>
  BY <1>1, <1>5 DEF Traffic
<1>7. Reading(c) => InOrder(c)'
  <2> HAVE Reading(c)
  <2>1. InOrder(c)
    BY <1>1 DEF Traffic
  <2>2. CASE wires'[c].in = wires[c].in
    BY ONLY <2>1, <2>2, op' = op DEF InOrder
  <2>3. CASE wires[c].st = "up" /\ x # "skip"
    <3>1. Answering(c) /\ ~gfmd.skip[c] /\ op.o \in Operations /\ wires'[c].in = Append(wires[c].in, a)
      BY <1>3, <1>5, <2>3
    <3> QED BY <1>1, <2>1, <3>1, OrderGrows
  <2> QED BY <2>2, <2>3
<1>8. wires[c].st = "up" => IF Reading(c) THEN Answering(c)' \/ Refused(c)' ELSE Finished(c)'
  <2> HAVE wires[c].st = "up"
  <2>1. CASE x = "skip"
    <3>1. /\ wires'[c].in = wires[c].in /\ gfmd.skip[c]
          /\ gfmd'.skip[c] <=> Head(wires[c].out).r # "end"
          /\ gfmd'.in[c] <=> Head(wires[c].out).r # "end"
      BY <2>1
    <3>2. CASE Reading(c) /\ Answering(c)
      BY <1>1, <1>3, <3>1, <3>2, AnsweringSkips
    <3>3. CASE Reading(c) /\ Refused(c)
      <4>1. Finished(c)'
        BY <1>1, <3>1, <3>3, FinishedSkips DEF Refused
      <4> QED BY <3>1, <3>3, <4>1 DEF Refused
    <3>4. CASE ~Reading(c)
      <4>1. Finished(c)
        BY <1>1, <3>4 DEF Traffic
      <4> QED BY <1>1, <3>1, <3>4, <4>1, FinishedSkips
    <3> QED BY <1>1, <3>2, <3>3, <3>4 DEF Traffic
  <2>2. CASE x = "ok"
    <3>1. /\ Reading(c) /\ Answering(c) /\ ~gfmd.skip[c] /\ op.o \in Operations
          /\ wires'[c].in = Append(wires[c].in, a) /\ a.e = "ok" /\ ~gfmd'.skip[c]
          /\ gfmd'.in[c] <=> (gfmd.in[c] \/ Head(wires[c].out).r = "begin")
                             /\ Head(wires[c].out).r # "end"
      BY <1>3, <1>5, <2>2
    <3> QED BY <1>1, <3>1, AnsweringGoesOn
  <2>3. CASE x = "error"
    <3>1. /\ Reading(c) /\ Answering(c) /\ ~gfmd.skip[c] /\ op.o \in Operations
          /\ wires'[c].in = Append(wires[c].in, a) /\ a.e = "error"
          /\ Head(wires[c].out).r \notin {"begin", "end"}
          /\ gfmd'.skip[c] <=> gfmd.in[c]
          /\ gfmd'.in[c] <=> gfmd.in[c]
      BY <1>3, <1>5, <2>3
    <3> QED BY <1>1, <3>1, AnsweringRefuses
  <2> QED BY <2>1, <2>2, <2>3
<1>9. Traffic'
  <2> SUFFICES ASSUME NEW d \in Wire
               PROVE  /\ ~Reading(d)' => wires'[d].in = <<>>
                      /\ Reading(d)' => InOrder(d)'
                      /\ wires'[d].st = "up" =>
                           IF Reading(d)' THEN Answering(d)' \/ Refused(d)' ELSE Finished(d)'
    BY DEF Traffic
  <2>1. CASE d = c
    BY <1>2, <1>6, <1>7, <1>8, <2>1
  <2>2. CASE d # c
    <3>1. wires'[d] = wires[d] /\ gfmd'.skip[d] = gfmd.skip[d] /\ gfmd'.in[d] = gfmd.in[d]
      BY <2>2
    <3>2. Finished(d)' <=> Finished(d)
      BY <3>1 DEF Finished
    <3>3. /\ Refused(d)' <=> Refused(d)
          /\ Answering(d)' <=> Answering(d)
          /\ InOrder(d)' <=> InOrder(d)
      <4>1. Refused(d)' <=> Refused(d)
        BY <3>1, <3>2 DEF Refused
      <4>2. InOrder(d)' <=> InOrder(d)
        BY <3>1 DEF InOrder
      <4>3. Position(d)' = Position(d) /\ Left(d)' = Left(d)
        BY <3>1 DEF Position, Left
      <4>4. Answering(d)' <=> Answering(d)
        BY <3>1, <4>3 DEF Answering
      <4> QED BY <4>1, <4>2, <4>4
    <3> QED BY <1>1, <1>2, <3>1, <3>2, <3>3 DEF Traffic
  <2> QED BY <2>1, <2>2
<1> QED
  BY <1>5, <1>9

LEMMA ServeKeeps ==
  ASSUME GfmInv, NEW c \in Wire, wires[c].out # <<>>, op' = op, open' = open,
         NEW x \in {"skip", "ok", "error"},
         Traffic', wires[c].st = "up" /\ x # "skip" => Reading(c) /\ Answering(c),
         ~gfmd.skip[c] \/ x = "skip",
         \A d \in Wire \ {c} : wires'[d] = wires[d],
         wires' \in [Wire -> WireStates], wires'[c].out = Tail(wires[c].out),
         wires'[c].st = wires[c].st, wires'[c].cached = wires[c].cached,
         wires'[c].held = wires[c].held, wires'[c].pid = wires[c].pid,
         NEW a \in Answers, a.r = Head(wires[c].out).r, x # "skip" => a.e = x,
         wires'[c].in = IF x # "skip" /\ wires[c].st = "up" THEN Append(wires[c].in, a) ELSE wires[c].in,
         gfmd' \in GfmdStates, gfmd'.up = gfmd.up,
         log' \in [DOMAIN Ops -> LogEntries],
         \A n \in DOMAIN Ops :
           /\ log'[n].result = log[n].result /\ log'[n].stale = log[n].stale
           /\ log'[n].faults = log[n].faults
           /\ log'[n].executed = log[n].executed +
                IF x = "ok" /\ Head(wires[c].out).r = "op" /\ n = Head(wires[c].out).n THEN 1 ELSE 0
  PROVE  GfmInv'
<1> DEFINE out == wires[c].out
           t == Tail(out)
           q == Head(out)
           once == x = "ok" /\ q.r = "op"
<1>1. /\ out \in Seq(Asks) /\ Len(out) \in Nat /\ Len(out) >= 1 /\ q = out[1] /\ q \in Asks
      /\ t \in Seq(Asks) /\ Len(t) = Len(out) - 1 /\ \A k \in 1 .. Len(out) - 1 : t[k] = out[k + 1]
  <2>1. out \in Seq(Asks)
    BY WireIs DEF GfmInv
  <2>2. Len(out) \in Nat \ {0} /\ q = out[1] /\ q \in Asks
    BY <2>1, TailOf
  <2> QED BY <2>1, <2>2, TailOf
<1>2. /\ wires'[c].out = t
      /\ \A n \in DOMAIN Ops : log'[n].executed = log[n].executed + IF once /\ n = q.n THEN 1 ELSE 0
      /\ \A n \in DOMAIN Ops : log[n].executed \in Nat /\ log[n].faults \in Nat
  BY DEF GfmInv, GfmTypeOK, LogEntries
<1> HIDE DEF out, t, q, once
<1>3. \A k \in 1 .. Len(t) : k + 1 \in 1 .. Len(out) /\ t[k] = out[k + 1] /\ k + 1 # 1
  BY <1>1
<1>4. \A d \in Wire : /\ wires'[d].st = wires[d].st /\ wires'[d].cached = wires[d].cached
                      /\ wires'[d].held = wires[d].held /\ wires'[d].pid = wires[d].pid
  OBVIOUS
<1>5. \A d : (RefsTo(d)' = RefsTo(d)) /\ (Reading(d)' <=> Reading(d))
  BY DEF RefsTo, Reading
<1>6. Cached' = Cached
  BY <1>4 DEF Cached
<1>7. GfmTypeOK' /\ Placed' /\ StaleForgiven'
  BY DEF GfmInv, GfmTypeOK, Placed, StaleForgiven
<1>8. Held'
  BY <1>4, <1>5, <1>6 DEF GfmInv, Held
<1>9. /\ \A k \in 1 .. Len(out) : out[k].n \in 1 .. op.n
      /\ \A k, l \in 1 .. Len(out) : out[k].r = "op" /\ out[k] = out[l] => k = l
      /\ wires[c].st = "up" /\ op.pc # "idle" /\ ~Reading(c) => \A k \in 1 .. Len(out) : out[k].n # op.n
  BY DEF GfmInv, SentOnce, out
<1>10. /\ \A k \in 1 .. Len(t) : t[k].n \in 1 .. op.n
       /\ \A k, l \in 1 .. Len(t) : t[k].r = "op" /\ t[k] = t[l] => k = l
       /\ wires[c].st = "up" /\ op.pc # "idle" /\ ~Reading(c) => \A k \in 1 .. Len(t) : t[k].n # op.n
  <2>1. \A k \in 1 .. Len(t) : t[k].n \in 1 .. op.n
    BY <1>3, <1>9
  <2>2. ASSUME NEW k \in 1 .. Len(t), NEW l \in 1 .. Len(t), t[k].r = "op", t[k] = t[l]
        PROVE  k = l
    <3>1. k + 1 = l + 1
      BY <1>3, <1>9, <2>2
    <3> QED BY <1>1, <3>1
  <2>3. wires[c].st = "up" /\ op.pc # "idle" /\ ~Reading(c) => \A k \in 1 .. Len(t) : t[k].n # op.n
    BY <1>3, <1>9
  <2> QED BY <2>1, <2>2, <2>3
<1>11. SentOnce'
  <2> SUFFICES ASSUME NEW d \in Wire
               PROVE  LET w == wires'[d].out IN
                      /\ \A k \in 1 .. Len(w) : w[k].n \in 1 .. op.n
                      /\ \A k, l \in 1 .. Len(w) : w[k].r = "op" /\ w[k] = w[l] => k = l
                      /\ wires[d].st = "up" /\ op.pc # "idle" /\ ~Reading(d) =>
                           \A k \in 1 .. Len(w) : w[k].n # op.n
    BY <1>4, <1>5 DEF SentOnce
  <2>1. CASE d = c
    BY <1>2, <1>10, <2>1
  <2>2. CASE d # c
    BY <2>2 DEF GfmInv, SentOnce
  <2> QED BY <2>1, <2>2
<1>12. AskedFor'
  <2> SUFFICES ASSUME NEW n \in DOMAIN Ops
               PROVE  (log[n].executed + Cardinality(SentOn(n)) <= Asked(n))'
    BY DEF AskedFor
  <2>1. \A d \in Wire : Sent(d, n)' => Sent(d, n)
    <3> SUFFICES ASSUME NEW d \in Wire, Sent(d, n)' PROVE Sent(d, n)
      OBVIOUS
    <3>1. CASE d = c
      <4>1. PICK k \in 1 .. Len(t) : t[k] = [r |-> "op", n |-> n]
        BY <1>2, <3>1 DEF Sent
      <4>2. out[k + 1] = [r |-> "op", n |-> n] /\ k + 1 \in 1 .. Len(out)
        BY <1>3, <4>1
      <4> QED BY <3>1, <4>2 DEF Sent, out
    <3>2. CASE d # c
      BY <3>2 DEF Sent
    <3> QED BY <3>1, <3>2
  <2>2. SentOn(n)' \subseteq SentOn(n)
    BY <2>1 DEF SentOn
  <2>3. Asked(n)' = Asked(n)
    <3>1. log'[n].faults = log[n].faults
      OBVIOUS
    <3>2. op.pc = "result" => op.c \in Wire
      BY OpWire DEF GfmInv
    <3> QED BY <1>4, <3>1, <3>2 DEF Asked
  <2>4. /\ log[n].executed + Cardinality(SentOn(n)) <= Asked(n)
        /\ log[n].executed \in Nat /\ Cardinality(SentOn(n)) \in Nat
    BY <1>2, SentFinite DEF GfmInv, AskedFor
  <2>5. Asked(n) \in Nat
    <3>1. op.faults \in Nat
      BY DEF GfmInv, GfmTypeOK, OpStates
    <3> QED BY <1>2, <3>1 DEF Asked
  <2>6. CASE once /\ n = q.n
    <3>1. q = [r |-> "op", n |-> n]
      BY <1>1, <2>6 DEF once, Asks
    <3>2. c \in SentOn(n)
      <4>1. 1 \in 1 .. Len(out) /\ out[1] = [r |-> "op", n |-> n]
        BY <1>1, <3>1
      <4> QED BY <4>1 DEF SentOn, Sent, out
    <3>3. ~Sent(c, n)'
      <4> SUFFICES ASSUME Sent(c, n)' PROVE FALSE
        OBVIOUS
      <4>1. PICK k \in 1 .. Len(t) : t[k] = [r |-> "op", n |-> n]
        BY <1>2 DEF Sent
      <4>2. out[k + 1] = q /\ out[1] = q /\ q.r = "op" /\ k + 1 \in 1 .. Len(out) /\ k + 1 # 1
            /\ 1 \in 1 .. Len(out)
        BY <1>1, <1>3, <3>1, <4>1
      <4> QED BY <1>9, <4>2
    <3>4. SentOn(n)' \subseteq SentOn(n) \ {c}
      BY <2>2, <3>3 DEF SentOn
    <3>5. /\ IsFiniteSet(SentOn(n) \ {c})
          /\ Cardinality(SentOn(n) \ {c}) = Cardinality(SentOn(n)) - 1
      BY <3>2, SentFinite, FS_RemoveElement
    <3>6. Cardinality(SentOn(n)') <= Cardinality(SentOn(n)) - 1 /\ Cardinality(SentOn(n)') \in Nat
      <4>1. IsFiniteSet(SentOn(n)') /\ Cardinality(SentOn(n)') <= Cardinality(SentOn(n) \ {c})
        BY <3>4, <3>5, FS_Subset
      <4> QED BY <3>5, <4>1, FS_CardinalityType
    <3>7. log'[n].executed = log[n].executed + 1
      BY <1>2, <2>6
    <3> QED BY ONLY <2>3, <2>4, <2>5, <3>6, <3>7
  <2>7. CASE ~(once /\ n = q.n)
    <3>1. log'[n].executed = log[n].executed
      BY <1>2, <2>7
    <3>2. Cardinality(SentOn(n)') <= Cardinality(SentOn(n)) /\ Cardinality(SentOn(n)') \in Nat
      BY <2>2, SentShrinks
    <3> QED BY ONLY <2>3, <2>4, <2>5, <3>1, <3>2
  <2> QED BY <2>6, <2>7
<1>13. \A n \in DOMAIN Ops : log'[n].executed >= log[n].executed
  BY <1>2
<1>14. op.pc = "result" => op.n \in DOMAIN Ops /\ op.c \in Wire
  BY OpWire DEF GfmInv, Placed
<1>15. /\ \A n \in DOMAIN Ops : /\ log[n].result = "ok" => log[n].executed >= 1
                                /\ n >= op.n /\ op.pc # "idle" => log[n].result = "none"
                                /\ n > op.n => log[n].result = "none"
       /\ op.pc = "result" =>
            /\ \A k \in 1 .. op.i - 1 : ResultsOf(op.o)[k] = "op" => log[op.n].executed >= 1
            /\ \A j \in 1 .. Len(wires[op.c].in) :
                 wires[op.c].in[j].r = "op" /\ wires[op.c].in[j].e = "ok" => log[op.n].executed >= 1
  BY DEF GfmInv, Done
<1>16. \A n \in DOMAIN Ops : log[n].executed >= 1 => log'[n].executed >= 1
  <2> SUFFICES ASSUME NEW n \in DOMAIN Ops, log[n].executed >= 1 PROVE log'[n].executed >= 1
    OBVIOUS
  <2> QED BY <1>2
<1>17. ASSUME op.pc = "result", NEW j \in 1 .. Len(wires'[op.c].in),
              wires'[op.c].in[j].r = "op", wires'[op.c].in[j].e = "ok"
       PROVE  log'[op.n].executed >= 1
  <2>1. CASE wires'[op.c].in = wires[op.c].in
    BY <1>14, <1>15, <1>16, <1>17, <2>1
  <2>2. CASE op.c = c /\ x # "skip" /\ wires[c].st = "up"
    <3>1. wires'[c].in = Append(wires[c].in, a) /\ Answering(c) /\ ~gfmd.skip[c]
      BY <2>2
    <3>2. q.n = op.n
      <4>1. op.o \in Operations
        BY <1>17 DEF GfmInv, Placed
      <4> QED BY <3>1, <4>1, NextAnswer DEF GfmInv, q, out
    <3>3. wires[c].in \in Seq(Answers) /\ Len(wires[c].in) \in Nat
      BY WireIs DEF GfmInv
    <3>4. /\ Len(Append(wires[c].in, a)) = Len(wires[c].in) + 1
          /\ \A k \in 1 .. Len(wires[c].in) : Append(wires[c].in, a)[k] = wires[c].in[k]
          /\ Append(wires[c].in, a)[Len(wires[c].in) + 1] = a
      BY <3>3, Appended
    <3>5. CASE j = Len(wires[c].in) + 1
      <4>1. once
        BY <1>17, <2>2, <3>1, <3>4, <3>5 DEF once, q, out
      <4>2. log'[op.n].executed = log[op.n].executed + 1 /\ log[op.n].executed \in Nat
        BY <1>2, <1>14, <1>17, <3>2, <4>1
      <4> QED BY ONLY <4>2
    <3>6. CASE j # Len(wires[c].in) + 1
      <4>1. j \in 1 .. Len(wires[c].in)
        BY <1>17, <2>2, <3>1, <3>3, <3>4, <3>6
      <4>2. wires[op.c].in[j].r = "op" /\ wires[op.c].in[j].e = "ok"
        BY <1>17, <2>2, <3>1, <3>4, <4>1
      <4> QED BY <1>14, <1>15, <1>16, <1>17, <2>2, <4>1, <4>2
    <3> QED BY <3>5, <3>6
  <2> QED BY <1>14, <1>17, <2>1, <2>2
<1>18. Done'
  <2>1. \A n \in DOMAIN Ops : log'[n].result = log[n].result
    OBVIOUS
  <2>2. op' = op
    OBVIOUS
  <2> QED BY ONLY <1>14, <1>15, <1>16, <1>17, <2>1, <2>2 DEF Done
<1>19. Replaced'
  <2> SUFFICES ASSUME op.stale, op.faults = 0
               PROVE  Replaced'
    BY DEF Replaced
  <2>1. op.retry = 0 /\ op.pc \notin {"idle", "acquire"} => op.c \in Wire /\ wires[op.c].st = "lost"
    BY OpWire DEF GfmInv, Replaced
  <2>2. op.retry = 0 /\ op.pc \notin {"idle", "acquire"} =>
          wires'[op.c].in = wires[op.c].in
    BY <2>1
  <2>3. op.pc \notin {"idle", "acquire"} => op.c \in Wire
    BY OpWire DEF GfmInv
  <2>4. /\ gfmd.up /\ ~OnFile(op.o) /\ op.pc # "idle"
        /\ op.retry = 0 /\ op.pc = "acquire" => \E d \in Cached : wires[d].st = "lost" /\ wires[d].pid
        /\ op.retry = 0 /\ op.pc # "acquire" =>
             /\ op.pc # "alloc" /\ wires[op.c].st = "lost" /\ wires[op.c].cached
             /\ op.pc = "result" => op.i = 1 /\ wires[op.c].in = <<>>
        /\ op.retry = 1 => IF op.pc = "acquire" THEN Cached = {} ELSE wires[op.c].st = "up"
    BY DEF GfmInv, Replaced
  <2>5. \A d \in Cached : d \in Wire
    BY DEF Cached
  <2>6. (\E d \in Cached : wires[d].st = "lost" /\ wires[d].pid) =>
           \E d \in Cached : wires'[d].st = "lost" /\ wires'[d].pid
    BY <1>4, <2>5
  <2>7. op.pc \notin {"idle", "acquire"} =>
          wires'[op.c].st = wires[op.c].st /\ wires'[op.c].cached = wires[op.c].cached
    BY <1>4, <2>3
  <2>8. op' = op /\ gfmd'.up = gfmd.up
    OBVIOUS
  <2> QED BY ONLY <1>6, <2>2, <2>4, <2>6, <2>7, <2>8 DEF Replaced
<1> QED
  BY <1>7, <1>8, <1>11, <1>12, <1>18, <1>19 DEF GfmInv

\* It executes an operation.
LEMMA ExecutedAs ==
  ASSUME log \in [DOMAIN Ops -> LogEntries], NEW m, log' = [log EXCEPT ![m].executed = @ + 1]
  PROVE  /\ log' \in [DOMAIN Ops -> LogEntries]
         /\ \A n \in DOMAIN Ops :
              /\ log'[n].result = log[n].result /\ log'[n].stale = log[n].stale
              /\ log'[n].faults = log[n].faults
              /\ log'[n].executed = log[n].executed + IF n = m THEN 1 ELSE 0
<1> DEFINE r == [log[m] EXCEPT !.executed = @ + 1]
<1>1. log' = [log EXCEPT ![m] = r]
  OBVIOUS
<1>2. m \in DOMAIN Ops => /\ r \in LogEntries /\ r.result = log[m].result /\ r.stale = log[m].stale
                          /\ r.faults = log[m].faults /\ r.executed = log[m].executed + 1
  BY DEF LogEntries
<1> HIDE DEF r
<1>3. log' \in [DOMAIN Ops -> LogEntries]
  BY ONLY <1>1, <1>2, log \in [DOMAIN Ops -> LogEntries]
<1>4. ASSUME NEW n \in DOMAIN Ops
      PROVE  /\ log'[n].result = log[n].result /\ log'[n].stale = log[n].stale
             /\ log'[n].faults = log[n].faults
             /\ log'[n].executed = log[n].executed + IF n = m THEN 1 ELSE 0
  <2>1. CASE n = m
    <3>1. log'[n] = r
      BY ONLY <1>1, <2>1, n \in DOMAIN Ops, log \in [DOMAIN Ops -> LogEntries]
    <3> QED BY <1>2, <2>1, <3>1
  <2>2. CASE n # m
    <3>1. log'[n] = log[n]
      BY ONLY <1>1, <2>2, n \in DOMAIN Ops, log \in [DOMAIN Ops -> LogEntries]
    <3>2. log[n].executed \in Nat
      BY DEF LogEntries
    <3> QED BY <2>2, <3>1, <3>2
  <2> QED BY <2>1, <2>2
<1> QED
  BY <1>3, <1>4

\* gfmd takes a request off.
LEMMA ServedAs ==
  ASSUME GfmTypeOK, NEW c \in Wire, wires[c].out # <<>>, NEW s \in Seq(Answers),
         wires' = [wires EXCEPT ![c].out = Tail(@), ![c].in = s]
  PROVE  /\ wires' \in [Wire -> WireStates] /\ \A d \in Wire \ {c} : wires'[d] = wires[d]
         /\ wires'[c].out = Tail(wires[c].out) /\ wires'[c].in = s
         /\ wires'[c].st = wires[c].st /\ wires'[c].cached = wires[c].cached
         /\ wires'[c].held = wires[c].held /\ wires'[c].pid = wires[c].pid
<1> DEFINE t == Tail(wires[c].out)
           l == [wires[c] EXCEPT !.out = t]
           m == [l EXCEPT !.in = s]
<1>1. t \in Seq(Asks) /\ wires[c] \in WireStates
  BY WireIs, TailOf
<1>2. wires' = [wires EXCEPT ![c] = m]
  OBVIOUS
<1> HIDE DEF t
<1>3. /\ l \in WireStates /\ l.out = t /\ l.held = wires[c].held
      /\ l.st = wires[c].st /\ l.cached = wires[c].cached /\ l.pid = wires[c].pid
  BY <1>1, OutAs
<1> HIDE DEF l
<1>4. /\ m \in WireStates /\ m.out = t /\ m.in = s /\ m.held = wires[c].held
      /\ m.st = wires[c].st /\ m.cached = wires[c].cached /\ m.pid = wires[c].pid
  BY <1>3, InAs
<1> HIDE DEF m
<1> QED
  BY ONLY <1>2, <1>4, GfmTypeOK, c \in Wire, OneWire DEF t

LEMMA SkippedAs ==
  ASSUME GfmTypeOK, NEW c \in Wire, wires[c].out # <<>>,
         wires' = [wires EXCEPT ![c].out = Tail(@)]
  PROVE  /\ wires' \in [Wire -> WireStates] /\ \A d \in Wire \ {c} : wires'[d] = wires[d]
         /\ wires'[c].out = Tail(wires[c].out) /\ wires'[c].in = wires[c].in
         /\ wires'[c].st = wires[c].st /\ wires'[c].cached = wires[c].cached
         /\ wires'[c].held = wires[c].held /\ wires'[c].pid = wires[c].pid
<1> DEFINE t == Tail(wires[c].out)
           l == [wires[c] EXCEPT !.out = t]
<1>1. t \in Seq(Asks) /\ wires[c] \in WireStates
  BY WireIs, TailOf
<1>2. wires' = [wires EXCEPT ![c] = l]
  OBVIOUS
<1> HIDE DEF t
<1>3. /\ l \in WireStates /\ l.out = t /\ l.in = wires[c].in /\ l.held = wires[c].held
      /\ l.st = wires[c].st /\ l.cached = wires[c].cached /\ l.pid = wires[c].pid
  BY <1>1, OutAs
<1> HIDE DEF l
<1> QED
  BY ONLY <1>2, <1>3, GfmTypeOK, c \in Wire, OneWire DEF t

LEMMA ServeStep ==
  ASSUME GfmInv, NEW c \in Wire, Serve(c)
  PROVE  GfmInv'
<1> DEFINE q == Head(wires[c].out)
           Answer(e) == wires' = [wires EXCEPT ![c].out = Tail(@),
                                   ![c].in = IF wires[c].st = "up" THEN Append(@, [r |-> q.r, n |-> q.n, e |-> e])
                                             ELSE @]
<1>1. wires[c].out # <<>> /\ op' = op /\ open' = open /\ GfmTypeOK
  BY DEF Serve, GfmInv
<1>2. q \in Asks /\ wires[c].in \in Seq(Answers)
  <2>1. wires[c].out \in Seq(Asks) /\ wires[c].in \in Seq(Answers)
    BY <1>1, WireIs
  <2> QED BY <1>1, <2>1, TailOf
<1>3. ASSUME NEW e \in {"ok", "error"}, Answer(e)
      PROVE  \E a \in Answers :
               /\ a.r = q.r /\ a.n = q.n /\ a.e = e
               /\ wires' \in [Wire -> WireStates] /\ \A d \in Wire \ {c} : wires'[d] = wires[d]
               /\ wires'[c].out = Tail(wires[c].out)
               /\ wires'[c].in = IF wires[c].st = "up" THEN Append(wires[c].in, a) ELSE wires[c].in
               /\ wires'[c].st = wires[c].st /\ wires'[c].cached = wires[c].cached
               /\ wires'[c].held = wires[c].held /\ wires'[c].pid = wires[c].pid
  <2> DEFINE a == [r |-> q.r, n |-> q.n, e |-> e]
             s == IF wires[c].st = "up" THEN Append(wires[c].in, a) ELSE wires[c].in
  <2>1. a \in Answers /\ a.r = q.r /\ a.n = q.n /\ a.e = e
    BY <1>2 DEF Asks, Answers
  <2>2. wires' = [wires EXCEPT ![c].out = Tail(@), ![c].in = s]
    BY <1>3
  <2> HIDE DEF a
  <2>3. s \in Seq(Answers)
    <3>1. Append(wires[c].in, a) \in Seq(Answers)
      BY <1>2, <2>1, Appended
    <3> QED BY <1>2, <3>1
  <2>4. s = IF wires[c].st = "up" THEN Append(wires[c].in, a) ELSE wires[c].in
    OBVIOUS
  <2> HIDE DEF s
  <2>5. /\ wires' \in [Wire -> WireStates] /\ \A d \in Wire \ {c} : wires'[d] = wires[d]
        /\ wires'[c].out = Tail(wires[c].out) /\ wires'[c].in = s
        /\ wires'[c].st = wires[c].st /\ wires'[c].cached = wires[c].cached
        /\ wires'[c].held = wires[c].held /\ wires'[c].pid = wires[c].pid
    BY ONLY <1>1, <2>2, <2>3, c \in Wire, ServedAs
  <2> QED BY ONLY <2>1, <2>4, <2>5
<1>4. /\ \A d \in Wire : gfmd.skip[d] \in BOOLEAN /\ gfmd.in[d] \in BOOLEAN
      /\ gfmd \in GfmdStates /\ log \in [DOMAIN Ops -> LogEntries]
  BY <1>1 DEF GfmTypeOK, GfmdStates
<1> HIDE DEF Answer
<1>5. CASE /\ gfmd.skip[c]
           /\ wires' = [wires EXCEPT ![c].out = Tail(@)]
           /\ gfmd' = [gfmd EXCEPT !.skip[c] = q.r # "end", !.in[c] = q.r # "end"]
           /\ UNCHANGED log
  <2>1. /\ wires' \in [Wire -> WireStates] /\ \A d \in Wire \ {c} : wires'[d] = wires[d]
        /\ wires'[c].out = Tail(wires[c].out) /\ wires'[c].in = wires[c].in
        /\ wires'[c].st = wires[c].st /\ wires'[c].cached = wires[c].cached
        /\ wires'[c].held = wires[c].held /\ wires'[c].pid = wires[c].pid
    BY <1>1, <1>5, SkippedAs
  <2>2. /\ gfmd' \in GfmdStates /\ gfmd'.up = gfmd.up
        /\ gfmd'.skip[c] <=> q.r # "end"
        /\ gfmd'.in[c] <=> q.r # "end"
        /\ \A d \in Wire \ {c} : gfmd'.skip[d] = gfmd.skip[d] /\ gfmd'.in[d] = gfmd.in[d]
    BY <1>4, <1>5 DEF GfmdStates
  <2> DEFINE a == [r |-> q.r, n |-> q.n, e |-> "ok"]
             x == "skip"
  <2>3. a \in Answers /\ a.r = q.r /\ a.n = q.n
    BY <1>2 DEF Asks, Answers
  <2> HIDE DEF a
  <2>4. /\ log' \in [DOMAIN Ops -> LogEntries]
        /\ \A n \in DOMAIN Ops :
             /\ log'[n].result = log[n].result /\ log'[n].stale = log[n].stale
             /\ log'[n].faults = log[n].faults
             /\ log'[n].executed = log[n].executed + IF x = "ok" /\ q.r = "op" /\ n = q.n THEN 1 ELSE 0
    BY <1>4, <1>5 DEF LogEntries
  <2>5. x \in {"skip", "ok", "error"} /\ (gfmd.skip[c] <=> x = "skip")
    BY <1>5
  <2>6. Traffic' /\ (wires[c].st = "up" /\ x # "skip" => Reading(c) /\ Answering(c))
    BY <1>1, <2>1, <2>2, <2>3, <2>5, ServeTraffic
  <2> QED BY <1>1, <2>1, <2>2, <2>3, <2>4, <2>5, <2>6, ServeKeeps
<1>6. CASE /\ ~gfmd.skip[c]
           /\ Answer("ok")
           /\ gfmd' = [gfmd EXCEPT !.in[c] = (@ \/ q.r = "begin") /\ q.r # "end"]
           /\ log' = IF q.r = "op" THEN [log EXCEPT ![q.n].executed = @ + 1] ELSE log
  <2>1. PICK a \in Answers :
               /\ a.r = q.r /\ a.n = q.n /\ a.e = "ok"
               /\ wires' \in [Wire -> WireStates] /\ \A d \in Wire \ {c} : wires'[d] = wires[d]
               /\ wires'[c].out = Tail(wires[c].out)
               /\ wires'[c].in = IF wires[c].st = "up" THEN Append(wires[c].in, a) ELSE wires[c].in
               /\ wires'[c].st = wires[c].st /\ wires'[c].cached = wires[c].cached
               /\ wires'[c].held = wires[c].held /\ wires'[c].pid = wires[c].pid
    BY <1>3, <1>6
  <2>2. /\ gfmd' \in GfmdStates /\ gfmd'.up = gfmd.up /\ ~gfmd'.skip[c]
        /\ gfmd'.in[c] <=> (gfmd.in[c] \/ q.r = "begin") /\ q.r # "end"
        /\ \A d \in Wire \ {c} : gfmd'.skip[d] = gfmd.skip[d] /\ gfmd'.in[d] = gfmd.in[d]
    BY <1>4, <1>6 DEF GfmdStates
  <2> DEFINE x == "ok"
  <2>4. /\ log' \in [DOMAIN Ops -> LogEntries]
        /\ \A n \in DOMAIN Ops :
             /\ log'[n].result = log[n].result /\ log'[n].stale = log[n].stale
             /\ log'[n].faults = log[n].faults
             /\ log'[n].executed = log[n].executed + IF x = "ok" /\ q.r = "op" /\ n = q.n THEN 1 ELSE 0
    <3>1. CASE q.r = "op"
      <4>1. log' = [log EXCEPT ![q.n].executed = @ + 1]
        BY <1>6, <3>1
      <4> QED BY <1>4, <3>1, <4>1, ExecutedAs
    <3>2. CASE q.r # "op"
      <4>1. log' = log
        BY <1>6, <3>2
      <4>2. \A n \in DOMAIN Ops : log[n].executed \in Nat
        BY <1>4 DEF LogEntries
      <4> QED BY <1>4, <3>2, <4>1, <4>2
    <3> QED BY <3>1, <3>2
  <2>5. x \in {"skip", "ok", "error"} /\ (gfmd.skip[c] <=> x = "skip")
    BY <1>6
  <2>6. Traffic' /\ (wires[c].st = "up" /\ x # "skip" => Reading(c) /\ Answering(c))
    BY <1>1, <2>1, <2>2, <2>5, ServeTraffic
  <2> QED BY <1>1, <1>6, <2>1, <2>2, <2>4, <2>5, <2>6, ServeKeeps
<1>7. CASE /\ ~gfmd.skip[c] /\ q.r \notin {"begin", "end"}
           /\ Answer("error")
           /\ gfmd' = [gfmd EXCEPT !.skip[c] = gfmd.in[c]]
           /\ UNCHANGED log
  <2>1. PICK a \in Answers :
               /\ a.r = q.r /\ a.n = q.n /\ a.e = "error"
               /\ wires' \in [Wire -> WireStates] /\ \A d \in Wire \ {c} : wires'[d] = wires[d]
               /\ wires'[c].out = Tail(wires[c].out)
               /\ wires'[c].in = IF wires[c].st = "up" THEN Append(wires[c].in, a) ELSE wires[c].in
               /\ wires'[c].st = wires[c].st /\ wires'[c].cached = wires[c].cached
               /\ wires'[c].held = wires[c].held /\ wires'[c].pid = wires[c].pid
    BY <1>3, <1>7
  <2>2. /\ gfmd' \in GfmdStates /\ gfmd'.up = gfmd.up
        /\ gfmd'.skip[c] <=> gfmd.in[c]
        /\ gfmd'.in[c] <=> gfmd.in[c]
        /\ \A d \in Wire \ {c} : gfmd'.skip[d] = gfmd.skip[d] /\ gfmd'.in[d] = gfmd.in[d]
    BY <1>4, <1>7 DEF GfmdStates
  <2> DEFINE x == "error"
  <2>4. /\ log' \in [DOMAIN Ops -> LogEntries]
        /\ \A n \in DOMAIN Ops :
             /\ log'[n].result = log[n].result /\ log'[n].stale = log[n].stale
             /\ log'[n].faults = log[n].faults
             /\ log'[n].executed = log[n].executed + IF x = "ok" /\ q.r = "op" /\ n = q.n THEN 1 ELSE 0
    BY <1>4, <1>7 DEF LogEntries
  <2>5. x \in {"skip", "ok", "error"} /\ (gfmd.skip[c] <=> x = "skip")
    BY <1>7
  <2>6. Traffic' /\ (wires[c].st = "up" /\ x # "skip" => Reading(c) /\ Answering(c))
    BY <1>1, <1>7, <2>1, <2>2, <2>5, ServeTraffic
  <2> QED BY <1>1, <1>7, <2>1, <2>2, <2>4, <2>5, <2>6, ServeKeeps
<1> QED
  BY <1>5, <1>6, <1>7 DEF Serve, Answer

(***************************************************************************)
(* Faults                                                                  *)
(***************************************************************************)
\* What is lost of a connection.
LEMMA LostIs ==
  ASSUME NEW l \in WireStates, NEW i \in {0, Len(l.out)}, NEW j \in {0, Len(l.in)}
  PROVE  LET m == Lost(l, i, j)
         IN  /\ m \in WireStates /\ m.st = (IF l.st = "up" THEN "lost" ELSE l.st)
             /\ m.cached = l.cached /\ m.held = l.held /\ m.pid = l.pid
             /\ m.out \in {<<>>, l.out} /\ m.in \in {<<>>, l.in}
<1> DEFINE st == IF l.st = "up" THEN "lost" ELSE l.st
           o == SubSeq(l.out, 1, i)
           n == SubSeq(l.in, 1, j)
           x == [l EXCEPT !.st = st]
           y == [x EXCEPT !.out = o]
           z == [y EXCEPT !.in = n]
<1>1. l.out \in Seq(Asks) /\ l.in \in Seq(Answers) /\ st \in {"none", "up", "lost"}
  BY DEF WireStates
<1>2. o \in {<<>>, l.out} /\ n \in {<<>>, l.in}
  BY <1>1, Cut
<1>3. o \in Seq(Asks) /\ n \in Seq(Answers)
  <2>1. <<>> \in Seq(Asks) /\ <<>> \in Seq(Answers)
    OBVIOUS
  <2> QED BY <1>1, <1>2, <2>1
<1>4. Lost(l, i, j) = z
  BY DEF Lost
<1> HIDE DEF o, n, st
<1>5. /\ x \in WireStates /\ x.st = st /\ x.cached = l.cached /\ x.held = l.held /\ x.pid = l.pid
  BY <1>1 DEF WireStates
<1> HIDE DEF x
<1>6. /\ y \in WireStates /\ y.st = st /\ y.cached = l.cached /\ y.held = l.held /\ y.pid = l.pid
      /\ y.out = o
  BY <1>3, <1>5, OutAs
<1> HIDE DEF y
<1>7. /\ z \in WireStates /\ z.st = st /\ z.cached = l.cached /\ z.held = l.held /\ z.pid = l.pid
      /\ z.out = o /\ z.in = n
  BY <1>3, <1>6, InAs
<1> HIDE DEF z
<1> QED
  BY <1>2, <1>4, <1>7 DEF st

\* Connections are lost, with some of what is on its way.
LEMMA LossKeeps ==
  ASSUME GfmInv, Fault, open' = open, log' = log,
         gfmd' \in GfmdStates, gfmd'.skip = gfmd.skip, gfmd'.in = gfmd.in,
         wires' \in [Wire -> WireStates],
         \A d \in Wire : /\ wires'[d].cached = wires[d].cached /\ wires'[d].held = wires[d].held
                         /\ wires'[d].pid = wires[d].pid
                         /\ wires'[d].out \in {<<>>, wires[d].out}
                         /\ wires'[d].in \in {<<>>, wires[d].in}
                         /\ wires'[d].st = wires[d].st \/ (wires[d].st = "up" /\ wires'[d].st = "lost")
                         /\ wires'[d].st = "up" => wires'[d] = wires[d]
  PROVE  GfmInv'
<1>1. /\ op' \in OpStates /\ op'.pc = op.pc /\ op'.o = op.o /\ op'.n = op.n /\ op'.c = op.c
      /\ op'.i = op.i /\ op'.retry = op.retry /\ op'.stale = op.stale
      /\ op'.faults = (IF op.pc = "idle" THEN op.faults ELSE op.faults + 1)
      /\ op.faults \in Nat
  BY DEF Fault, GfmInv, GfmTypeOK, OpStates
<1>2. \A d : (RefsTo(d)' = RefsTo(d)) /\ (Reading(d)' <=> Reading(d))
  BY <1>1 DEF RefsTo, Reading
<1>3. GfmTypeOK' /\ Placed' /\ StaleForgiven'
  BY <1>1 DEF GfmInv, GfmTypeOK, Placed, StaleForgiven
<1>4. Held'
  <2>1. Cached' = Cached
    BY DEF Cached
  <2> QED BY <1>1, <1>2, <2>1 DEF GfmInv, Held
<1>5. \A d \in Wire : Len(wires'[d].in) = 0 \/ wires'[d].in = wires[d].in
  OBVIOUS
<1>6. \A d \in Wire : Len(wires'[d].out) = 0 \/ wires'[d].out = wires[d].out
  OBVIOUS
<1>7. Traffic'
  <2> SUFFICES ASSUME NEW d \in Wire
               PROVE  /\ ~Reading(d) => wires'[d].in = <<>>
                      /\ Reading(d) => InOrder(d)'
                      /\ wires'[d].st = "up" =>
                           IF Reading(d) THEN Answering(d)' \/ Refused(d)' ELSE Finished(d)'
    BY <1>2 DEF Traffic
  <2>1. /\ ~Reading(d) => wires[d].in = <<>>
        /\ Reading(d) => InOrder(d)
        /\ wires[d].st = "up" => IF Reading(d) THEN Answering(d) \/ Refused(d) ELSE Finished(d)
    BY DEF GfmInv, Traffic
  <2>2. Reading(d) => InOrder(d)'
    <3> HAVE Reading(d)
    <3>1. CASE Len(wires'[d].in) = 0
      BY <3>1 DEF InOrder
    <3>2. CASE wires'[d].in = wires[d].in
      BY <1>1, <2>1, <3>2 DEF InOrder
    <3> QED BY <1>5, <3>1, <3>2
  <2>3. ASSUME wires'[d].st = "up"
        PROVE  IF Reading(d) THEN Answering(d)' \/ Refused(d)' ELSE Finished(d)'
    <3>1. wires'[d] = wires[d] /\ gfmd'.skip = gfmd.skip /\ gfmd'.in = gfmd.in
      BY <2>3
    <3>2. Finished(d)' <=> Finished(d)
      BY <3>1 DEF Finished
    <3>3. Refused(d)' <=> Refused(d)
      BY <3>1, <3>2 DEF Refused
    <3>4. Position(d)' = Position(d) /\ Left(d)' = Left(d)
      BY <1>1, <3>1 DEF Position, Left
    <3>5. Answering(d)' <=> Answering(d)
      BY ONLY <1>1, <3>1, <3>4 DEF Answering
    <3> QED BY <2>1, <2>3, <3>1, <3>2, <3>3, <3>5
  <2> QED BY <2>1, <2>2, <2>3
<1>8. SentOnce'
  <2> SUFFICES ASSUME NEW d \in Wire
               PROVE  LET w == wires'[d].out IN
                      /\ \A k \in 1 .. Len(w) : w[k].n \in 1 .. op.n
                      /\ \A k, l \in 1 .. Len(w) : w[k].r = "op" /\ w[k] = w[l] => k = l
                      /\ wires'[d].st = "up" /\ op.pc # "idle" /\ ~Reading(d) =>
                           \A k \in 1 .. Len(w) : w[k].n # op.n
    BY <1>1, <1>2 DEF SentOnce
  <2>1. CASE Len(wires'[d].out) = 0
    BY <2>1
  <2>2. CASE wires'[d].out = wires[d].out
    BY <2>2 DEF GfmInv, SentOnce
  <2> QED BY <1>6, <2>1, <2>2
<1>9. AskedFor'
  <2> SUFFICES ASSUME NEW n \in DOMAIN Ops
               PROVE  (log[n].executed + Cardinality(SentOn(n)) <= Asked(n))'
    BY DEF AskedFor
  <2>1. \A d \in Wire : Sent(d, n)' => Sent(d, n)
    BY <1>6 DEF Sent
  <2>2. SentOn(n)' \subseteq SentOn(n)
    BY <2>1 DEF SentOn
  <2>3. Cardinality(SentOn(n)') <= Cardinality(SentOn(n)) /\ Cardinality(SentOn(n)') \in Nat
    BY <2>2, SentShrinks
  <2>4. /\ log[n].executed + Cardinality(SentOn(n)) <= Asked(n)
        /\ log[n].executed \in Nat /\ log[n].faults \in Nat /\ Cardinality(SentOn(n)) \in Nat
    BY SentFinite DEF GfmInv, AskedFor, GfmTypeOK, LogEntries
  <2>5. Asked(n) <= Asked(n)' /\ Asked(n) \in Nat /\ Asked(n)' \in Nat
    BY <1>1, <2>4 DEF Asked
  <2>6. log'[n].executed = log[n].executed
    OBVIOUS
  <2> QED BY ONLY <2>3, <2>4, <2>5, <2>6
<1>10. Done'
  <2>1. op.pc = "result" => op.c \in Wire
    BY OpWire DEF GfmInv
  <2>2. /\ \A n \in DOMAIN Ops : /\ log[n].result = "ok" => log[n].executed >= 1
                                 /\ n >= op.n /\ op.pc # "idle" => log[n].result = "none"
                                 /\ n > op.n => log[n].result = "none"
        /\ op.pc = "result" =>
             /\ \A k \in 1 .. op.i - 1 : ResultsOf(op.o)[k] = "op" => log[op.n].executed >= 1
             /\ \A j \in 1 .. Len(wires[op.c].in) :
                  wires[op.c].in[j].r = "op" /\ wires[op.c].in[j].e = "ok" => log[op.n].executed >= 1
    BY DEF GfmInv, Done
  <2>3. op.pc = "result" => \A j \in 1 .. Len(wires'[op.c].in) :
          wires'[op.c].in[j].r = "op" /\ wires'[op.c].in[j].e = "ok" => log[op.n].executed >= 1
    BY <1>5, <2>1, <2>2
  <2>4. log' = log
    OBVIOUS
  <2> QED BY ONLY <1>1, <2>2, <2>3, <2>4 DEF Done
<1>11. Replaced'
  BY <1>1 DEF GfmInv, Replaced
<1> QED
  BY <1>3, <1>4, <1>7, <1>8, <1>9, <1>10, <1>11 DEF GfmInv

LEMMA LoseStep ==
  ASSUME GfmInv, NEW c \in Wire, LoseWire(c)
  PROVE  GfmInv'
<1>1. wires[c].st = "up" /\ Fault /\ gfmd' = gfmd /\ open' = open /\ log' = log
  BY DEF LoseWire
<1>2. PICK i \in {0, Len(wires[c].out)}, j \in {0, Len(wires[c].in)} :
        wires' = [wires EXCEPT ![c] = Lost(@, i, j)]
  BY DEF LoseWire
<1> DEFINE l == Lost(wires[c], i, j)
<1>3. wires' = [wires EXCEPT ![c] = l] /\ wires[c] \in WireStates /\ gfmd \in GfmdStates
  BY <1>2 DEF GfmInv, GfmTypeOK
<1>4. /\ l \in WireStates /\ l.st = "lost"
      /\ l.cached = wires[c].cached /\ l.held = wires[c].held /\ l.pid = wires[c].pid
      /\ l.out \in {<<>>, wires[c].out} /\ l.in \in {<<>>, wires[c].in}
  BY <1>1, <1>3, LostIs
<1> HIDE DEF l
<1>5. /\ wires' \in [Wire -> WireStates] /\ wires'[c] = l
      /\ \A d \in Wire \ {c} : wires'[d] = wires[d]
  BY <1>3, <1>4, OneWire DEF GfmInv
<1>6. \A d \in Wire : /\ wires'[d].cached = wires[d].cached /\ wires'[d].held = wires[d].held
                      /\ wires'[d].pid = wires[d].pid
                      /\ wires'[d].out \in {<<>>, wires[d].out}
                      /\ wires'[d].in \in {<<>>, wires[d].in}
                      /\ wires'[d].st = wires[d].st \/ (wires[d].st = "up" /\ wires'[d].st = "lost")
                      /\ wires'[d].st = "up" => wires'[d] = wires[d]
  <2> TAKE d \in Wire
  <2>1. CASE d = c
    BY <1>1, <1>4, <1>5, <2>1
  <2>2. CASE d # c
    BY <1>5, <2>2
  <2> QED BY <2>1, <2>2
<1> QED
  BY <1>1, <1>3, <1>5, <1>6, LossKeeps

LEMMA CrashStep ==
  ASSUME GfmInv, Crash
  PROVE  GfmInv'
<1>1. /\ Fault /\ open' = open /\ log' = log
      /\ wires' = [c \in Wire |-> Lost(wires[c], 0, Len(wires[c].in))]
      /\ gfmd' = [gfmd EXCEPT !.up = FALSE]
  BY DEF Crash
<1>2. gfmd' \in GfmdStates /\ gfmd'.skip = gfmd.skip /\ gfmd'.in = gfmd.in
  BY <1>1 DEF GfmInv, GfmTypeOK, GfmdStates
<1>3. ASSUME NEW d \in Wire
      PROVE  /\ wires'[d] \in WireStates /\ wires'[d].st = (IF wires[d].st = "up" THEN "lost" ELSE wires[d].st)
             /\ wires'[d].cached = wires[d].cached /\ wires'[d].held = wires[d].held
             /\ wires'[d].pid = wires[d].pid
             /\ wires'[d].out \in {<<>>, wires[d].out} /\ wires'[d].in \in {<<>>, wires[d].in}
  <2>1. wires'[d] = Lost(wires[d], 0, Len(wires[d].in)) /\ wires[d] \in WireStates
    BY <1>1 DEF GfmInv, GfmTypeOK
  <2>2. 0 \in {0, Len(wires[d].out)} /\ Len(wires[d].in) \in {0, Len(wires[d].in)}
    OBVIOUS
  <2> QED BY <2>1, <2>2, LostIs
<1>4. wires' \in [Wire -> WireStates]
  BY <1>1, <1>3
<1>5. \A d \in Wire : /\ wires'[d].st # "up"
                      /\ wires'[d].st = wires[d].st \/ (wires[d].st = "up" /\ wires'[d].st = "lost")
  BY <1>3
<1> QED
  BY <1>1, <1>2, <1>3, <1>4, <1>5, LossKeeps

LEMMA RestartStep ==
  ASSUME GfmInv, Restart
  PROVE  GfmInv'
<1>1. gfmd' = [gfmd EXCEPT !.up = TRUE] /\ op' = op /\ wires' = wires /\ open' = open /\ log' = log
  BY DEF Restart
<1>2. gfmd' \in GfmdStates /\ gfmd'.skip = gfmd.skip /\ gfmd'.in = gfmd.in /\ gfmd'.up
  BY <1>1 DEF GfmInv, GfmTypeOK, GfmdStates
<1>3. GfmTypeOK' /\ Placed' /\ SentOnce' /\ Done' /\ StaleForgiven'
  BY <1>1, <1>2 DEF GfmInv, GfmTypeOK, Placed, SentOnce, Reading, Done, StaleForgiven
<1>4. Held'
  BY <1>1 DEF GfmInv, Held, RefsTo, Cached
<1>5. \A d : /\ Reading(d)' <=> Reading(d)
             /\ InOrder(d)' <=> InOrder(d)
             /\ Finished(d)' <=> Finished(d)
  BY <1>1, <1>2 DEF Reading, InOrder, Finished
<1>6. \A d : (Answering(d)' <=> Answering(d)) /\ (Refused(d)' <=> Refused(d))
  BY <1>1, <1>2, <1>5 DEF Answering, Refused, Position, Left
<1>7. Traffic'
  BY <1>1, <1>5, <1>6 DEF GfmInv, Traffic
<1>8. AskedFor'
  BY <1>1 DEF GfmInv, AskedFor, SentOn, Sent, Asked
<1>9. Replaced'
  BY <1>1, <1>2 DEF GfmInv, Replaced, Cached
<1> QED
  BY <1>3, <1>4, <1>7, <1>8, <1>9 DEF GfmInv

(***************************************************************************)
(* The theorems                                                            *)
(***************************************************************************)
LEMMA InitHolds == GfmInit => GfmInv
<1> SUFFICES ASSUME GfmInit PROVE GfmInv
  OBVIOUS
<1>1. /\ wires = [c \in Wire |-> NewWire] /\ open = NoWire
      /\ gfmd = [up |-> TRUE, skip |-> [c \in Wire |-> FALSE], in |-> [c \in Wire |-> FALSE]]
      /\ log = [n \in DOMAIN Ops |-> [result |-> "none", executed |-> 0, stale |-> FALSE, faults |-> 0]]
  BY DEF GfmInit
<1>2. /\ op \in OpStates /\ op.pc = "idle" /\ op.o = NoOp /\ op.n = 0 /\ op.c = NoWire
      /\ op.stale = FALSE
  BY OpsAre DEF GfmInit, NotRunning, OpStates
<1>3. wires \in [Wire -> WireStates] /\ gfmd \in GfmdStates /\ log \in [DOMAIN Ops -> LogEntries]
  BY <1>1, NewWireIs DEF GfmdStates, LogEntries, Results
<1>4. \A c \in Wire : /\ wires[c].st = "none" /\ ~wires[c].cached /\ wires[c].held = 0
                      /\ wires[c].out = <<>> /\ wires[c].in = <<>> /\ c # NoWire
  BY <1>1, NewWireIs, GfmAssumption
<1>5. GfmTypeOK /\ Placed
  BY <1>1, <1>2, <1>3, NoOpIs DEF GfmTypeOK, Placed
<1>6. Held
  <2>1. Cached = {}
    BY <1>4 DEF Cached
  <2>2. \A c \in Wire : RefsTo(c) = 0
    BY <1>1, <1>2, <1>4 DEF RefsTo
  <2> QED BY <1>1, <1>2, <1>4, <2>1, <2>2 DEF Held
<1>7. Traffic
  BY <1>2, <1>4 DEF Traffic, Reading
<1>8. \A c \in Wire : Len(wires[c].out) = 0
  BY <1>4
<1>9. SentOnce
  BY <1>2, <1>8 DEF SentOnce
<1>10. \A n \in DOMAIN Ops : log[n].result = "none" /\ log[n].executed = 0 /\ ~log[n].stale
  BY <1>1
<1>11. AskedFor
  <2> SUFFICES ASSUME NEW n \in DOMAIN Ops
               PROVE  log[n].executed + Cardinality(SentOn(n)) <= Asked(n)
    BY DEF AskedFor
  <2>1. SentOn(n) = {}
    BY <1>8 DEF SentOn, Sent
  <2>2. n > op.n
    BY <1>2, OpsAre
  <2> QED BY <2>1, <2>2, <1>10, FS_EmptySet DEF Asked
<1>12. Done /\ Replaced /\ StaleForgiven
  BY <1>2, <1>10 DEF Done, Replaced, StaleForgiven
<1> QED
  BY <1>5, <1>6, <1>7, <1>9, <1>11, <1>12 DEF GfmInv

LEMMA NextKeeps ==
  ASSUME GfmInv, [GfmNext]_gfmvars
  PROVE  GfmInv'
<1>1. CASE UNCHANGED gfmvars
  <2> USE <1>1 DEF gfmvars
  <2>1. GfmTypeOK' /\ Placed' /\ SentOnce' /\ Done' /\ StaleForgiven'
    BY DEF GfmInv, GfmTypeOK, Placed, SentOnce, Reading, Done, StaleForgiven
  <2>2. Held' /\ Replaced'
    BY DEF GfmInv, Held, RefsTo, Cached, Replaced
  <2>3. \A d : /\ Reading(d)' <=> Reading(d)
               /\ InOrder(d)' <=> InOrder(d)
               /\ Finished(d)' <=> Finished(d)
    BY DEF Reading, InOrder, Finished
  <2>4. \A d : (Answering(d)' <=> Answering(d)) /\ (Refused(d)' <=> Refused(d))
    BY <2>3 DEF Answering, Refused, Position, Left
  <2>5. Traffic'
    BY <2>3, <2>4 DEF GfmInv, Traffic
  <2>6. AskedFor'
    BY DEF GfmInv, AskedFor, SentOn, Sent, Asked
  <2> QED BY <2>1, <2>2, <2>5, <2>6 DEF GfmInv
<1>2. CASE \E o \in UNION Range(Ops) : BeginOp(o)
  BY <1>2, BeginStep
<1>3. CASE GfmStep
  BY <1>3, AcquireStep, ConnectStep, AllocStep, WriteStep, ReadStep, ErrorStep DEF GfmStep
<1>4. CASE GfmServe
  BY <1>4, ServeStep DEF GfmServe
<1>5. CASE \E c \in Wire : LoseWire(c)
  BY <1>5, LoseStep
<1>6. CASE Crash
  BY <1>6, CrashStep
<1>7. CASE Restart
  BY <1>7, RestartStep
<1> QED
  BY <1>1, <1>2, <1>3, <1>4, <1>5, <1>6, <1>7 DEF GfmNext

LEMMA WholeFollows == GfmInv => OperationsWhole
<1> SUFFICES ASSUME GfmInv PROVE OperationsWhole
  OBVIOUS
<1>1. InStep
  <2> SUFFICES ASSUME op.pc = "result", wires[op.c].in # <<>>
               PROVE  /\ Head(wires[op.c].in).n = op.n
                      /\ Head(wires[op.c].in).r = ResultsOf(op.o)[op.i]
    BY DEF InStep
  <2>1. op.c \in Wire
    BY DEF GfmInv, GfmTypeOK, OpStates, Placed
  <2>2. InOrder(op.c)
    BY <2>1 DEF GfmInv, Traffic, Reading
  <2>3. wires[op.c].in \in Seq(Answers) /\ op.i \in Nat
    BY <2>1 DEF GfmInv, GfmTypeOK, OpStates, WireStates
  <2>4. Len(wires[op.c].in) \in Nat \ {0} /\ Head(wires[op.c].in) = wires[op.c].in[1]
    BY <2>3, TailOf
  <2>5. 1 \in 1 .. Len(wires[op.c].in) /\ op.i + 1 - 1 = op.i
    BY <2>3, <2>4
  <2> QED BY <2>2, <2>4, <2>5 DEF InOrder
<1>2. Balanced
  <2> SUFFICES ASSUME op.pc = "idle"
               PROVE  /\ \A c \in Wire : wires[c].held = IF c = open THEN 1 ELSE 0
                      /\ \A c \in Wire : wires[c].st # "none" <=> wires[c].cached \/ c = open
                      /\ Cardinality(Cached) <= 1
    BY DEF Balanced
  <2>1. op.c = NoWire /\ op.c \notin Wire
    BY GfmAssumption DEF GfmInv, Placed
  <2>2. \A c \in Wire : RefsTo(c) = IF c = open THEN 1 ELSE 0
    BY <2>1 DEF RefsTo
  <2>3. Cardinality(Cached) <= 1
    <3>1. CASE Cached = {}
      BY <3>1, FS_EmptySet
    <3>2. CASE Cached # {}
      <4>1. PICK c \in Cached : TRUE
        BY <3>2
      <4>2. Cached = {c}
        BY <4>1 DEF GfmInv, Held
      <4>3. Cardinality({c}) = 1
        BY FS_Singleton
      <4> QED BY <4>2, <4>3
    <3> QED BY <3>1, <3>2
  <2> QED BY <2>1, <2>2, <2>3 DEF GfmInv, Held
<1> QED
  BY <1>1, <1>2 DEF OperationsWhole

LEMMA ToldFollows == GfmInv => ToldAsDone
<1> SUFFICES ASSUME GfmInv PROVE ToldAsDone
  OBVIOUS
<1>1. op.n \in Nat /\ op.faults \in Nat
  BY OpsAre DEF GfmInv, GfmTypeOK, OpStates
<1>2. Executed
  <2> SUFFICES ASSUME NEW n \in DOMAIN Ops
               PROVE  /\ log[n].result = "ok" => log[n].executed >= 1
                      /\ log[n].executed <=
                           1 + (IF op.n = n /\ op.pc # "idle" THEN op.faults ELSE log[n].faults)
    BY DEF Executed
  <2>1. log[n].executed \in Nat /\ log[n].faults \in Nat /\ n \in Nat
    BY OpsAre DEF GfmInv, GfmTypeOK, LogEntries
  <2>2. log[n].executed + Cardinality(SentOn(n)) <= Asked(n) /\ Cardinality(SentOn(n)) \in Nat
    BY SentFinite DEF GfmInv, AskedFor
  <2>3. Asked(n) \in Nat
    BY <1>1, <2>1 DEF Asked
  <2>4. Asked(n) <= 1 + (IF op.n = n /\ op.pc # "idle" THEN op.faults ELSE log[n].faults)
    BY <1>1, <2>1 DEF Asked
  <2>5. log[n].executed <= Asked(n)
    BY <2>1, <2>2, <2>3
  <2> QED BY <1>1, <2>1, <2>3, <2>4, <2>5 DEF GfmInv, Done
<1> QED
  BY <1>2 DEF GfmInv, ToldAsDone

\* What is under way on a connection is known at every moment: what gfmd still has to execute,
\* what it has answered, who holds the connection, how often an operation was asked for
\* (gfs_*.c, lookup.c, gfm_client.c).
THEOREM GfmInvariant == GfmSpec => []GfmInv
<1> QED
  BY InitHolds, NextKeeps, PTL DEF GfmSpec

\* An operation reads the answers to its own requests only, and gives back every reference it
\* has acquired, whatever gfmd answers and whenever a connection is lost.
THEOREM OperationsAreWhole == GfmSpec => []OperationsWhole
<1> QED
  BY GfmInvariant, WholeFollows, PTL

\* An operation that succeeds was executed, once unless a connection was lost under it, and a
\* connection that was lost before it is replaced.
THEOREM AlwaysToldAsDone == GfmSpec => []ToldAsDone
<1> QED
  BY GfmInvariant, ToldFollows, PTL

(***************************************************************************)
(* StatCache: the list and the hash table of the cache of attributes       *)
(***************************************************************************)
Attributes == [ver : Nat, expiration : Int]

Unique(s) == \A i, j \in 1..Len(s) : s[i] = s[j] => i = j

Sorted(s, h) == \A i, j \in 1..Len(s) : i < j => h[s[i]].expiration <= h[s[j]].expiration

ListOk(s, h) ==
  /\ s \in Seq(Name) /\ Unique(s)
  /\ h = [f \in DOMAIN h |-> h[f]]
  /\ \A f : f \in DOMAIN h <=> \E i \in 1..Len(s) : s[i] = f
  /\ \A f \in DOMAIN h : h[f] \in Attributes
  /\ Sorted(s, h)

LEMMA ToSetOf ==
  ASSUME NEW S, NEW s \in Seq(S)
  PROVE  \A f : f \in ToSet(s) <=> \E i \in 1..Len(s) : s[i] = f
BY DEF ToSet

LEMMA UniqueCounted ==
  ASSUME NEW S, NEW s \in Seq(S), Unique(s)
  PROVE  Cardinality(ToSet(s)) = Len(s)
<1>1. s \in [1..Len(s) -> ToSet(s)]
  BY DEF ToSet
<1>2. s \in Bijection(1..Len(s), ToSet(s))
  <2>1. s \in Injection(1..Len(s), ToSet(s))
    BY <1>1 DEF Injection, IsInjective, Unique
  <2>2. s \in Surjection(1..Len(s), ToSet(s))
    BY <1>1 DEF Surjection, ToSet
  <2> QED
    BY <2>1, <2>2 DEF Bijection
<1>3. ExistsBijection(1..Len(s), ToSet(s))
  BY <1>2 DEF ExistsBijection
<1>4. Len(s) \in Nat
  OBVIOUS
<1> QED
  BY <1>3, <1>4, FS_CountingElements

\* The first n entries leave the list.
LEMMA SuffixOk ==
  ASSUME NEW s, NEW h, ListOk(s, h), NEW n \in 0..Len(s)
  PROVE  LET t == SubSeq(s, n + 1, Len(s))
             g == Restrict(h, DOMAIN h \ ToSet(SubSeq(s, 1, n)))
         IN  /\ ListOk(t, g) /\ Len(t) = Len(s) - n
             /\ DOMAIN g \subseteq DOMAIN h
             /\ \A f \in DOMAIN g : g[f] = h[f]
             /\ \A f \in DOMAIN g : \E i \in n + 1 .. Len(s) : s[i] = f
<1> DEFINE t == SubSeq(s, n + 1, Len(s))
           p == SubSeq(s, 1, n)
           g == Restrict(h, DOMAIN h \ ToSet(p))
<1>1. /\ s \in Seq(Name) /\ Len(s) \in Nat /\ n \in Nat /\ n <= Len(s)
      /\ \A f : f \in DOMAIN h <=> \E i \in 1..Len(s) : s[i] = f
      /\ \A f \in DOMAIN h : h[f] \in Attributes
      /\ \A i, j \in 1..Len(s) : s[i] = s[j] => i = j
  BY DEF ListOk, Unique
<1>2. /\ t \in Seq(Name) /\ Len(t) = Len(s) - n /\ Len(t) \in Nat
      /\ \A i \in 1..Len(t) : t[i] = s[i + n]
  BY <1>1
<1>3. \A f : f \in ToSet(p) <=> \E i \in 1..n : s[i] = f
  <2>1. p \in Seq(Name) /\ Len(p) = n /\ \A i \in 1..n : p[i] = s[i]
    BY <1>1
  <2>2. \A f : f \in ToSet(p) <=> \E i \in 1..n : p[i] = f
    BY <2>1, ToSetOf
  <2> QED
    BY <2>1, <2>2
<1> HIDE DEF t, p
<1>4. /\ DOMAIN g = DOMAIN h \ ToSet(p) /\ \A f \in DOMAIN g : g[f] = h[f]
      /\ g = [f \in DOMAIN g |-> g[f]]
  BY DEF Restrict
<1> HIDE DEF g
<1>5. \A f \in DOMAIN g : \E i \in n + 1 .. Len(s) : s[i] = f
  <2> SUFFICES ASSUME NEW f \in DOMAIN g
               PROVE  \E i \in n + 1 .. Len(s) : s[i] = f
    OBVIOUS
  <2>1. PICK i \in 1..Len(s) : s[i] = f
    BY <1>1, <1>4
  <2>2. i \notin 1..n
    BY <1>3, <1>4, <2>1
  <2> QED
    BY <1>1, <2>1, <2>2
<1>6. \A f : f \in DOMAIN g <=> \E i \in 1..Len(t) : t[i] = f
  <2> TAKE f
  <2>1. ASSUME f \in DOMAIN g PROVE \E i \in 1..Len(t) : t[i] = f
    <3>1. PICK i \in n + 1 .. Len(s) : s[i] = f
      BY <1>5, <2>1
    <3>2. i - n \in 1..Len(t) /\ (i - n) + n = i
      BY <1>1, <1>2, <3>1
    <3>3. t[i - n] = f
      BY <1>2, <3>1, <3>2
    <3> QED
      BY <3>2, <3>3
  <2>2. ASSUME NEW i \in 1..Len(t), t[i] = f PROVE f \in DOMAIN g
    <3>1. i + n \in 1..Len(s) /\ i + n \notin 1..n
      BY <1>1, <1>2
    <3>2. s[i + n] = f
      BY <1>2, <2>2
    <3>3. f \in DOMAIN h
      BY <1>1, <3>1, <3>2
    <3>4. f \notin ToSet(p)
      <4>1. \A j \in 1..n : j \in 1..Len(s)
        BY <1>1
      <4> QED
        BY <1>1, <1>3, <3>1, <3>2, <4>1
    <3> QED
      BY <1>4, <3>3, <3>4
  <2> QED
    BY <2>1, <2>2
<1>7. \A i \in 1..Len(t) : i + n \in 1..Len(s)
  BY <1>1, <1>2
<1>8. Unique(t)
  <2> SUFFICES ASSUME NEW i \in 1..Len(t), NEW j \in 1..Len(t), t[i] = t[j]
               PROVE  i = j
    BY DEF Unique
  <2>1. t[i] = s[i + n] /\ t[j] = s[j + n]
    BY <1>2
  <2>2. i + n \in 1..Len(s) /\ j + n \in 1..Len(s)
    BY <1>7
  <2>3. i + n = j + n
    BY <1>1, <2>1, <2>2
  <2>4. i \in Int /\ j \in Int /\ n \in Int
    BY <1>1, <1>2
  <2> QED
    BY <2>3, <2>4
<1>9. Sorted(t, g)
  <2> SUFFICES ASSUME NEW i \in 1..Len(t), NEW j \in 1..Len(t), i < j
               PROVE  g[t[i]].expiration <= g[t[j]].expiration
    BY DEF Sorted
  <2>1. i + n < j + n
    BY <1>1, <1>2
  <2>2. h[s[i + n]].expiration <= h[s[j + n]].expiration
    BY <1>7, <2>1 DEF ListOk, Sorted
  <2>3. g[t[i]] = h[s[i + n]] /\ g[t[j]] = h[s[j + n]]
    BY <1>2, <1>4, <1>6
  <2> QED
    BY <2>2, <2>3
<1>10. ListOk(t, g)
  BY <1>1, <1>2, <1>4, <1>6, <1>8, <1>9 DEF ListOk
<1>11. DOMAIN g \subseteq DOMAIN h
  BY <1>4
<1> QED
  BY <1>2, <1>4, <1>5, <1>10, <1>11 DEF t, g, p

\* An entry leaves the list.
LEMMA DropOk ==
  ASSUME NEW s, NEW h, ListOk(s, h), NEW f \in DOMAIN h
  PROVE  LET t == RemoveAt(s, Place(s, f))
             g == Restrict(h, DOMAIN h \ {f})
         IN  /\ ListOk(t, g) /\ Len(t) = Len(s) - 1
             /\ DOMAIN g = DOMAIN h \ {f}
             /\ \A e \in DOMAIN g : g[e] = h[e]
<1>1. /\ s \in Seq(Name) /\ Len(s) \in Nat
      /\ \A e : e \in DOMAIN h <=> \E i \in 1..Len(s) : s[i] = e
      /\ \A e \in DOMAIN h : h[e] \in Attributes
      /\ \A i, j \in 1..Len(s) : s[i] = s[j] => i = j
  BY DEF ListOk, Unique
<1>2. PICK n : n = Place(s, f)
  OBVIOUS
<1>3. n \in 1..Len(s) /\ s[n] = f
  <2>1. \E i \in DOMAIN s : s[i] = f
    BY <1>1
  <2>2. n \in DOMAIN s /\ s[n] = f
    BY <1>2, <2>1 DEF Place
  <2> QED
    BY <1>1, <2>2
<1> DEFINE t == RemoveAt(s, n)
           g == Restrict(h, DOMAIN h \ {f})
<1>4. /\ t \in Seq(Name) /\ Len(t) = Len(s) - 1 /\ Len(t) \in Nat
      /\ \A i \in 1..Len(t) : t[i] = IF i < n THEN s[i] ELSE s[i + 1]
  <2>1. PICK u, v : u = SubSeq(s, 1, n - 1) /\ v = SubSeq(s, n + 1, Len(s))
    OBVIOUS
  <2>2. u \in Seq(Name) /\ Len(u) = n - 1 /\ \A i \in 1..(n - 1) : u[i] = s[i]
    BY <1>1, <1>3, <2>1
  <2>3. v \in Seq(Name) /\ Len(v) = Len(s) - n /\ \A i \in 1..(Len(s) - n) : v[i] = s[i + n]
    BY <1>1, <1>3, <2>1
  <2>4. t = u \o v
    BY <2>1 DEF RemoveAt
  <2>5. t \in Seq(Name) /\ Len(t) = Len(s) - 1 /\ Len(t) \in Nat
    <3>1. u \o v \in Seq(Name) /\ Len(u \o v) = Len(u) + Len(v)
      BY <2>2, <2>3
    <3>2. Len(u) + Len(v) = Len(s) - 1 /\ Len(s) - 1 \in Nat
      BY <1>1, <1>3, <2>2, <2>3
    <3> QED
      BY <2>4, <3>1, <3>2
  <2>6. \A i \in 1..Len(t) : t[i] = IF i < n THEN s[i] ELSE s[i + 1]
    <3> SUFFICES ASSUME NEW i \in 1..Len(t)
                 PROVE  t[i] = IF i < n THEN s[i] ELSE s[i + 1]
      OBVIOUS
    <3>1. CASE i < n
      <4>1. i \in 1..(n - 1)
        BY <1>1, <1>3, <2>5, <3>1
      <4>2. (u \o v)[i] = u[i]
        BY <2>2, <2>3, <4>1
      <4> QED
        BY <2>2, <2>4, <3>1, <4>1, <4>2
    <3>2. CASE ~(i < n)
      <4>1. i - (n - 1) \in 1..(Len(s) - n) /\ (i - (n - 1)) + n = i + 1 /\ i > n - 1
        BY <1>1, <1>3, <2>5, <3>2
      <4>2. (u \o v)[i] = v[i - (n - 1)]
        <5>1. PICK j : j = i - (n - 1)
          OBVIOUS
        <5>2. j \in 1..Len(v) /\ Len(u) + j = i
          BY <1>1, <1>3, <2>2, <2>3, <4>1, <5>1
        <5>3. (u \o v)[Len(u) + j] = v[j]
          BY <2>2, <2>3, <5>2
        <5> QED
          BY <5>1, <5>2, <5>3
      <4> QED
        BY <2>3, <2>4, <3>2, <4>1, <4>2
    <3> QED
      BY <3>1, <3>2
  <2> QED
    BY <2>5, <2>6
<1> HIDE DEF t
<1>5. /\ DOMAIN g = DOMAIN h \ {f} /\ \A e \in DOMAIN g : g[e] = h[e]
      /\ g = [e \in DOMAIN g |-> g[e]]
  BY DEF Restrict
<1> HIDE DEF g
\* Where the entry i of t was.
<1> DEFINE was(i) == IF i < n THEN i ELSE i + 1
<1>6. /\ \A i \in 1..Len(t) : was(i) \in 1..Len(s) /\ was(i) # n /\ t[i] = s[was(i)]
      /\ \A i, j \in 1..Len(t) : (i < j => was(i) < was(j)) /\ (was(i) = was(j) => i = j)
      /\ \A k \in 1..Len(s) : k # n => \E i \in 1..Len(t) : was(i) = k
  <2>1. \A i \in 1..Len(t) : was(i) \in 1..Len(s) /\ was(i) # n /\ t[i] = s[was(i)]
    BY <1>1, <1>3, <1>4
  <2>2. \A i, j \in 1..Len(t) : (i < j => was(i) < was(j)) /\ (was(i) = was(j) => i = j)
    BY <1>1, <1>3, <1>4
  <2>3. ASSUME NEW k \in 1..Len(s), k # n
        PROVE  \E i \in 1..Len(t) : was(i) = k
    <3>1. CASE k < n
      <4>1. k \in 1..Len(t) /\ was(k) = k
        BY <1>1, <1>3, <1>4, <3>1
      <4> QED
        BY <4>1
    <3>2. CASE k > n
      <4>1. k - 1 \in 1..Len(t) /\ was(k - 1) = k
        BY <1>1, <1>3, <1>4, <3>2
      <4> QED
        BY <4>1
    <3> QED
      BY <1>1, <1>3, <2>3, <3>1, <3>2
  <2> QED
    BY <2>1, <2>2, <2>3
<1> HIDE DEF was
<1>7. \A e : e \in DOMAIN g <=> \E i \in 1..Len(t) : t[i] = e
  <2> TAKE e
  <2>1. ASSUME e \in DOMAIN g PROVE \E i \in 1..Len(t) : t[i] = e
    <3>1. PICK k \in 1..Len(s) : s[k] = e
      BY <1>1, <1>5, <2>1
    <3>2. k # n
      BY <1>3, <1>5, <2>1, <3>1
    <3> QED
      BY <1>6, <3>1, <3>2
  <2>2. ASSUME NEW i \in 1..Len(t), t[i] = e PROVE e \in DOMAIN g
    <3>1. s[was(i)] = e /\ was(i) \in 1..Len(s) /\ was(i) # n
      BY <1>6, <2>2
    <3>2. e # f
      BY <1>1, <1>3, <3>1
    <3> QED
      BY <1>1, <1>5, <3>1, <3>2
  <2> QED
    BY <2>1, <2>2
<1>8. Unique(t)
  <2> SUFFICES ASSUME NEW i \in 1..Len(t), NEW j \in 1..Len(t), t[i] = t[j]
               PROVE  i = j
    BY DEF Unique
  <2>1. was(i) = was(j)
    BY <1>1, <1>6
  <2> QED
    BY <1>6, <2>1
<1>9. Sorted(t, g)
  <2> SUFFICES ASSUME NEW i \in 1..Len(t), NEW j \in 1..Len(t), i < j
               PROVE  g[t[i]].expiration <= g[t[j]].expiration
    BY DEF Sorted
  <2>1. was(i) < was(j)
    BY <1>6
  <2>2. h[s[was(i)]].expiration <= h[s[was(j)]].expiration
    BY <1>6, <2>1 DEF ListOk, Sorted
  <2>3. g[t[i]] = h[s[was(i)]] /\ g[t[j]] = h[s[was(j)]]
    BY <1>5, <1>6, <1>7
  <2> QED
    BY <2>2, <2>3
<1>10. ListOk(t, g)
  BY <1>1, <1>4, <1>5, <1>7, <1>8, <1>9 DEF ListOk
<1> QED
  BY <1>2, <1>4, <1>5, <1>10 DEF t, g

\* A new entry comes to the end of the list.
LEMMA EnterOk ==
  ASSUME NEW s, NEW h, ListOk(s, h), NEW f \in Name, f \notin DOMAIN h,
         NEW a \in Attributes, \A e \in DOMAIN h : h[e].expiration <= a.expiration
  PROVE  LET t == Append(s, f)
             g == [e \in DOMAIN h \cup {f} |-> IF e = f THEN a ELSE h[e]]
         IN  /\ ListOk(t, g) /\ Len(t) = Len(s) + 1
             /\ DOMAIN g = DOMAIN h \cup {f} /\ g[f] = a
             /\ \A e \in DOMAIN h : g[e] = h[e]
<1>1. /\ s \in Seq(Name) /\ Len(s) \in Nat
      /\ \A e : e \in DOMAIN h <=> \E i \in 1..Len(s) : s[i] = e
      /\ \A e \in DOMAIN h : h[e] \in Attributes
      /\ \A i, j \in 1..Len(s) : s[i] = s[j] => i = j
  BY DEF ListOk, Unique
<1> DEFINE t == Append(s, f)
           g == [e \in DOMAIN h \cup {f} |-> IF e = f THEN a ELSE h[e]]
<1>2. /\ t \in Seq(Name) /\ Len(t) = Len(s) + 1 /\ t[Len(s) + 1] = f
      /\ \A i \in 1..Len(s) : t[i] = s[i]
  BY <1>1
<1>3. \A i \in 1..Len(t) : i \in 1..Len(s) \/ i = Len(s) + 1
  BY <1>1, <1>2
<1>3a. (\A i \in 1..Len(s) : i \in 1..Len(t)) /\ Len(s) + 1 \in 1..Len(t)
  BY <1>1, <1>2
<1> HIDE DEF t
<1>4. /\ DOMAIN g = DOMAIN h \cup {f} /\ g[f] = a /\ \A e \in DOMAIN h : g[e] = h[e]
      /\ g = [e \in DOMAIN g |-> g[e]]
  OBVIOUS
<1> HIDE DEF g
<1>5. \A e : e \in DOMAIN g <=> \E i \in 1..Len(t) : t[i] = e
  <2> TAKE e
  <2>1. ASSUME e \in DOMAIN g PROVE \E i \in 1..Len(t) : t[i] = e
    <3>1. CASE e = f
      BY <1>2, <1>3a, <3>1
    <3>2. CASE e \in DOMAIN h
      BY <1>1, <1>2, <1>3a, <3>2
    <3> QED
      BY <1>4, <2>1, <3>1, <3>2
  <2>2. ASSUME NEW i \in 1..Len(t), t[i] = e PROVE e \in DOMAIN g
    BY <1>1, <1>2, <1>3, <1>4, <2>2
  <2> QED
    BY <2>1, <2>2
<1>6. \A i \in 1..Len(s) : s[i] # f /\ s[i] \in DOMAIN h
  BY <1>1
<1>7. Unique(t)
  <2> SUFFICES ASSUME NEW i \in 1..Len(t), NEW j \in 1..Len(t), t[i] = t[j]
               PROVE  i = j
    BY DEF Unique
  <2> QED
    BY <1>1, <1>2, <1>3, <1>6
<1>8. Sorted(t, g)
  <2> SUFFICES ASSUME NEW i \in 1..Len(t), NEW j \in 1..Len(t), i < j
               PROVE  g[t[i]].expiration <= g[t[j]].expiration
    BY DEF Sorted
  <2>1. i \in 1..Len(s)
    BY <1>1, <1>2, <1>3
  <2>2. t[i] = s[i] /\ g[t[i]] = h[s[i]] /\ s[i] \in DOMAIN h
    BY <1>2, <1>4, <1>6, <2>1
  <2>3. CASE j \in 1..Len(s)
    <3>1. g[t[j]] = h[s[j]]
      BY <1>2, <1>4, <1>6, <2>3
    <3>2. h[s[i]].expiration <= h[s[j]].expiration
      BY <2>1, <2>3 DEF ListOk, Sorted
    <3> QED
      BY <2>2, <3>1, <3>2
  <2>4. CASE j = Len(s) + 1
    BY <1>2, <1>4, <2>2, <2>4
  <2> QED
    BY <1>3, <2>3, <2>4
<1>9. \A e \in DOMAIN g : g[e] \in Attributes
  BY <1>1, <1>4
<1>10. ListOk(t, g)
  BY <1>2, <1>4, <1>5, <1>7, <1>8, <1>9 DEF ListOk
<1> QED
  BY <1>2, <1>4, <1>10 DEF t, g

\* All expirations move by d.
LEMMA MoveOk ==
  ASSUME NEW s, NEW h, ListOk(s, h), NEW g, NEW d \in Int, DOMAIN g = DOMAIN h,
         g = [f \in DOMAIN g |-> g[f]],
         \A f \in DOMAIN h : /\ g[f] \in Attributes /\ g[f].ver = h[f].ver
                             /\ g[f].expiration = h[f].expiration + d
  PROVE  ListOk(s, g)
<1>1. Sorted(s, g)
  <2> SUFFICES ASSUME NEW i \in 1..Len(s), NEW j \in 1..Len(s), i < j
               PROVE  g[s[i]].expiration <= g[s[j]].expiration
    BY DEF Sorted
  <2>1. s[i] \in DOMAIN h /\ s[j] \in DOMAIN h
    BY DEF ListOk
  <2>2. h[s[i]].expiration \in Int /\ h[s[j]].expiration \in Int
    BY <2>1 DEF ListOk, Attributes
  <2>3. h[s[i]].expiration <= h[s[j]].expiration
    BY DEF ListOk, Sorted
  <2> QED
    BY <2>1, <2>2, <2>3
<1> QED
  BY <1>1 DEF ListOk

-----------------------------------------------------------------------------
(* The cache.                                                               *)

CacheOk(c, now) ==
  /\ c = [list |-> c.list, hash |-> c.hash, count |-> c.count, lifespan |-> c.lifespan,
          lifespanSet |-> c.lifespanSet, ready |-> c.ready, nomem |-> c.nomem]
  /\ ListOk(c.list, c.hash)
  /\ c.count = Len(c.list) /\ c.count <= CacheLimit
  /\ c.lifespan \in Nat /\ c.lifespanSet \in BOOLEAN /\ c.ready \in BOOLEAN
  /\ \A f \in DOMAIN c.hash : c.hash[f].expiration <= now + c.lifespan
  /\ c.ready \/ c.list = <<>>
  /\ c.ready => c.lifespanSet \/ c.lifespan = Timeout

\* d holds what c holds, or a part of it.
PartOf(d, c) ==
  /\ DOMAIN d.hash \subseteq DOMAIN c.hash
  /\ \A f \in DOMAIN d.hash : d.hash[f] = c.hash[f]
  /\ d.lifespan = c.lifespan /\ d.lifespanSet = c.lifespanSet /\ d.ready = c.ready

NatWF == IsWellFoundedOn({ss \in Nat \X Nat : ss[1] < ss[2]}, Nat)

LEMMA LeastOf ==
  ASSUME NEW S, S \subseteq Nat, S # {}
  PROVE  \E k \in S : \A i \in S : k <= i
<1>1. NatWF
  BY NatLessThanWellFounded DEF NatWF, OpToRel
<1>2. PICK x : x \in S
  OBVIOUS
<1>3. PICK k \in S : \A i \in S : <<i, k>> \notin {ss \in Nat \X Nat : ss[1] < ss[2]}
  BY <1>1, <1>2, WFMin, Zenon DEF NatWF
<1>4. \A i \in S : ~(i < k)
  BY <1>3
<1>5. \A i \in S : k <= i
  BY <1>4
<1> QED
  BY <1>5

LEMMA ExpiredPrefix ==
  ASSUME NEW c, NEW now \in Nat, CacheOk(c, now)
  PROVE  \E k \in 0..Len(c.list) :
           /\ \A i \in 1..k : c.hash[c.list[i]].expiration <= now
           /\ k < Len(c.list) => c.hash[c.list[k + 1]].expiration > now
<1>1. /\ c.list \in Seq(Name) /\ Len(c.list) \in Nat
      /\ \A i \in 1..Len(c.list) : c.hash[c.list[i]].expiration \in Int
  BY DEF CacheOk, ListOk, Attributes
<1> DEFINE S == {k \in 0..Len(c.list) :
                   k < Len(c.list) => c.hash[c.list[k + 1]].expiration > now}
<1>2. Len(c.list) \in S /\ S \subseteq Nat
  BY <1>1
<1>3. PICK k \in S : \A i \in S : k <= i
  BY <1>2, LeastOf
<1>4. \A i \in 1..k : c.hash[c.list[i]].expiration <= now
  <2> SUFFICES ASSUME NEW i \in 1..k, ~(c.hash[c.list[i]].expiration <= now)
               PROVE  FALSE
    OBVIOUS
  <2>1. i - 1 \in 0..Len(c.list) /\ (i - 1) + 1 = i /\ i \in 1..Len(c.list) /\ ~(k <= i - 1)
    BY <1>1, <1>3
  <2>2. c.hash[c.list[i]].expiration > now
    BY <1>1, <2>1
  <2>3. i - 1 \in S
    BY <2>1, <2>2
  <2> QED
    BY <1>3, <2>1, <2>3
<1> QED
  BY <1>3, <1>4

\* What expires leaves nothing behind that has expired, as the list is sorted.
LEMMA ExpiredOk ==
  ASSUME NEW c, NEW now \in Nat, CacheOk(c, now)
  PROVE  /\ CacheOk(Expired(c, now), now)
         /\ PartOf(Expired(c, now), c)
         /\ \A f \in DOMAIN Expired(c, now).hash : c.hash[f].expiration > now
         /\ Expired(c, now).nomem = c.nomem
<1>1. PICK n : n = CHOOSE k \in 0..Len(c.list) :
                     /\ \A i \in 1..k : c.hash[c.list[i]].expiration <= now
                     /\ k < Len(c.list) => c.hash[c.list[k + 1]].expiration > now
  OBVIOUS
<1>2. /\ n \in 0..Len(c.list)
      /\ \A i \in 1..n : c.hash[c.list[i]].expiration <= now
      /\ n < Len(c.list) => c.hash[c.list[n + 1]].expiration > now
  BY <1>1, ExpiredPrefix
<1>3. PICK t, g, r : /\ t = SubSeq(c.list, n + 1, Len(c.list))
                     /\ g = Restrict(c.hash, DOMAIN c.hash \ ToSet(SubSeq(c.list, 1, n)))
                     /\ r = Expired(c, now)
  OBVIOUS
<1>4. ListOk(c.list, c.hash) /\ c.list \in Seq(Name) /\ Len(c.list) \in Nat /\ c.count = Len(c.list)
  BY DEF CacheOk, ListOk
<1>5. /\ ListOk(t, g) /\ Len(t) = Len(c.list) - n
      /\ DOMAIN g \subseteq DOMAIN c.hash
      /\ \A f \in DOMAIN g : g[f] = c.hash[f]
      /\ \A f \in DOMAIN g : \E i \in n + 1 .. Len(c.list) : c.list[i] = f
  <2>1. PICK s, h : s = c.list /\ h = c.hash
    OBVIOUS
  <2>2. PICK k \in 0..Len(s) : k = n
    BY <1>2, <2>1
  <2>3. ListOk(s, h)
    BY <1>4, <2>1
  <2>4. LET u == SubSeq(s, k + 1, Len(s))
            o == Restrict(h, DOMAIN h \ ToSet(SubSeq(s, 1, k)))
        IN  /\ ListOk(u, o) /\ Len(u) = Len(s) - k
            /\ DOMAIN o \subseteq DOMAIN h
            /\ \A f \in DOMAIN o : o[f] = h[f]
            /\ \A f \in DOMAIN o : \E i \in k + 1 .. Len(s) : s[i] = f
    BY ONLY <2>3, k \in 0..Len(s), SuffixOk
  <2>5. t = SubSeq(s, k + 1, Len(s)) /\ g = Restrict(h, DOMAIN h \ ToSet(SubSeq(s, 1, k)))
    BY <1>3, <2>1, <2>2
  <2> QED
    BY <2>1, <2>2, <2>4, <2>5
<1>6. r = [list |-> t, hash |-> g, count |-> c.count - n, lifespan |-> c.lifespan,
           lifespanSet |-> c.lifespanSet, ready |-> c.ready, nomem |-> c.nomem]
  <2>1. r = [[c EXCEPT !.hash = g] EXCEPT !.list = t, !.count = c.count - n]
    <3>1. r = [Unhashed(c, ToSet(SubSeq(c.list, 1, n))) EXCEPT
                 !.list = SubSeq(@, n + 1, Len(@)), !.count = @ - n]
      BY <1>1, <1>3 DEF Expired
    <3>2. c = [list |-> c.list, hash |-> c.hash, count |-> c.count, lifespan |-> c.lifespan,
               lifespanSet |-> c.lifespanSet, ready |-> c.ready, nomem |-> c.nomem]
      BY DEF CacheOk
    <3>3. Unhashed(c, ToSet(SubSeq(c.list, 1, n))) = [c EXCEPT !.hash = g]
      BY <1>3 DEF Unhashed
    <3>4. [c EXCEPT !.hash = g].list = c.list /\ [c EXCEPT !.hash = g].count = c.count
      BY <3>2
    <3> QED
      BY <1>3, <3>1, <3>3, <3>4
  <2>2. c = [list |-> c.list, hash |-> c.hash, count |-> c.count, lifespan |-> c.lifespan,
             lifespanSet |-> c.lifespanSet, ready |-> c.ready, nomem |-> c.nomem]
    BY DEF CacheOk
  <2> QED
    BY <2>1, <2>2
<1>7. /\ r.list = t /\ r.hash = g /\ r.count = c.count - n /\ r.lifespan = c.lifespan
      /\ r.lifespanSet = c.lifespanSet /\ r.ready = c.ready /\ r.nomem = c.nomem
      /\ r = [list |-> r.list, hash |-> r.hash, count |-> r.count, lifespan |-> r.lifespan,
              lifespanSet |-> r.lifespanSet, ready |-> r.ready, nomem |-> r.nomem]
  BY <1>6
<1>8. \A f \in DOMAIN g : c.hash[f].expiration > now
  <2> SUFFICES ASSUME NEW f \in DOMAIN g
               PROVE  c.hash[f].expiration > now
    OBVIOUS
  <2>1. PICK i \in n + 1 .. Len(c.list) : c.list[i] = f
    BY <1>5
  <2>2. n + 1 \in 1..Len(c.list) /\ i \in 1..Len(c.list) /\ n < Len(c.list)
    BY <1>2, <1>4, <2>1
  <2>3. c.list[n + 1] \in DOMAIN c.hash /\ f \in DOMAIN c.hash
    BY <1>4, <2>1, <2>2 DEF ListOk
  <2>4. c.hash[c.list[n + 1]].expiration \in Int /\ c.hash[f].expiration \in Int
    BY <1>4, <2>3 DEF ListOk, Attributes
  <2>5. c.hash[c.list[n + 1]].expiration <= c.hash[f].expiration
    <3>1. CASE i = n + 1
      BY <2>1, <2>4, <3>1
    <3>2. CASE i # n + 1
      <4>1. n + 1 < i
        BY <1>2, <2>1, <3>2
      <4> QED
        BY <1>4, <2>1, <2>2, <4>1 DEF ListOk, Sorted
    <3> QED
      BY <3>1, <3>2
  <2> QED
    BY <1>2, <2>2, <2>4, <2>5
<1>9. CacheOk(r, now)
  <2>1. c.count - n <= CacheLimit /\ c.count - n = Len(t)
    BY <1>2, <1>4, <1>5, StatCacheAssumption DEF CacheOk
  <2>2. \A f \in DOMAIN g : g[f].expiration <= now + c.lifespan
    BY <1>5 DEF CacheOk
  <2>3. c.ready \/ t = <<>>
    <3>1. CASE c.ready
      BY <3>1
    <3>2. CASE ~c.ready
      <4>1. c.list = <<>>
        BY <3>2 DEF CacheOk
      <4>2. Len(t) = 0 /\ t \in Seq(Name)
        BY <1>2, <1>5, <4>1 DEF ListOk
      <4> QED
        BY <4>2
    <3> QED
      BY <3>1, <3>2
  <2>4. /\ c.lifespan \in Nat /\ c.lifespanSet \in BOOLEAN /\ c.ready \in BOOLEAN
        /\ c.ready => c.lifespanSet \/ c.lifespan = Timeout
    BY DEF CacheOk
  <2> QED
    BY <1>5, <1>7, <2>1, <2>2, <2>3, <2>4 DEF CacheOk
<1>10. PartOf(r, c)
  BY <1>5, <1>7 DEF PartOf
<1> QED
  BY <1>3, <1>7, <1>8, <1>9, <1>10

LEMMA DroppedOk ==
  ASSUME NEW c, NEW now \in Nat, CacheOk(c, now), NEW f \in DOMAIN c.hash
  PROVE  /\ CacheOk(Dropped(c, f), now)
         /\ PartOf(Dropped(c, f), c)
         /\ DOMAIN Dropped(c, f).hash = DOMAIN c.hash \ {f}
         /\ Dropped(c, f).count = c.count - 1
         /\ Dropped(c, f).nomem = c.nomem
<1>1. PICK t, g, r : /\ t = RemoveAt(c.list, Place(c.list, f))
                     /\ g = Restrict(c.hash, DOMAIN c.hash \ {f})
                     /\ r = Dropped(c, f)
  OBVIOUS
<1>2. ListOk(c.list, c.hash) /\ c.list \in Seq(Name) /\ Len(c.list) \in Nat /\ c.count = Len(c.list)
  BY DEF CacheOk, ListOk
<1>3. /\ ListOk(t, g) /\ Len(t) = Len(c.list) - 1
      /\ DOMAIN g = DOMAIN c.hash \ {f}
      /\ \A e \in DOMAIN g : g[e] = c.hash[e]
  <2>1. PICK s, h : s = c.list /\ h = c.hash
    OBVIOUS
  <2>2. ListOk(s, h) /\ f \in DOMAIN h
    BY <1>2, <2>1
  <2>3. LET u == RemoveAt(s, Place(s, f))
            o == Restrict(h, DOMAIN h \ {f})
        IN  /\ ListOk(u, o) /\ Len(u) = Len(s) - 1
            /\ DOMAIN o = DOMAIN h \ {f}
            /\ \A e \in DOMAIN o : o[e] = h[e]
    BY ONLY <2>2, DropOk
  <2> QED
    BY <1>1, <2>1, <2>3
<1>4. r = [list |-> t, hash |-> g, count |-> c.count - 1, lifespan |-> c.lifespan,
           lifespanSet |-> c.lifespanSet, ready |-> c.ready, nomem |-> c.nomem]
  <2>1. r = [[c EXCEPT !.hash = g] EXCEPT !.list = t, !.count = c.count - 1]
    BY <1>1 DEF Dropped, Unhashed
  <2>2. c = [list |-> c.list, hash |-> c.hash, count |-> c.count, lifespan |-> c.lifespan,
             lifespanSet |-> c.lifespanSet, ready |-> c.ready, nomem |-> c.nomem]
    BY DEF CacheOk
  <2> QED
    BY <2>1, <2>2
<1>5. /\ r.list = t /\ r.hash = g /\ r.count = c.count - 1 /\ r.lifespan = c.lifespan
      /\ r.lifespanSet = c.lifespanSet /\ r.ready = c.ready /\ r.nomem = c.nomem
      /\ r = [list |-> r.list, hash |-> r.hash, count |-> r.count, lifespan |-> r.lifespan,
              lifespanSet |-> r.lifespanSet, ready |-> r.ready, nomem |-> r.nomem]
  BY <1>4
<1>6. c.list # <<>>
  BY <1>2 DEF ListOk
<1>7. CacheOk(r, now)
  <2>1. c.count - 1 <= CacheLimit /\ c.count - 1 = Len(t)
    BY <1>2, <1>3, StatCacheAssumption DEF CacheOk
  <2>2. \A e \in DOMAIN g : g[e].expiration <= now + c.lifespan
    BY <1>3 DEF CacheOk
  <2>3. /\ c.lifespan \in Nat /\ c.lifespanSet \in BOOLEAN /\ c.ready \in BOOLEAN /\ c.ready
        /\ c.ready => c.lifespanSet \/ c.lifespan = Timeout
    BY <1>6 DEF CacheOk
  <2> QED
    BY <1>3, <1>5, <2>1, <2>2, <2>3 DEF CacheOk
<1>8. PartOf(r, c)
  BY <1>3, <1>5 DEF PartOf
<1> QED
  BY <1>1, <1>3, <1>5, <1>7, <1>8

LEMMA InitializedOk ==
  ASSUME NEW c, NEW now \in Nat, CacheOk(c, now)
  PROVE  /\ CacheOk(Initialized(c), now)
         /\ Initialized(c).hash = c.hash /\ Initialized(c).list = c.list
         /\ Initialized(c).count = c.count /\ Initialized(c).ready
         /\ Initialized(c).nomem = c.nomem
         /\ Initialized(c).lifespan = c.lifespan \/ c.list = <<>>
<1>1. PICK r, l : r = Initialized(c) /\ l = IF c.lifespanSet THEN c.lifespan ELSE Timeout
  OBVIOUS
<1>2. r = [list |-> c.list, hash |-> c.hash, count |-> c.count, lifespan |-> l,
           lifespanSet |-> c.lifespanSet, ready |-> TRUE, nomem |-> c.nomem]
  <2>1. r = [c EXCEPT !.ready = TRUE, !.lifespan = l]
    BY <1>1 DEF Initialized
  <2>2. c = [list |-> c.list, hash |-> c.hash, count |-> c.count, lifespan |-> c.lifespan,
             lifespanSet |-> c.lifespanSet, ready |-> c.ready, nomem |-> c.nomem]
    BY DEF CacheOk
  <2> QED
    BY <2>1, <2>2
<1>3. /\ r.list = c.list /\ r.hash = c.hash /\ r.count = c.count /\ r.lifespan = l
      /\ r.lifespanSet = c.lifespanSet /\ r.ready = TRUE /\ r.nomem = c.nomem
      /\ r = [list |-> r.list, hash |-> r.hash, count |-> r.count, lifespan |-> r.lifespan,
              lifespanSet |-> r.lifespanSet, ready |-> r.ready, nomem |-> r.nomem]
  BY <1>2
<1>4. l \in Nat
  BY <1>1, StatCacheAssumption DEF CacheOk
<1>5. l = c.lifespan \/ c.list = <<>>
  BY <1>1 DEF CacheOk
<1>6. \A f \in DOMAIN c.hash : c.hash[f].expiration <= now + l
  <2>1. CASE c.list = <<>>
    <3>1. DOMAIN c.hash = {}
      BY <2>1 DEF CacheOk, ListOk
    <3> QED
      BY <3>1
  <2>2. CASE l = c.lifespan
    BY <2>2 DEF CacheOk
  <2> QED
    BY <1>5, <2>1, <2>2
<1>7. CacheOk(r, now)
  BY <1>1, <1>3, <1>4, <1>6 DEF CacheOk
<1> QED
  BY <1>1, <1>3, <1>5, <1>7

LEMMA ReadyOk ==
  ASSUME NEW c, NEW now \in Nat, CacheOk(c, now)
  PROVE  /\ CacheOk(Ready(c), now)
         /\ Ready(c).hash = c.hash /\ Ready(c).list = c.list /\ Ready(c).count = c.count
         /\ Ready(c).ready /\ Ready(c).nomem = c.nomem
         /\ Ready(c).lifespan = c.lifespan \/ c.list = <<>>
BY InitializedOk DEF Ready

LEMMA EnteredOk ==
  ASSUME NEW c, NEW now \in Nat, CacheOk(c, now), c.ready, NEW f \in Name, NEW v \in Nat,
         c.count < CacheLimit
  PROVE  LET r == Entered(c, f, v, now)
         IN  /\ CacheOk(r, now) /\ r.lifespan = c.lifespan
             /\ DOMAIN r.hash = DOMAIN c.hash \cup {f}
             /\ r.hash[f] = [ver |-> v, expiration |-> now + c.lifespan]
             /\ \A e \in DOMAIN r.hash : e # f => r.hash[e] = c.hash[e]
<1>1. PICK b : b = IF f \in DOMAIN c.hash THEN Dropped(c, f) ELSE c
  OBVIOUS
<1>2. /\ CacheOk(b, now) /\ DOMAIN b.hash = DOMAIN c.hash \ {f}
      /\ \A e \in DOMAIN b.hash : b.hash[e] = c.hash[e]
      /\ b.lifespan = c.lifespan /\ b.ready /\ b.count < CacheLimit
  <2>1. CASE f \in DOMAIN c.hash
    <3>1. /\ CacheOk(b, now) /\ PartOf(b, c) /\ DOMAIN b.hash = DOMAIN c.hash \ {f}
          /\ b.count = c.count - 1
      BY <1>1, <2>1, DroppedOk
    <3>2. c.count \in Nat
      BY DEF CacheOk, ListOk
    <3> QED
      BY <3>1, <3>2, StatCacheAssumption DEF PartOf
  <2>2. CASE f \notin DOMAIN c.hash
    BY <1>1, <2>2
  <2> QED
    BY <2>1, <2>2
<1>3. PICK a, t, g, r :
        /\ a = [ver |-> v, expiration |-> now + c.lifespan]
        /\ t = Append(b.list, f)
        /\ g = [e \in DOMAIN b.hash \cup {f} |-> IF e = f THEN a ELSE b.hash[e]]
        /\ r = Entered(c, f, v, now)
  OBVIOUS
<1>4. a \in Attributes /\ a.expiration = now + c.lifespan
  <2>1. c.lifespan \in Nat
    BY DEF CacheOk
  <2> QED
    BY <1>3, <2>1 DEF Attributes
<1>5. \A e \in DOMAIN b.hash : b.hash[e].expiration <= a.expiration
  BY <1>2, <1>4 DEF CacheOk
<1>6. /\ ListOk(t, g) /\ Len(t) = Len(b.list) + 1
      /\ DOMAIN g = DOMAIN b.hash \cup {f} /\ g[f] = a
      /\ \A e \in DOMAIN b.hash : g[e] = b.hash[e]
  <2>1. ListOk(b.list, b.hash) /\ f \notin DOMAIN b.hash
    BY <1>2 DEF CacheOk
  <2> QED
    <3>1. PICK s, h : s = b.list /\ h = b.hash
      OBVIOUS
    <3>2. ListOk(s, h) /\ f \notin DOMAIN h /\ \A e \in DOMAIN h : h[e].expiration <= a.expiration
      BY <1>5, <2>1, <3>1
    <3>3. LET u == Append(s, f)
              o == [e \in DOMAIN h \cup {f} |-> IF e = f THEN a ELSE h[e]]
          IN  /\ ListOk(u, o) /\ Len(u) = Len(s) + 1
              /\ DOMAIN o = DOMAIN h \cup {f} /\ o[f] = a
              /\ \A e \in DOMAIN h : o[e] = h[e]
      BY ONLY <1>4, <3>2, f \in Name, EnterOk
    <3> QED
      BY <1>3, <3>1, <3>3
<1>7. r = [list |-> t, hash |-> g, count |-> b.count + 1, lifespan |-> b.lifespan,
           lifespanSet |-> b.lifespanSet, ready |-> b.ready, nomem |-> b.nomem]
  <2>1. r = [b EXCEPT !.list = t, !.hash = g, !.count = b.count + 1]
    BY <1>1, <1>3 DEF Entered
  <2>2. b = [list |-> b.list, hash |-> b.hash, count |-> b.count, lifespan |-> b.lifespan,
             lifespanSet |-> b.lifespanSet, ready |-> b.ready, nomem |-> b.nomem]
    BY <1>2 DEF CacheOk
  <2> QED
    BY <2>1, <2>2
<1>8. /\ r.list = t /\ r.hash = g /\ r.count = b.count + 1 /\ r.lifespan = b.lifespan
      /\ r.lifespanSet = b.lifespanSet /\ r.ready = b.ready /\ r.nomem = b.nomem
      /\ r = [list |-> r.list, hash |-> r.hash, count |-> r.count, lifespan |-> r.lifespan,
              lifespanSet |-> r.lifespanSet, ready |-> r.ready, nomem |-> r.nomem]
  BY <1>7
<1>9. CacheOk(r, now)
  <2>1. b.count + 1 <= CacheLimit /\ b.count + 1 = Len(t)
    <3>1. b.count \in Nat /\ b.count = Len(b.list)
      BY <1>2 DEF CacheOk, ListOk
    <3> QED
      BY <1>2, <1>6, <3>1, StatCacheAssumption
  <2>2. \A e \in DOMAIN g : g[e].expiration <= now + b.lifespan
    <3>1. \A e \in DOMAIN b.hash : b.hash[e].expiration <= now + b.lifespan
      BY <1>2 DEF CacheOk
    <3>2. now + b.lifespan = a.expiration /\ a.expiration \in Int
      BY <1>2, <1>4 DEF Attributes
    <3> QED
      BY <1>6, <3>1, <3>2
  <2>3. /\ b.lifespan \in Nat /\ b.lifespanSet \in BOOLEAN /\ b.ready \in BOOLEAN
        /\ b.ready => b.lifespanSet \/ b.lifespan = Timeout
    BY <1>2 DEF CacheOk
  <2> QED
    BY <1>2, <1>6, <1>8, <2>1, <2>2, <2>3 DEF CacheOk
<1> QED
  BY <1>2, <1>3, <1>6, <1>8, <1>9

\* There is room for one more.
LEMMA RoomOk ==
  ASSUME NEW c, NEW now \in Nat, CacheOk(c, now)
  PROVE  /\ CacheOk(Room(c, now), now)
         /\ Room(c, now).ready /\ Room(c, now).count < CacheLimit
         /\ DOMAIN Room(c, now).hash \subseteq DOMAIN c.hash
         /\ \A f \in DOMAIN Room(c, now).hash : Room(c, now).hash[f] = c.hash[f]
         /\ DOMAIN c.hash = {} \/ Room(c, now).lifespan = c.lifespan
<1>1. PICK p : p = Ready(c)
  OBVIOUS
<1>2. /\ CacheOk(p, now) /\ p.hash = c.hash /\ p.ready /\ p.list = c.list
      /\ DOMAIN c.hash = {} \/ p.lifespan = c.lifespan
  <2>1. c.list = <<>> => DOMAIN c.hash = {}
    BY DEF CacheOk, ListOk
  <2> QED
    BY <1>1, <2>1, ReadyOk
<1>3. PICK b : b = Expired(p, now)
  OBVIOUS
<1>4. CacheOk(b, now) /\ PartOf(b, p)
  BY <1>2, <1>3, ExpiredOk
<1>5. b.count \in Nat /\ b.count = Len(b.list) /\ b.count <= CacheLimit
  BY <1>4 DEF CacheOk, ListOk
<1>6. CASE b.count >= CacheLimit
  <2>1. Head(b.list) \in DOMAIN b.hash
    <3>1. ListOk(b.list, b.hash)
      BY <1>4 DEF CacheOk
    <3>2. Len(b.list) >= 1 /\ b.list \in Seq(Name)
      BY <1>5, <1>6, <3>1, StatCacheAssumption DEF ListOk
    <3>3. Head(b.list) = b.list[1] /\ 1 \in 1..Len(b.list)
      BY <3>2
    <3> QED
      BY <3>1, <3>3 DEF ListOk
  <2>2. PICK d : d = Dropped(b, Head(b.list))
    OBVIOUS
  <2>3. CacheOk(d, now) /\ PartOf(d, b) /\ d.count = b.count - 1
    BY <1>4, <2>1, <2>2, DroppedOk
  <2>4. Room(c, now) = d
    BY <1>1, <1>3, <1>6, <2>2 DEF Room
  <2>5. d.count < CacheLimit
    BY <1>5, <2>3, StatCacheAssumption
  <2> QED
    BY <1>2, <1>4, <2>3, <2>4, <2>5 DEF PartOf
<1>7. CASE ~(b.count >= CacheLimit)
  <2>1. Room(c, now) = b
    BY <1>1, <1>3, <1>7 DEF Room
  <2>2. b.count < CacheLimit
    BY <1>5, <1>7, StatCacheAssumption
  <2> QED
    BY <1>2, <1>4, <2>1, <2>2 DEF PartOf
<1> QED
  BY <1>6, <1>7

LEMMA NoMemoryOk ==
  ASSUME NEW c, NEW now \in Nat, CacheOk(c, now)
  PROVE  LET r == [c EXCEPT !.nomem = @ + 1]
         IN  /\ CacheOk(r, now) /\ r.hash = c.hash /\ r.lifespan = c.lifespan
<1>1. PICK k, r : k = c.nomem + 1 /\ r = [c EXCEPT !.nomem = @ + 1]
  OBVIOUS
<1>2. c = [list |-> c.list, hash |-> c.hash, count |-> c.count, lifespan |-> c.lifespan,
           lifespanSet |-> c.lifespanSet, ready |-> c.ready, nomem |-> c.nomem]
  BY DEF CacheOk
<1>3. r = [list |-> c.list, hash |-> c.hash, count |-> c.count, lifespan |-> c.lifespan,
           lifespanSet |-> c.lifespanSet, ready |-> c.ready, nomem |-> k]
  BY <1>1, <1>2
<1>4. /\ r.list = c.list /\ r.hash = c.hash /\ r.count = c.count /\ r.lifespan = c.lifespan
      /\ r.lifespanSet = c.lifespanSet /\ r.ready = c.ready /\ r.nomem = k
      /\ r = [list |-> r.list, hash |-> r.hash, count |-> r.count, lifespan |-> r.lifespan,
              lifespanSet |-> r.lifespanSet, ready |-> r.ready, nomem |-> r.nomem]
  BY <1>3
<1>5. CacheOk(r, now)
  BY <1>4 DEF CacheOk
<1> QED
  BY <1>1, <1>4, <1>5

\* What the call leaves in the cache is what was there, but for f, which is there
\* as it was given, or not at all.
LEMMA EnterInternalOk ==
  ASSUME NEW c, NEW now \in Nat, CacheOk(c, now), c.ready, c.count < CacheLimit,
         NEW f \in Name, NEW v \in Nat, NEW m \in Memory(c, f)
  PROVE  LET r == EnterInternal(c, f, v, now, m)
         IN  /\ CacheOk(r, now) /\ r.lifespan = c.lifespan
             /\ f \in DOMAIN r.hash => r.hash[f] = [ver |-> v, expiration |-> now + c.lifespan]
             /\ \A e \in DOMAIN r.hash : e # f => e \in DOMAIN c.hash /\ r.hash[e] = c.hash[e]
<1>1. PICK r : r = EnterInternal(c, f, v, now, m)
  OBVIOUS
<1>2. m \in {"no", "copy"} \/ (m = "hash" /\ f \notin DOMAIN c.hash)
  BY DEF Memory
<1>3. CASE m = "no"
  <2>1. r = Entered(c, f, v, now)
    BY <1>1, <1>3 DEF EnterInternal
  <2> QED
    BY <1>1, <2>1, EnteredOk
<1>4. CASE m = "hash" /\ f \notin DOMAIN c.hash
  <2>1. r = [c EXCEPT !.nomem = @ + 1]
    BY <1>1, <1>4 DEF EnterInternal
  <2>2. CacheOk(r, now) /\ r.hash = c.hash /\ r.lifespan = c.lifespan
    BY <2>1, NoMemoryOk
  <2> QED
    BY <1>1, <1>4, <2>2
<1>5. CASE m = "copy"
  <2>1. PICK d : d = IF f \in DOMAIN c.hash THEN Dropped(c, f) ELSE c
    OBVIOUS
  <2>2. CacheOk(d, now) /\ PartOf(d, c) /\ f \notin DOMAIN d.hash
    <3>1. CASE f \in DOMAIN c.hash
      BY <2>1, <3>1, DroppedOk
    <3>2. CASE f \notin DOMAIN c.hash
      BY <2>1, <3>2 DEF PartOf
    <3> QED
      BY <3>1, <3>2
  <2>3. r = [d EXCEPT !.nomem = @ + 1]
    BY <1>1, <1>5, <2>1 DEF EnterInternal
  <2>4. CacheOk(r, now) /\ r.hash = d.hash /\ r.lifespan = d.lifespan
    BY <2>2, <2>3, NoMemoryOk
  <2> QED
    BY <1>1, <2>2, <2>4 DEF PartOf
<1> QED
  BY <1>2, <1>3, <1>4, <1>5

(***************************************************************************)
(* What the history knows of every name in the cache                       *)
(***************************************************************************)
Look == [ver : Nat, at : Nat, entered : BOOLEAN]

SeenOk(c, s) ==
  /\ DOMAIN s = Name
  /\ \A f \in DOMAIN c.hash :
       /\ s[f] \in Look /\ s[f] # <<>>
       /\ s[f].entered => c.hash[f].ver = s[f].ver
       /\ c.hash[f].expiration <= s[f].at + c.lifespan

Kept(c, s) == [f \in Name |-> IF f \in DOMAIN c.hash THEN s[f] ELSE <<>>]

\* Of a part of the cache the history knows what it knew of the cache.
LEMMA KeptOk ==
  ASSUME NEW c, NEW s, SeenOk(c, s), NEW d, DOMAIN d.hash \subseteq DOMAIN c.hash, DOMAIN d.hash \subseteq Name,
         \A f \in DOMAIN d.hash : d.hash[f] = c.hash[f],
         DOMAIN d.hash = {} \/ d.lifespan = c.lifespan
  PROVE  SeenOk(d, Kept(d, s))
<1>1. PICK k : k = Kept(d, s)
  OBVIOUS
<1>2. DOMAIN k = Name /\ \A f \in DOMAIN d.hash : k[f] = s[f]
  BY <1>1 DEF Kept
<1>3. SUFFICES SeenOk(d, k)
  BY <1>1
<1> QED
  BY <1>2 DEF SeenOk

LEMMA LookIsSome ==
  ASSUME NEW v \in Nat, NEW t \in Nat, NEW b \in BOOLEAN
  PROVE  LET r == [ver |-> v, at |-> t, entered |-> b]
         IN  r \in Look /\ r # <<>> /\ r.ver = v /\ r.at = t /\ r.entered = b
<1>1. DOMAIN [ver |-> v, at |-> t, entered |-> b] # DOMAIN <<>>
  OBVIOUS
<1> QED
  BY <1>1 DEF Look

\* The history after a look at f.
LEMMA SeenAnew ==
  ASSUME NEW c, NEW now \in Nat, CacheOk(c, now), NEW s, SeenOk(c, s),
         NEW f \in Name, NEW v \in Nat, NEW m \in Memory(Room(c, now), f)
  PROVE  LET r == EnterInternal(Room(c, now), f, v, now, m)
             k == [Kept(r, s) EXCEPT ![f] =
                     IF f \in DOMAIN r.hash
                     THEN [ver |-> v, at |-> now, entered |-> TRUE] ELSE <<>>]
         IN  CacheOk(r, now) /\ SeenOk(r, k)
<1>1. PICK a : a = Room(c, now)
  OBVIOUS
<1>2. /\ CacheOk(a, now) /\ a.ready /\ a.count < CacheLimit
      /\ DOMAIN a.hash \subseteq DOMAIN c.hash
      /\ \A e \in DOMAIN a.hash : a.hash[e] = c.hash[e]
      /\ DOMAIN c.hash = {} \/ a.lifespan = c.lifespan
  BY <1>1, RoomOk
<1>3. PICK r, l, k : /\ r = EnterInternal(a, f, v, now, m)
                     /\ l = [ver |-> v, at |-> now, entered |-> TRUE]
                     /\ k = [Kept(r, s) EXCEPT ![f] = IF f \in DOMAIN r.hash THEN l ELSE <<>>]
  OBVIOUS
<1>4. /\ CacheOk(r, now) /\ r.lifespan = a.lifespan
      /\ f \in DOMAIN r.hash => r.hash[f] = [ver |-> v, expiration |-> now + a.lifespan]
      /\ \A e \in DOMAIN r.hash : e # f => e \in DOMAIN a.hash /\ r.hash[e] = a.hash[e]
  BY <1>1, <1>2, <1>3, EnterInternalOk
<1>5. l \in Look /\ l # <<>> /\ l.ver = v /\ l.at = now /\ l.entered
  BY <1>3, LookIsSome
<1>6. DOMAIN r.hash \subseteq Name
  BY <1>4 DEF CacheOk, ListOk
<1>7. /\ DOMAIN k = Name
      /\ f \in DOMAIN r.hash => k[f] = l
      /\ \A e \in DOMAIN r.hash : e # f => k[e] = s[e]
  BY <1>3, <1>6 DEF Kept
<1>8. ASSUME NEW e \in DOMAIN r.hash
      PROVE  /\ k[e] \in Look /\ k[e] # <<>>
             /\ k[e].entered => r.hash[e].ver = k[e].ver
             /\ r.hash[e].expiration <= k[e].at + r.lifespan
  <2>1. CASE e = f
    <3>1. r.hash[e].ver = v /\ r.hash[e].expiration = now + r.lifespan
      BY <1>4, <2>1
    <3>2. r.lifespan \in Nat
      BY <1>4 DEF CacheOk
    <3>3. r.hash[e].expiration <= now + r.lifespan
      BY <3>1, <3>2
    <3> QED
      BY <1>5, <1>7, <2>1, <3>1, <3>3
  <2>2. CASE e # f
    <3>1. e \in DOMAIN c.hash /\ r.hash[e] = c.hash[e] /\ k[e] = s[e] /\ r.lifespan = c.lifespan
      BY <1>2, <1>4, <1>7, <2>2
    <3> QED
      BY <3>1 DEF SeenOk
  <2> QED
    BY <2>1, <2>2
<1>9. SeenOk(r, k)
  BY <1>7, <1>8 DEF SeenOk
<1> QED
  BY <1>1, <1>3, <1>4, <1>9

(***************************************************************************)
(* The n-th member of a set of numbers                                     *)
(***************************************************************************)
UpTo(S, k) == {j \in S : j <= k}

LEMMA NthIn ==
  ASSUME NEW N \in Nat, NEW S \in SUBSET (1..N), NEW n \in 1..Cardinality(S)
  PROVE  Nth(S, n) \in S
<1>1. /\ \A k \in Nat : IsFiniteSet(UpTo(S, k)) /\ Cardinality(UpTo(S, k)) \in Nat
      /\ n \in Nat /\ n > 0
  <2>1. IsFiniteSet(1..N)
    BY FS_Interval
  <2>2. IsFiniteSet(S)
    BY <2>1, FS_Subset
  <2>3. \A k \in Nat : UpTo(S, k) \subseteq S
    BY DEF UpTo
  <2>4. \A k \in Nat : IsFiniteSet(UpTo(S, k))
    BY <2>2, <2>3, FS_Subset
  <2>5. Cardinality(S) \in Nat
    BY <2>2, FS_CardinalityType
  <2> QED
    BY <2>4, <2>5, FS_CardinalityType
<1>0. /\ \A j \in S : j \in Int /\ 1 <= j /\ j <= N
      /\ \A k : UpTo(S, k) \subseteq S
      /\ \A k, j : j \in S => (j \in UpTo(S, k) <=> j <= k)
  BY DEF UpTo
<1>2. UpTo(S, N) = S /\ UpTo(S, 0) = {}
  <2>1. \A j : j \in UpTo(S, N) <=> j \in S
    BY <1>0
  <2>2. \A j \in S : j \notin UpTo(S, 0)
    BY <1>0
  <2> QED
    BY <1>0, <2>1, <2>2
<1>3. PICK K : K = {k \in Nat : Cardinality(UpTo(S, k)) >= n}
  OBVIOUS
<1>4. N \in K /\ K \subseteq Nat
  BY <1>2, <1>3
<1>5. PICK k \in K : \A i \in K : k <= i
  BY <1>4, LeastOf
<1>6. k \in Nat /\ k # 0
  <2>1. Cardinality(UpTo(S, 0)) = 0
    BY <1>2, FS_EmptySet
  <2> QED
    BY <1>1, <1>3, <1>4, <1>5, <2>1
<1>7. k - 1 \in Nat /\ k - 1 \notin K /\ Cardinality(UpTo(S, k - 1)) < n
  <2>1. k - 1 \in Nat /\ k - 1 \notin K
    BY <1>4, <1>5, <1>6
  <2> QED
    BY <1>1, <1>3, <2>1
<1>8. k \in S
  <2>1. CASE k \notin S
    <3>1. UpTo(S, k) = UpTo(S, k - 1)
      <4>1. \A j \in S : j <= k <=> j <= k - 1
        BY <1>0, <1>6, <2>1
      <4>2. \A j \in S : j \in UpTo(S, k) <=> j \in UpTo(S, k - 1)
        BY <1>0, <4>1
      <4> QED
        BY <1>0, <4>2
    <3>2. Cardinality(UpTo(S, k)) >= n
      BY <1>3, <1>5
    <3> QED
      BY <1>1, <1>7, <3>1, <3>2
  <2> QED
    BY <2>1
<1>9. Cardinality(UpTo(S, k)) = Cardinality(UpTo(S, k - 1)) + 1
  <2>1. UpTo(S, k) = UpTo(S, k - 1) \cup {k} /\ k \notin UpTo(S, k - 1)
    <3>1. \A j \in S : j <= k <=> j <= k - 1 \/ j = k
      BY <1>0, <1>6
    <3>2. k \notin UpTo(S, k - 1)
      BY <1>0, <1>6, <1>8
    <3> QED
      BY <1>0, <1>8, <3>1, <3>2
  <2>2. IsFiniteSet(UpTo(S, k - 1))
    BY <1>1, <1>7
  <2> QED
    BY <2>1, <2>2, FS_AddElement
<1>10. Cardinality(UpTo(S, k)) = n
  <2>1. Cardinality(UpTo(S, k)) >= n
    BY <1>3, <1>5
  <2> QED
    BY <1>1, <1>6, <1>7, <1>9, <2>1
<1>11. \E i \in S : Cardinality({j \in S : j <= i}) = n
  BY <1>8, <1>10 DEF UpTo
<1> QED
  BY <1>11 DEF Nth

(***************************************************************************)
(* The invariant                                                           *)
(***************************************************************************)
Entry == [name : Name, ver : Nat]

FilesOk == files \in [time : Nat, ver : [Name -> Nat]]

DirOk ==
  /\ dp \in [open : BOOLEAN, buf : Seq(Entry), index : Nat, pos : Nat, lost : BOOLEAN]
  /\ dp.index <= Len(dp.buf)

StatCacheInv == FilesOk /\ DirOk /\ CacheOk(sc, files.time) /\ SeenOk(sc, seen)

LEMMA NextBlockOk ==
  ASSUME FilesOk, DirOk
  PROVE  /\ NextBlock \in Seq(Entry)
         /\ NextBlock # <<>> => Nth(There, Len(NextBlock)) \in Nat
<1>1. Listing \in Seq(Name) /\ Len(Listing) \in Nat
  BY StatCacheAssumption DEF Name
<1>2. dp.pos \in Nat
  BY DEF DirOk
<1>3. PICK T : T = There
  OBVIOUS
<1>4. T \in SUBSET (1..Len(Listing)) /\ \A i \in T : i \in Nat
  BY <1>1, <1>2, <1>3 DEF There
<1>5. Cardinality(T) \in Nat
  <2>1. IsFiniteSet(1..Len(Listing))
    BY <1>1, FS_Interval
  <2>2. IsFiniteSet(T)
    BY <1>4, <2>1, FS_Subset
  <2> QED
    BY <2>2, FS_CardinalityType
<1>6. PICK k : k = IF Cardinality(T) < Block THEN Cardinality(T) ELSE Block
  OBVIOUS
<1>7. k \in Nat /\ k <= Cardinality(T)
  BY <1>5, <1>6, StatCacheAssumption
<1>8. \A n \in 1..k : Nth(T, n) \in T
  <2>1. \A n \in 1..k : n \in 1..Cardinality(T)
    BY <1>5, <1>7
  <2> QED
    BY <1>1, <1>4, <2>1, NthIn
<1>9. PICK b, v : b = NextBlock /\ v = files.ver
  OBVIOUS
<1>10. b = [n \in 1..k |-> [name |-> Listing[Nth(T, n)], ver |-> v[Listing[Nth(T, n)]]]]
  BY <1>3, <1>6, <1>9 DEF NextBlock
<1>11. \A n \in 1..k : [name |-> Listing[Nth(T, n)], ver |-> v[Listing[Nth(T, n)]]] \in Entry
  <2>1. \A i \in T : Listing[i] \in Name
    BY <1>1, <1>4
  <2>2. v \in [Name -> Nat]
    BY <1>9 DEF FilesOk
  <2>3. TAKE n \in 1..k
  <2>4. Listing[Nth(T, n)] \in Name /\ v[Listing[Nth(T, n)]] \in Nat
    BY <1>8, <2>1, <2>2
  <2> QED
    BY <2>4 DEF Entry
<1>12. b \in Seq(Entry) /\ Len(b) = k
  BY <1>7, <1>10, <1>11
<1>13. b # <<>> => Nth(T, Len(b)) \in Nat
  <2>1. b # <<>> => k \in 1..k
    BY <1>7, <1>12
  <2> QED
    BY <1>4, <1>8, <1>12, <2>1
<1> QED
  BY <1>3, <1>9, <1>12, <1>13

LEMMA StatCacheStart ==
  ASSUME StatCacheInit
  PROVE  StatCacheInv
<1>1. FilesOk
  BY DEF StatCacheInit, FilesOk
<1>2. DirOk
  BY DEF StatCacheInit, DirOk, Closed
<1>3. PICK c : c = sc
  OBVIOUS
<1>4. /\ c.list = <<>> /\ c.hash = <<>> /\ c.count = 0 /\ c.lifespan = 0 /\ c.lifespanSet = FALSE
      /\ c.ready = FALSE /\ c.nomem = 0
      /\ c = [list |-> c.list, hash |-> c.hash, count |-> c.count, lifespan |-> c.lifespan,
              lifespanSet |-> c.lifespanSet, ready |-> c.ready, nomem |-> c.nomem]
  BY <1>3 DEF StatCacheInit
<1>5. ListOk(c.list, c.hash) /\ DOMAIN c.hash = {}
  <2>1. DOMAIN c.hash = {} /\ c.hash = [f \in DOMAIN c.hash |-> c.hash[f]] /\ Len(c.list) = 0 /\ c.list \in Seq(Name)
    BY <1>4
  <2> QED
    BY <2>1 DEF ListOk, Unique, Sorted
<1>6. CacheOk(c, files.time)
  <2>1. c.count = Len(c.list) /\ c.count <= CacheLimit
    BY <1>4, StatCacheAssumption
  <2>2. /\ c.lifespan \in Nat /\ c.lifespanSet \in BOOLEAN /\ c.ready \in BOOLEAN
        /\ c.ready \/ c.list = <<>>
        /\ c.ready => c.lifespanSet \/ c.lifespan = Timeout
    <3>1. c.ready = FALSE /\ c.lifespanSet = FALSE /\ c.list = <<>> /\ c.lifespan = 0
      BY <1>4
    <3>2. c.ready \in BOOLEAN /\ c.lifespanSet \in BOOLEAN /\ ~c.ready
      BY <3>1, Zenon
    <3> QED
      BY <3>1, <3>2
  <2>3. \A f \in DOMAIN c.hash : c.hash[f].expiration <= files.time + c.lifespan
    BY <1>5
  <2> QED
    BY <1>4, <1>5, <2>1, <2>2, <2>3 DEF CacheOk
<1>7. SeenOk(c, seen)
  BY <1>5 DEF StatCacheInit, SeenOk
<1> QED
  BY <1>1, <1>2, <1>3, <1>6, <1>7 DEF StatCacheInv

\* The cache and the history after a step that leaves the files and the directory.
LEMMA CacheStep ==
  ASSUME StatCacheInv, UNCHANGED <<files, dp>>,
         NEW c, c = sc', CacheOk(c, files.time), NEW s, s = seen', SeenOk(c, s)
  PROVE  StatCacheInv'
<1>1. CacheOk(sc', files.time) /\ SeenOk(sc', seen')
  OBVIOUS
<1>2. CacheOk(sc', files'.time) /\ FilesOk' /\ DirOk'
  BY <1>1 DEF StatCacheInv, FilesOk, DirOk
<1> QED
  BY <1>1, <1>2 DEF StatCacheInv

LEMMA HashedNames ==
  ASSUME NEW c, NEW now, CacheOk(c, now)
  PROVE  DOMAIN c.hash \subseteq Name
<1>1. c.list \in Seq(Name) /\ \A f : f \in DOMAIN c.hash <=> \E i \in 1..Len(c.list) : c.list[i] = f
  BY DEF CacheOk, ListOk
<1>2. \A i \in 1..Len(c.list) : c.list[i] \in Name
  BY <1>1
<1> QED
  BY <1>1, <1>2

LEMMA SeenInKept == SeenIn(sc') = Kept(sc', seen) /\ \A c : SeenIn(c) = Kept(c, seen)
  BY DEF SeenIn, Kept

LEMMA InitStep ==
  ASSUME StatCacheInv, gfs_stat_cache_init
  PROVE  StatCacheInv'
<1>1. PICK c, now, s, d : c = sc /\ now = files.time /\ s = seen /\ d = sc'
  OBVIOUS
<1>2. CacheOk(c, now) /\ SeenOk(c, s) /\ now \in Nat /\ d = Initialized(c) /\ s = seen'
  BY <1>1 DEF StatCacheInv, FilesOk, gfs_stat_cache_init
<1>3. CacheOk(d, now) /\ d.hash = c.hash /\ (d.lifespan = c.lifespan \/ c.list = <<>>)
  BY <1>2, InitializedOk
<1>4. DOMAIN c.hash = {} \/ d.lifespan = c.lifespan
  BY <1>2, <1>3 DEF CacheOk, ListOk
<1>5. SeenOk(d, s)
  BY <1>2, <1>3, <1>4 DEF SeenOk
<1> QED
  BY <1>1, <1>2, <1>3, <1>5, CacheStep DEF gfs_stat_cache_init

LEMMA ClearStep ==
  ASSUME StatCacheInv, gfs_stat_cache_clear
  PROVE  StatCacheInv'
<1>1. PICK c, now, s, d : c = sc /\ now = files.time /\ s = seen' /\ d = sc'
  OBVIOUS
<1>2. CacheOk(c, now) /\ d = [c EXCEPT !.list = <<>>, !.hash = <<>>, !.count = 0]
  BY <1>1 DEF StatCacheInv, gfs_stat_cache_clear
<1>3. /\ d.list = <<>> /\ d.hash = <<>> /\ d.count = 0 /\ d.lifespan = c.lifespan /\ d.lifespanSet = c.lifespanSet
      /\ d.ready = c.ready /\ d.nomem = c.nomem
      /\ d = [list |-> d.list, hash |-> d.hash, count |-> d.count, lifespan |-> d.lifespan,
              lifespanSet |-> d.lifespanSet, ready |-> d.ready, nomem |-> d.nomem]
  <2>1. c = [list |-> c.list, hash |-> c.hash, count |-> c.count, lifespan |-> c.lifespan,
             lifespanSet |-> c.lifespanSet, ready |-> c.ready, nomem |-> c.nomem]
    BY <1>2 DEF CacheOk
  <2>2. d = [list |-> <<>>, hash |-> <<>>, count |-> 0, lifespan |-> c.lifespan,
             lifespanSet |-> c.lifespanSet, ready |-> c.ready, nomem |-> c.nomem]
    BY <1>2, <2>1
  <2> QED
    BY <2>2
<1>4. ListOk(d.list, d.hash) /\ DOMAIN d.hash = {}
  <2>1. DOMAIN d.hash = {} /\ d.hash = [f \in DOMAIN d.hash |-> d.hash[f]] /\ Len(d.list) = 0 /\ d.list \in Seq(Name)
    BY <1>3
  <2> QED
    BY <2>1 DEF ListOk, Unique, Sorted
<1>5. CacheOk(d, now)
  <2>1. /\ c.lifespan \in Nat /\ c.lifespanSet \in BOOLEAN /\ c.ready \in BOOLEAN
        /\ c.ready => c.lifespanSet \/ c.lifespan = Timeout
    BY <1>2 DEF CacheOk
  <2> QED
    BY <1>3, <1>4, <2>1, StatCacheAssumption DEF CacheOk
<1>6. SeenOk(d, s)
  BY <1>1, <1>4 DEF gfs_stat_cache_clear, SeenOk
<1> QED
  BY <1>1, <1>5, <1>6, CacheStep DEF gfs_stat_cache_clear

LEMMA ExpireStep ==
  ASSUME StatCacheInv, gfs_stat_cache_expire
  PROVE  StatCacheInv'
<1>1. PICK c, now, s, d, k : c = sc /\ now = files.time /\ s = seen /\ d = sc' /\ k = seen'
  OBVIOUS
<1>2. CacheOk(c, now) /\ SeenOk(c, s) /\ now \in Nat /\ d = Expired(c, now) /\ k = Kept(d, s)
  BY <1>1, SeenInKept DEF StatCacheInv, FilesOk, gfs_stat_cache_expire
<1>3. CacheOk(d, now) /\ PartOf(d, c)
  BY <1>2, ExpiredOk
<1>4. DOMAIN d.hash \subseteq Name
  BY <1>3, HashedNames
<1>5. SeenOk(d, k)
  BY <1>2, <1>3, <1>4, KeptOk DEF PartOf
<1> QED
  BY <1>1, <1>3, <1>5, CacheStep DEF gfs_stat_cache_expire

LEMMA ExpirationSetStep ==
  ASSUME StatCacheInv, NEW span \in Lifespans, gfs_stat_cache_expiration_set(span)
  PROVE  StatCacheInv'
<1>1. PICK c, now, s, d : c = sc /\ now = files.time /\ s = seen /\ d = sc'
  OBVIOUS
<1>2. PICK h, g : h = c.hash /\ g = [f \in DOMAIN h |-> [h[f] EXCEPT !.expiration = @ - c.lifespan + span]]
  OBVIOUS
<1>3. /\ CacheOk(c, now) /\ SeenOk(c, s) /\ now \in Nat /\ s = seen'
      /\ d = [c EXCEPT !.lifespanSet = TRUE, !.lifespan = span, !.hash = g]
  BY <1>1, <1>2 DEF StatCacheInv, FilesOk, gfs_stat_cache_expiration_set, Moved
<1>4. span \in Nat /\ c.lifespan \in Nat /\ span - c.lifespan \in Int
  BY <1>3, StatCacheAssumption DEF CacheOk
<1>5. /\ d.list = c.list /\ d.hash = g /\ d.count = c.count /\ d.lifespan = span /\ d.lifespanSet = TRUE
      /\ d.ready = c.ready /\ d.nomem = c.nomem
      /\ d = [list |-> d.list, hash |-> d.hash, count |-> d.count, lifespan |-> d.lifespan,
              lifespanSet |-> d.lifespanSet, ready |-> d.ready, nomem |-> d.nomem]
  <2>1. c = [list |-> c.list, hash |-> c.hash, count |-> c.count, lifespan |-> c.lifespan,
             lifespanSet |-> c.lifespanSet, ready |-> c.ready, nomem |-> c.nomem]
    BY <1>3 DEF CacheOk
  <2>2. d = [list |-> c.list, hash |-> g, count |-> c.count, lifespan |-> span,
             lifespanSet |-> TRUE, ready |-> c.ready, nomem |-> c.nomem]
    BY <1>3, <2>1
  <2> QED
    BY <2>2
<1>6. ListOk(c.list, h) /\ \A f \in DOMAIN h : h[f] \in Attributes /\ h[f].expiration <= now + c.lifespan
  BY <1>2, <1>3 DEF CacheOk, ListOk
<1>7. /\ DOMAIN g = DOMAIN h /\ g = [f \in DOMAIN g |-> g[f]]
      /\ \A f \in DOMAIN h : /\ g[f] \in Attributes /\ g[f].ver = h[f].ver
                             /\ g[f].expiration = h[f].expiration + (span - c.lifespan)
  <2>1. DOMAIN g = DOMAIN h /\ g = [f \in DOMAIN g |-> g[f]]
    BY <1>2
  <2>2. ASSUME NEW f \in DOMAIN h
        PROVE  /\ g[f] \in Attributes /\ g[f].ver = h[f].ver
               /\ g[f].expiration = h[f].expiration + (span - c.lifespan)
    <3>1. PICK e : e = h[f].expiration - c.lifespan + span
      OBVIOUS
    <3>2. h[f] \in Attributes /\ g[f] = [h[f] EXCEPT !.expiration = e]
      BY <1>2, <1>6, <3>1
    <3>3. e \in Int /\ e = h[f].expiration + (span - c.lifespan)
      BY <1>4, <3>1, <3>2 DEF Attributes
    <3> QED
      BY <3>2, <3>3 DEF Attributes
  <2> QED
    BY <2>1, <2>2
<1>8. ListOk(d.list, d.hash)
  <2>1. PICK l : l = c.list
    OBVIOUS
  <2>2. ListOk(l, g)
    BY <1>4, <1>6, <1>7, <2>1, MoveOk
  <2> QED
    BY <1>5, <2>1, <2>2
<1>9. \A f \in DOMAIN g : g[f].expiration <= now + span
  <2>1. TAKE f \in DOMAIN g
  <2>2. h[f].expiration \in Int /\ h[f].expiration <= now + c.lifespan /\ g[f].expiration = h[f].expiration + (span - c.lifespan)
    BY <1>6, <1>7 DEF Attributes
  <2> QED
    BY <1>3, <1>4, <2>2
<1>10. CacheOk(d, now)
  <2>1. c.ready \in BOOLEAN /\ (c.ready \/ c.list = <<>>) /\ c.count = Len(c.list) /\ c.count <= CacheLimit
    BY <1>3 DEF CacheOk
  <2> QED
    BY <1>4, <1>5, <1>8, <1>9, <2>1 DEF CacheOk
<1>11. SeenOk(d, s)
  <2>1. ASSUME NEW f \in DOMAIN g
        PROVE  /\ s[f] \in Look /\ s[f] # <<>>
               /\ s[f].entered => g[f].ver = s[f].ver
               /\ g[f].expiration <= s[f].at + span
    <3>1. /\ s[f] \in Look /\ s[f] # <<>>
          /\ s[f].entered => h[f].ver = s[f].ver
          /\ h[f].expiration <= s[f].at + c.lifespan
      BY <1>2, <1>3, <1>7 DEF SeenOk
    <3>2. h[f].expiration \in Int /\ g[f].expiration = h[f].expiration + (span - c.lifespan) /\ s[f].at \in Nat
          /\ g[f].ver = h[f].ver
      BY <1>6, <1>7, <3>1 DEF Attributes, Look
    <3>3. g[f].expiration <= s[f].at + span
      <4>1. PICK x, y, a, b, l : /\ x = g[f].expiration /\ y = h[f].expiration /\ a = s[f].at
                                 /\ b = span /\ l = c.lifespan
        OBVIOUS
      <4>2. /\ y \in Int /\ a \in Nat /\ b \in Nat /\ l \in Nat
            /\ x = y + (b - l) /\ y <= a + l
        BY <1>4, <3>1, <3>2, <4>1
      <4>3. x <= a + b
        BY ONLY <4>2
      <4> QED
        BY <4>1, <4>3
    <3> QED
      BY <3>1, <3>2, <3>3
  <2> QED
    BY <1>3, <1>5, <2>1 DEF SeenOk
<1> QED
  BY <1>1, <1>3, <1>10, <1>11, CacheStep DEF gfs_stat_cache_expiration_set

LEMMA PurgeStep ==
  ASSUME StatCacheInv, NEW f \in Name, gfs_stat_cache_purge(f)
  PROVE  StatCacheInv'
<1>1. PICK c, now, s, d, k : c = sc /\ now = files.time /\ s = seen /\ d = sc' /\ k = seen'
  OBVIOUS
<1>2. PICK b : b = Expired(c, now)
  OBVIOUS
<1>3. CacheOk(c, now) /\ SeenOk(c, s) /\ now \in Nat
  BY <1>1 DEF StatCacheInv, FilesOk
<1>4. d = (IF f \in DOMAIN b.hash THEN Dropped(b, f) ELSE b) /\ k = [Kept(d, s) EXCEPT ![f] = <<>>]
  BY <1>1, <1>2, SeenInKept DEF gfs_stat_cache_purge
<1>5. CacheOk(b, now) /\ PartOf(b, c)
  BY <1>2, <1>3, ExpiredOk
<1>6. CacheOk(d, now) /\ PartOf(d, c) /\ f \notin DOMAIN d.hash
  <2>1. CASE f \in DOMAIN b.hash
    <3>1. CacheOk(d, now) /\ PartOf(d, b) /\ f \notin DOMAIN d.hash
      BY <1>4, <1>5, <1>3, <2>1, DroppedOk
    <3> QED
      BY <1>5, <3>1 DEF PartOf
  <2>2. CASE f \notin DOMAIN b.hash
    BY <1>4, <1>5, <2>2
  <2> QED
    BY <2>1, <2>2
<1>7. DOMAIN d.hash \subseteq Name
  BY <1>6, HashedNames
<1>8. SeenOk(d, Kept(d, s))
  BY <1>3, <1>6, <1>7, KeptOk DEF PartOf
<1>9. SeenOk(d, k)
  <2>1. PICK l : l = Kept(d, s)
    OBVIOUS
  <2>2. SeenOk(d, l) /\ k = [l EXCEPT ![f] = <<>>]
    BY <1>4, <1>8, <2>1
  <2> QED
    BY <1>6, <2>2 DEF SeenOk
<1> QED
  BY <1>1, <1>6, <1>9, CacheStep DEF gfs_stat_cache_purge

\* A look at f that is tried to be entered.
LEMMA ObservedOk ==
  ASSUME FilesOk, NEW c, CacheOk(c, files.time), SeenOk(c, seen), NEW f \in Name, NEW v \in Nat, Observed(c, f, v)
  PROVE  CacheOk(sc', files.time) /\ SeenOk(sc', seen')
<1>1. PICK now, s, d, k : now = files.time /\ s = seen /\ d = sc' /\ k = seen'
  OBVIOUS
<1>2. now \in Nat /\ CacheOk(c, now) /\ SeenOk(c, s)
  BY <1>1 DEF FilesOk
<1>3. PICK m \in Memory(Room(c, now), f) :
        /\ d = EnterInternal(Room(c, now), f, v, now, m)
        /\ k = [Kept(d, s) EXCEPT ![f] = IF f \in DOMAIN d.hash
                                         THEN [ver |-> v, at |-> now, entered |-> TRUE] ELSE <<>>]
  BY <1>1, SeenInKept DEF Observed
<1>4. CacheOk(d, now) /\ SeenOk(d, k)
  BY <1>2, <1>3, SeenAnew
<1> QED
  BY <1>1, <1>4

LEMMA CachingStep ==
  ASSUME StatCacheInv, NEW f \in Name, gfs_stat_caching(f)
  PROVE  StatCacheInv'
<1>1. PICK c, v, d, k : c = sc /\ v = files.ver[f] /\ d = sc' /\ k = seen'
  OBVIOUS
<1>2. FilesOk /\ CacheOk(c, files.time) /\ SeenOk(c, seen) /\ v \in Nat /\ Observed(c, f, v)
  <2>1. FilesOk /\ CacheOk(sc, files.time) /\ SeenOk(sc, seen)
    BY DEF StatCacheInv
  <2>2. v \in Nat
    BY <1>1, <2>1 DEF FilesOk
  <2>3. Observed(c, f, v)
    BY <1>1 DEF gfs_stat_caching
  <2> QED
    BY <1>1, <2>1, <2>2, <2>3
<1>3. CacheOk(d, files.time) /\ SeenOk(d, k)
  BY <1>1, <1>2, ObservedOk
<1> QED
  BY <1>1, <1>3, CacheStep DEF gfs_stat_caching

LEMMA CachedStep ==
  ASSUME StatCacheInv, NEW f \in Name, gfs_stat_cached(f)
  PROVE  StatCacheInv'
<1>1. PICK a, now, s, d, k, v : a = sc /\ now = files.time /\ s = seen /\ d = sc' /\ k = seen' /\ v = files.ver[f]
  OBVIOUS
<1>2. PICK p : p = Ready(a)
  OBVIOUS
<1>3. PICK c : c = Expired(p, now)
  OBVIOUS
<1>4. FilesOk /\ CacheOk(a, now) /\ SeenOk(a, s) /\ now \in Nat /\ v \in Nat
  BY <1>1 DEF StatCacheInv, FilesOk
<1>5. CacheOk(p, now) /\ p.hash = a.hash /\ (DOMAIN a.hash = {} \/ p.lifespan = a.lifespan)
  <2>1. a.list = <<>> => DOMAIN a.hash = {}
    BY <1>4 DEF CacheOk, ListOk
  <2> QED
    BY <1>2, <1>4, <2>1, ReadyOk
<1>6. SeenOk(p, s)
  BY <1>4, <1>5 DEF SeenOk
<1>7. CacheOk(c, now) /\ PartOf(c, p)
  BY <1>3, <1>4, <1>5, ExpiredOk
<1>8. SeenOk(c, s)
  BY <1>6, <1>7 DEF SeenOk, PartOf
<1>9. IF f \notin DOMAIN c.hash /\ v # 0 THEN Observed(c, f, v) ELSE d = c /\ k = Kept(c, s)
  BY <1>1, <1>2, <1>3, SeenInKept DEF gfs_stat_cached
<1>10. CacheOk(d, now) /\ SeenOk(d, k)
  <2>1. CASE Observed(c, f, v)
    <3>1. CacheOk(c, files.time) /\ SeenOk(c, seen)
      BY <1>1, <1>7, <1>8
    <3> QED
      BY <1>1, <1>4, <2>1, <3>1, ObservedOk
  <2>2. CASE d = c /\ k = Kept(c, s)
    <3>1. DOMAIN c.hash \subseteq Name
      BY <1>7, HashedNames
    <3>2. SeenOk(c, Kept(c, s))
      BY <1>8, <3>1, KeptOk
    <3> QED
      BY <1>7, <2>2, <3>2
  <2> QED
    BY <1>9, <2>1, <2>2
<1> QED
  BY <1>1, <1>10, CacheStep DEF gfs_stat_cached

LEMMA NotEnteredOk ==
  ASSUME FilesOk, CacheOk(sc, files.time), SeenOk(sc, seen), NEW f \in Name, NEW v \in Nat, NotEntered(f, v)
  PROVE  CacheOk(sc', files.time) /\ SeenOk(sc', seen')
<1>1. PICK c, now, s, d, k, l : /\ c = sc /\ now = files.time /\ s = seen /\ d = sc' /\ k = seen'
                                /\ l = [ver |-> v, at |-> now, entered |-> FALSE]
  OBVIOUS
<1>2. /\ CacheOk(c, now) /\ SeenOk(c, s) /\ now \in Nat
      /\ d = [c EXCEPT !.nomem = @ + 1]
      /\ k = IF f \in DOMAIN c.hash THEN [s EXCEPT ![f] = l] ELSE s
  BY <1>1 DEF FilesOk, NotEntered
<1>3. CacheOk(d, now) /\ d.hash = c.hash /\ d.lifespan = c.lifespan
  BY <1>2, NoMemoryOk
<1>4. l \in Look /\ l # <<>> /\ l.at = now /\ ~l.entered
  BY <1>1, <1>2, LookIsSome
<1>5. SeenOk(d, k)
  <2>1. DOMAIN k = Name /\ \A e \in DOMAIN c.hash : k[e] = IF e = f THEN l ELSE s[e]
    BY <1>2 DEF SeenOk
  <2>2. \A e \in DOMAIN c.hash : c.hash[e].expiration <= now + c.lifespan
    BY <1>2 DEF CacheOk
  <2>3. \A e \in DOMAIN c.hash : /\ k[e] \in Look /\ k[e] # <<>>
                                 /\ k[e].entered => c.hash[e].ver = k[e].ver
                                 /\ c.hash[e].expiration <= k[e].at + c.lifespan
    BY <1>2, <1>4, <2>1, <2>2 DEF SeenOk
  <2> QED
    BY <1>3, <2>1, <2>3 DEF SeenOk
<1> QED
  BY <1>1, <1>3, <1>5

\* A directory: its buffer, and the entry that is handed out.
LEMMA FilledOk ==
  ASSUME FilesOk, DirOk
  PROVE  LET d == Filled(dp)
         IN  /\ d \in [open : BOOLEAN, buf : Seq(Entry), index : Nat, pos : Nat, lost : BOOLEAN]
             /\ d.index <= Len(d.buf)
             /\ d.buf # <<>> => d.index < Len(d.buf)
<1>1. PICK d, p, b : d = Filled(dp) /\ p = dp /\ b = NextBlock
  OBVIOUS
<1>2. /\ p \in [open : BOOLEAN, buf : Seq(Entry), index : Nat, pos : Nat, lost : BOOLEAN]
      /\ p.index <= Len(p.buf)
  BY <1>1 DEF DirOk
<1>3. PICK n : n = IF b = <<>> THEN p.pos ELSE Nth(There, Len(b))
  OBVIOUS
<1>4. b \in Seq(Entry) /\ n \in Nat
  BY <1>1, <1>2, <1>3, NextBlockOk
<1>5. CASE p.index < Len(p.buf)
  BY <1>1, <1>2, <1>5 DEF Filled
<1>6. CASE ~(p.index < Len(p.buf))
  <2>1. d = [p EXCEPT !.buf = b, !.index = 0, !.pos = n]
    BY <1>1, <1>3, <1>6 DEF Filled
  <2>2. /\ d \in [open : BOOLEAN, buf : Seq(Entry), index : Nat, pos : Nat, lost : BOOLEAN]
        /\ d.buf = b /\ d.index = 0
    BY <1>2, <1>4, <2>1
  <2>3. Len(b) \in Nat /\ (b # <<>> => Len(b) > 0)
    BY <1>4
  <2> QED
    BY <1>1, <2>2, <2>3
<1> QED
  BY <1>5, <1>6

LEMMA ReaddirStep ==
  ASSUME StatCacheInv, gfs_readdir_caching
  PROVE  StatCacheInv'
<1>1. PICK d : d = Filled(dp)
  OBVIOUS
<1>2. /\ d \in [open : BOOLEAN, buf : Seq(Entry), index : Nat, pos : Nat, lost : BOOLEAN]
      /\ d.index <= Len(d.buf)
      /\ d.buf # <<>> => d.index < Len(d.buf)
  BY <1>1, FilledOk DEF StatCacheInv
<1>3. FilesOk /\ DirOk /\ CacheOk(sc, files.time) /\ SeenOk(sc, seen)
  BY DEF StatCacheInv
<1>4. CASE d.buf = <<>>
  <2>1. dp' = d /\ UNCHANGED <<files, sc, seen>>
    BY <1>1, <1>4 DEF gfs_readdir_caching
  <2> QED
    BY <1>2, <1>3, <2>1 DEF StatCacheInv, FilesOk, DirOk
<1>5. CASE d.buf # <<>>
  <2>1. PICK b : b = d.buf[d.index + 1]
    OBVIOUS
  <2>2. b \in Entry
    <3>1. d.index + 1 \in 1..Len(d.buf) /\ d.buf \in Seq(Entry)
      BY <1>2, <1>5
    <3> QED
      BY <2>1, <3>1
  <2>3. /\ dp' = [d EXCEPT !.index = @ + 1] /\ UNCHANGED files
        /\ Observed(sc, b.name, b.ver) \/ NotEntered(b.name, b.ver)
    BY <1>1, <1>5, <2>1 DEF gfs_readdir_caching, Handed
  <2>4. PICK f, v : f = b.name /\ v = b.ver
    OBVIOUS
  <2>5. f \in Name /\ v \in Nat /\ (Observed(sc, f, v) \/ NotEntered(f, v))
    BY <2>2, <2>3, <2>4 DEF Entry
  <2>6. CacheOk(sc', files.time) /\ SeenOk(sc', seen')
    <3>1. PICK c : c = sc
      OBVIOUS
    <3>2. CASE Observed(sc, f, v)
      <4>1. CacheOk(c, files.time) /\ SeenOk(c, seen) /\ Observed(c, f, v)
        BY <1>3, <3>1, <3>2
      <4> QED
        BY <1>3, <2>5, <4>1, ObservedOk
    <3>3. CASE NotEntered(f, v)
      BY <1>3, <2>5, <3>3, NotEnteredOk
    <3> QED
      BY <2>5, <3>2, <3>3
  <2>7. DirOk'
    <3>1. PICK e : e = dp'
      OBVIOUS
    <3>2. /\ e = [d EXCEPT !.index = @ + 1] /\ d.index + 1 <= Len(d.buf) /\ d.index \in Nat
      BY <1>2, <1>5, <2>3, <3>1
    <3>3. /\ e \in [open : BOOLEAN, buf : Seq(Entry), index : Nat, pos : Nat, lost : BOOLEAN]
          /\ e.index <= Len(e.buf)
      BY <1>2, <3>2
    <3> QED
      BY <3>1, <3>3 DEF DirOk
  <2>8. FilesOk' /\ CacheOk(sc', files'.time)
    BY <1>3, <2>3, <2>6 DEF FilesOk
  <2> QED
    BY <2>6, <2>7, <2>8 DEF StatCacheInv
<1> QED
  BY <1>4, <1>5

\* The steps that leave the cache.
LEMMA DirectoryStep ==
  ASSUME StatCacheInv, gfs_opendir_caching \/ gfs_readdir_caching_failed \/ gfs_closedir_caching
  PROVE  StatCacheInv'
<1>1. UNCHANGED <<files, sc, seen>>
  BY DEF gfs_opendir_caching, gfs_readdir_caching_failed, gfs_closedir_caching
<1>2. DirOk'
  <2>1. DirOk
    BY DEF StatCacheInv
  <2>2. CASE gfs_opendir_caching
    <3>1. dp' = [open |-> TRUE, buf |-> <<>>, index |-> 0, pos |-> 0, lost |-> FALSE]
      BY <2>2 DEF gfs_opendir_caching, Closed
    <3> QED
      BY <3>1 DEF DirOk
  <2>3. CASE gfs_readdir_caching_failed
    <3>1. PICK d, e : d = dp /\ e = dp'
      OBVIOUS
    <3>2. /\ d \in [open : BOOLEAN, buf : Seq(Entry), index : Nat, pos : Nat, lost : BOOLEAN]
          /\ e = [d EXCEPT !.buf = <<>>, !.index = 0, !.lost = TRUE]
      BY <2>1, <2>3, <3>1 DEF DirOk, gfs_readdir_caching_failed
    <3>3. e = [open |-> d.open, buf |-> <<>>, index |-> 0, pos |-> d.pos, lost |-> TRUE]
      BY <3>2
    <3>4. d.open \in BOOLEAN /\ d.pos \in Nat /\ <<>> \in Seq(Entry) /\ TRUE \in BOOLEAN
      BY <3>2
    <3>5. e \in [open : BOOLEAN, buf : Seq(Entry), index : Nat, pos : Nat, lost : BOOLEAN]
      BY <3>3, <3>4
    <3>6. e.index <= Len(e.buf)
      BY <3>3
    <3> QED
      BY <3>1, <3>5, <3>6 DEF DirOk
  <2>4. CASE gfs_closedir_caching
    BY <2>4 DEF gfs_closedir_caching, Closed, DirOk
  <2> QED
    BY <2>2, <2>3, <2>4
<1> QED
  BY <1>1, <1>2 DEF StatCacheInv, FilesOk

LEMMA TickStep ==
  ASSUME StatCacheInv, Tick
  PROVE  StatCacheInv'
<1>1. PICK c, now : c = sc /\ now = files.time
  OBVIOUS
<1>2. /\ now \in Nat /\ CacheOk(c, now) /\ SeenOk(c, seen)
      /\ files' \in [time : Nat, ver : [Name -> Nat]] /\ files'.time = now + 1
      /\ UNCHANGED <<sc, dp, seen>> /\ DirOk
  BY <1>1 DEF StatCacheInv, FilesOk, Tick
<1>3. CacheOk(c, now + 1)
  <2>1. \A f \in DOMAIN c.hash : c.hash[f].expiration <= (now + 1) + c.lifespan
    <3>1. TAKE f \in DOMAIN c.hash
    <3>2. /\ c.hash[f] \in Attributes /\ c.lifespan \in Nat
          /\ c.hash[f].expiration <= now + c.lifespan
      BY <1>2 DEF CacheOk, ListOk
    <3>3. c.hash[f].expiration \in Int
      BY <3>2 DEF Attributes
    <3> QED
      BY <1>2, <3>2, <3>3
  <2> QED
    BY <1>2, <2>1 DEF CacheOk
<1>4. CacheOk(sc', files'.time) /\ SeenOk(sc', seen')
  BY <1>1, <1>2, <1>3
<1> QED
  BY <1>2, <1>4 DEF StatCacheInv, FilesOk, DirOk

LEMMA ChangeStep ==
  ASSUME StatCacheInv, NEW f \in Name, Change(f)
  PROVE  StatCacheInv'
<1>1. PICK v \in {0, files.ver[f] + 1} : files' = [files EXCEPT !.ver[f] = v]
  BY DEF Change
<1>2. UNCHANGED <<sc, dp, seen>> /\ FilesOk
  BY DEF Change, StatCacheInv
<1>3. v \in Nat
  BY <1>1, <1>2 DEF FilesOk
<1>4. FilesOk' /\ files'.time = files.time
  BY <1>1, <1>2, <1>3 DEF FilesOk
<1> QED
  BY <1>2, <1>4 DEF StatCacheInv, DirOk

\* What the cache, the directory and the files hold is right in every state.
THEOREM StatCacheInvariant == StatCacheSpec => []StatCacheInv
<1>1. StatCacheInit => StatCacheInv
  BY StatCacheStart
<1>2. StatCacheInv /\ [StatCacheNext]_scvars => StatCacheInv'
  <2>1. SUFFICES ASSUME StatCacheInv, [StatCacheNext]_scvars
                 PROVE  StatCacheInv'
    OBVIOUS
  <2>2. CASE UNCHANGED scvars
    BY <2>1, <2>2 DEF scvars, StatCacheInv, FilesOk, DirOk
  <2>3. CASE gfs_stat_cache_init \/ gfs_stat_cache_clear \/ gfs_stat_cache_expire
    BY <2>1, <2>3, InitStep, ClearStep, ExpireStep
  <2>4. ASSUME NEW span \in Lifespans, gfs_stat_cache_expiration_set(span)
        PROVE  StatCacheInv'
    BY <2>1, <2>4, ExpirationSetStep
  <2>5. ASSUME NEW f \in Name,
               gfs_stat_cache_purge(f) \/ gfs_stat_caching(f) \/ gfs_stat_cached(f) \/ Change(f)
        PROVE  StatCacheInv'
    BY <2>1, <2>5, PurgeStep, CachingStep, CachedStep, ChangeStep
  <2>6. CASE gfs_readdir_caching
    BY <2>1, <2>6, ReaddirStep
  <2>7. CASE gfs_opendir_caching \/ gfs_readdir_caching_failed \/ gfs_closedir_caching
    BY <2>1, <2>7, DirectoryStep
  <2>8. CASE Tick
    BY <2>1, <2>8, TickStep
  <2> QED
    BY <2>1, <2>2, <2>3, <2>4, <2>5, <2>6, <2>7, <2>8 DEF StatCacheNext
<1> QED
  BY <1>1, <1>2, PTL DEF StatCacheSpec

LEMMA RightOfInv ==
  ASSUME StatCacheInv
  PROVE  StatCacheRight
<1>1. PICK c, now, s : c = sc /\ now = files.time /\ s = seen
  OBVIOUS
<1>2. CacheOk(c, now) /\ SeenOk(c, s) /\ now \in Nat
  BY <1>1 DEF StatCacheInv, FilesOk
<1>3. ListOk(c.list, c.hash) /\ c.list \in Seq(Name) /\ Unique(c.list)
  BY <1>2 DEF CacheOk, ListOk
<1>4. ToSet(c.list) = DOMAIN c.hash
  <2>1. \A f : f \in ToSet(c.list) <=> \E i \in 1..Len(c.list) : c.list[i] = f
    <3>1. PICK l : l = c.list
      OBVIOUS
    <3>2. \A f : f \in ToSet(l) <=> \E i \in 1..Len(l) : l[i] = f
      BY <1>3, <3>1, ToSetOf
    <3> QED
      BY <3>1, <3>2
  <2>2. \A f : f \in DOMAIN c.hash <=> \E i \in 1..Len(c.list) : c.list[i] = f
    BY <1>3 DEF ListOk
  <2> QED
    BY <2>1, <2>2
<1>5. c.count = Len(c.list) /\ c.count = Cardinality(ToSet(c.list)) /\ c.count <= CacheLimit
  <2>1. PICK l : l = c.list
    OBVIOUS
  <2>2. Cardinality(ToSet(l)) = Len(l)
    BY <1>3, <2>1, UniqueCounted
  <2> QED
    BY <1>2, <2>1, <2>2 DEF CacheOk
<1>6. \A i, j \in DOMAIN c.list : i < j => c.hash[c.list[i]].expiration <= c.hash[c.list[j]].expiration
  BY <1>3 DEF ListOk, Sorted
<1>7. ListAgrees
  BY <1>1, <1>4, <1>5, <1>6 DEF ListAgrees
<1>8. PICK d : d = Expired(c, now)
  OBVIOUS
<1>9. /\ PartOf(d, c)
      /\ \A f \in DOMAIN d.hash : c.hash[f].expiration > now
  BY <1>2, <1>8, ExpiredOk
<1>10. ASSUME NEW f \in DOMAIN d.hash
       PROVE  s[f] # <<>> /\ (s[f].entered => d.hash[f].ver = s[f].ver) /\ now < s[f].at + c.lifespan
  <2>1. /\ f \in DOMAIN c.hash /\ d.hash[f] = c.hash[f] /\ c.hash[f].expiration > now
    BY <1>9 DEF PartOf
  <2>2. /\ s[f] \in Look /\ s[f] # <<>>
        /\ s[f].entered => c.hash[f].ver = s[f].ver
        /\ c.hash[f].expiration <= s[f].at + c.lifespan
    BY <1>2, <2>1 DEF SeenOk
  <2>3. c.hash[f].expiration \in Int /\ s[f].at \in Nat /\ c.lifespan \in Nat
    <3>1. c.hash[f] \in Attributes /\ c.lifespan \in Nat
      BY <1>2, <1>3, <2>1 DEF CacheOk, ListOk
    <3> QED
      BY <2>2, <3>1 DEF Attributes, Look
  <2>4. now < s[f].at + c.lifespan
    BY <1>2, <2>1, <2>2, <2>3
  <2> QED
    BY <2>1, <2>2, <2>4
<1>11. CachedIsLastSeen
  BY <1>1, <1>8, <1>10 DEF CachedIsLastSeen, Live
<1> QED
  BY <1>7, <1>11 DEF StatCacheRight

\* The list, the table and the count of the cache agree and the list is in the order of
\* expiration (gfs_dircache.c:90); and a cached answer is what the last call that went
\* to the server returned, within the lifespan and not before a purge.
THEOREM CacheAnswersLastSeen == StatCacheSpec => []StatCacheRight
<1>1. StatCacheInv => StatCacheRight
  BY RightOfInv
<1> QED
  BY <1>1, StatCacheInvariant, PTL

(***************************************************************************)
(* Lists that hold everything once                                         *)
(***************************************************************************)
Once(s) == /\ s \in Seq(Conn)
           /\ \A i, j \in 1..Len(s) : s[i] = s[j] => i = j

\* The elements of a list, and where each is.
LEMMA RankOf ==
  ASSUME NEW s, Once(s)
  PROVE  /\ ToSet(s) \subseteq Conn
         /\ \A c \in ToSet(s) : Rank(s, c) \in 1..Len(s) /\ s[Rank(s, c)] = c
         /\ \A i \in 1..Len(s) : s[i] \in ToSet(s) /\ Rank(s, s[i]) = i
<1>1. s \in Seq(Conn) /\ DOMAIN s = 1..Len(s) /\ Len(s) \in Nat
  BY DEF Once
<1>2. ASSUME NEW c \in ToSet(s)
      PROVE  Rank(s, c) \in 1..Len(s) /\ s[Rank(s, c)] = c
  <2>1. \E i \in DOMAIN s : s[i] = c
    BY <1>2 DEF ToSet
  <2> QED
    BY <1>1, <2>1 DEF Rank
<1>3. ASSUME NEW i \in 1..Len(s)
      PROVE  s[i] \in ToSet(s) /\ Rank(s, s[i]) = i
  <2>1. s[i] \in ToSet(s)
    BY <1>1, <1>3 DEF ToSet
  <2>2. Rank(s, s[i]) \in 1..Len(s) /\ s[Rank(s, s[i])] = s[i]
    BY <2>1, <1>2
  <2> QED
    BY <2>1, <2>2 DEF Once
<1>4. ToSet(s) \subseteq Conn
  BY <1>1 DEF ToSet
<1> QED
  BY <1>2, <1>3, <1>4

LEMMA SetOfIsFinite ==
  ASSUME NEW s, Once(s), NEW S, S \subseteq ToSet(s)
  PROVE  IsFiniteSet(S) /\ Cardinality(S) \in Nat
<1>1. s \in Seq(Conn) /\ DOMAIN s = 1..Len(s) /\ Len(s) \in Nat
  BY DEF Once
<1>2. s \in [1..Len(s) -> ToSet(s)]
  BY <1>1 DEF ToSet
<1>3. \A c \in ToSet(s) : \E i \in 1..Len(s) : s[i] = c
  BY <1>1 DEF ToSet
<1>4. s \in Surjection(1..Len(s), ToSet(s))
  BY <1>2, <1>3 DEF Surjection
<1>5. IsFiniteSet(1..Len(s))
  BY <1>1, FS_Interval
<1>6. IsFiniteSet(ToSet(s))
  BY <1>4, <1>5, FS_Surjection
<1> QED
  BY <1>6, FS_Subset, FS_CardinalityType

\* Some of them are not before any other.
LEMMA LastOf ==
  ASSUME NEW s, Once(s), NEW S, S \subseteq ToSet(s), S # {}
  PROVE  \E c \in S : \A d \in S \ {c} : Rank(s, d) < Rank(s, c)
<1>1. Len(s) \in Nat
  BY DEF Once
<1>2. PICK P : P = {n \in 0..Len(s) : \E c \in S : n = Len(s) - Rank(s, c)}
  OBVIOUS
<1>3. \A c \in S : Rank(s, c) \in 1..Len(s) /\ s[Rank(s, c)] = c
  BY RankOf
<1>4. P \subseteq Nat
  BY <1>1, <1>2
<1>5. P # {}
  <2>1. PICK c \in S : TRUE
    OBVIOUS
  <2>2. Len(s) - Rank(s, c) \in 0..Len(s)
    BY <1>1, <1>3, <2>1
  <2> QED
    BY <1>2, <2>1, <2>2
<1>6. PICK n \in P : \A i \in P : n <= i
  BY <1>4, <1>5, LeastOf
<1>7. PICK c \in S : n = Len(s) - Rank(s, c)
  BY <1>2, <1>6
<1>8. ASSUME NEW d \in S \ {c} PROVE Rank(s, d) < Rank(s, c)
  <2>1. Rank(s, d) \in 1..Len(s) /\ Rank(s, c) \in 1..Len(s) /\ Rank(s, d) # Rank(s, c)
    BY <1>3, <1>7, <1>8
  <2>2. Len(s) - Rank(s, d) \in 0..Len(s)
    BY <1>1, <2>1
  <2>3. n <= Len(s) - Rank(s, d)
    BY <1>2, <1>6, <1>8, <2>2
  <2> QED
    BY <1>1, <1>7, <2>1, <2>3
<1> QED
  BY <1>7, <1>8

\* Any of its elements are a list in the same order.
LEMMA OrderExists ==
  ASSUME NEW s, Once(s), NEW S, S \subseteq ToSet(s)
  PROVE  \E q \in [1..Cardinality(S) -> S] :
            ToSet(q) = S /\ \A i, j \in DOMAIN q : i < j => Rank(s, q[i]) < Rank(s, q[j])
<1> DEFINE Good(T, q) == /\ q \in [1..Cardinality(T) -> T] /\ ToSet(q) = T
                         /\ \A i, j \in DOMAIN q : i < j => Rank(s, q[i]) < Rank(s, q[j])
<1>1. PICK bad : bad = {n \in Nat : \E T \in SUBSET ToSet(s) : Cardinality(T) = n /\ ~\E q : Good(T, q)}
  OBVIOUS
<1>2. ASSUME bad # {} PROVE FALSE
  <2>1. bad \subseteq Nat
    BY <1>1
  <2>2. PICK n \in bad : \A i \in bad : n <= i
    BY <1>2, <2>1, LeastOf
  <2>3. PICK T \in SUBSET ToSet(s) : Cardinality(T) = n /\ ~\E q : Good(T, q)
    BY <1>1, <2>2
  <2>4. IsFiniteSet(T) /\ n \in Nat
    BY <2>1, <2>2, <2>3, SetOfIsFinite
  <2>5. CASE T = {}
    <3>1. Cardinality(T) = 0
      BY <2>5, FS_EmptySet
    <3>2. PICK e : e = [i \in 1..0 |-> i]
      OBVIOUS
    <3>3. DOMAIN e = {} /\ e \in [1..0 -> T]
      BY <3>2
    <3>4. ToSet(e) = {}
      BY <3>3 DEF ToSet
    <3>5. Good(T, e)
      BY <2>5, <3>1, <3>3, <3>4
    <3> QED
      BY <2>3, <3>5
  <2>6. CASE T # {}
    <3>1. PICK c \in T : \A d \in T \ {c} : Rank(s, d) < Rank(s, c)
      BY <2>3, <2>6, LastOf
    <3>2. IsFiniteSet(T \ {c}) /\ Cardinality(T \ {c}) = n - 1
      BY <2>3, <2>4, <3>1, FS_RemoveElement
    <3>3. n - 1 \in Nat
      BY <3>2, FS_CardinalityType
    <3>4. n - 1 \notin bad
      BY <2>2, <2>4, <3>3
    <3>5. T \ {c} \in SUBSET ToSet(s)
      BY <2>3
    <3>6. \E q : Good(T \ {c}, q)
      BY <1>1, <3>2, <3>3, <3>4, <3>5
    <3>7. PICK q : /\ q \in [1 .. n - 1 -> T \ {c}] /\ ToSet(q) = T \ {c}
                   /\ \A i, j \in DOMAIN q : i < j => Rank(s, q[i]) < Rank(s, q[j])
      BY <3>2, <3>6
    <3>8. PICK p : p = [i \in 1..n |-> IF i = n THEN c ELSE q[i]]
      OBVIOUS
    <3>9. p \in [1..n -> T] /\ DOMAIN p = 1..n /\ n \in 1..n /\ p[n] = c /\ \A i \in 1 .. n - 1 : p[i] = q[i] /\ i \in 1..n
      BY <2>4, <3>1, <3>3, <3>7, <3>8
    <3>10. ToSet(p) = T
      <4>1. ASSUME NEW d \in T PROVE d \in ToSet(p)
        <5>1. CASE d = c
          BY <3>9, <5>1 DEF ToSet
        <5>2. CASE d # c
          <6>1. PICK i \in DOMAIN q : q[i] = d
            BY <3>7, <4>1, <5>2 DEF ToSet
          <6>2. i \in 1 .. n - 1
            BY <3>7, <6>1
          <6> QED
            BY <3>9, <6>1, <6>2 DEF ToSet
        <5> QED
          BY <5>1, <5>2
      <4>2. ToSet(p) \subseteq T
        BY <3>9 DEF ToSet
      <4> QED
        BY <4>1, <4>2
    <3>11. ASSUME NEW i \in 1..n, NEW j \in 1..n, i < j
           PROVE  Rank(s, p[i]) < Rank(s, p[j])
      <4>1. i \in 1 .. n - 1
        BY <2>4, <3>11
      <4>2. CASE j = n
        BY <3>1, <3>7, <3>9, <4>1, <4>2
      <4>3. CASE j # n
        <5>1. j \in 1 .. n - 1
          BY <2>4, <3>11, <4>3
        <5> QED
          BY <3>7, <3>9, <3>11, <4>1, <5>1
      <4> QED
        BY <4>2, <4>3
    <3>12. Good(T, p)
      BY <2>3, <3>9, <3>10, <3>11
    <3> QED
      BY <2>3, <3>12
  <2> QED
    BY <2>5, <2>6
<1>3. Cardinality(S) \in Nat
  BY SetOfIsFinite
<1>4. \E q : Good(S, q)
  BY <1>1, <1>2, <1>3
<1> QED
  BY <1>4

\* l has some of the elements of s, in the same order.
Within(l, s) == /\ Once(l) /\ ToSet(l) \subseteq ToSet(s)
                /\ \A c, d \in ToSet(l) : Rank(l, c) < Rank(l, d) => Rank(s, c) < Rank(s, d)

LEMMA WithoutIs ==
  ASSUME NEW s, Once(s), NEW R
  PROVE  ToSet(Without(s, R)) = ToSet(s) \ R /\ Within(Without(s, R), s)
<1>1. PICK S : S = ToSet(s) \ R
  OBVIOUS
<1>2. PICK q : q = Without(s, R)
  OBVIOUS
<1>3. \E p \in [1..Cardinality(S) -> S] : IsLeft(p, s, R)
  <2>1. S \subseteq ToSet(s)
    BY <1>1
  <2>2. PICK p \in [1..Cardinality(S) -> S] :
          ToSet(p) = S /\ \A i, j \in DOMAIN p : i < j => Rank(s, p[i]) < Rank(s, p[j])
    BY <2>1, OrderExists
  <2> QED
    BY <1>1, <2>2 DEF IsLeft
<1>4. q \in [1..Cardinality(S) -> S] /\ IsLeft(q, s, R)
  BY <1>1, <1>2, <1>3 DEF Without
<1>5. Cardinality(S) \in Nat
  BY <1>1, SetOfIsFinite
<1>6. S \subseteq Conn
  BY <1>1, RankOf
<1>7. q \in Seq(Conn) /\ Len(q) = Cardinality(S) /\ DOMAIN q = 1..Len(q)
  BY <1>4, <1>5, <1>6
<1>8. \A i \in 1..Len(q) : q[i] \in ToSet(s) /\ Rank(s, q[i]) \in 1..Len(s)
  BY <1>1, <1>4, <1>7, RankOf
<1>9. Len(s) \in Nat /\ Len(q) \in Nat
  BY <1>5, <1>7 DEF Once
<1>10. \A i, j \in 1..Len(q) : i < j => Rank(s, q[i]) < Rank(s, q[j])
  BY <1>4, <1>7 DEF IsLeft
<1>11. Once(q)
  <2>1. ASSUME NEW i \in 1..Len(q), NEW j \in 1..Len(q), q[i] = q[j], i # j PROVE FALSE
    <3>1. i < j \/ j < i
      BY <1>9, <2>1
    <3>2. Rank(s, q[i]) < Rank(s, q[i])
      BY <1>10, <2>1, <3>1
    <3> QED
      BY <1>8, <1>9, <2>1, <3>2
  <2> QED
    BY <1>7, <2>1 DEF Once
<1>12. ASSUME NEW c \in ToSet(q), NEW d \in ToSet(q), Rank(q, c) < Rank(q, d)
       PROVE  Rank(s, c) < Rank(s, d)
  <2>1. /\ Rank(q, c) \in 1..Len(q) /\ q[Rank(q, c)] = c
        /\ Rank(q, d) \in 1..Len(q) /\ q[Rank(q, d)] = d
    BY <1>11, <1>12, RankOf
  <2> QED
    BY <1>10, <1>12, <2>1
<1> QED
  BY <1>2, <1>4, <1>11, <1>12 DEF IsLeft, Within

LEMMA WithinWithin ==
  ASSUME NEW l, NEW s, NEW t, Within(l, s), Within(s, t)
  PROVE  Within(l, t)
BY DEF Within

\* c is put before the others.
LEMMA PutFirst ==
  ASSUME NEW s, Once(s), NEW c \in Conn, c \notin ToSet(s)
  PROVE  LET l == <<c>> \o s
         IN  /\ Once(l) /\ ToSet(l) = ToSet(s) \cup {c} /\ Rank(l, c) = 1
             /\ \A d \in ToSet(s) : Rank(l, d) = Rank(s, d) + 1
<1>1. s \in Seq(Conn) /\ DOMAIN s = 1..Len(s) /\ Len(s) \in Nat
  BY DEF Once
<1>2. PICK l : l = <<c>> \o s
  OBVIOUS
<1>3. /\ l \in Seq(Conn) /\ Len(l) = Len(s) + 1 /\ DOMAIN l = 1..Len(l) /\ l[1] = c
      /\ \A i \in 1..Len(s) : l[i + 1] = s[i]
  BY <1>1, <1>2
<1>4. \A i \in 1..Len(s) : s[i] \in ToSet(s) /\ s[i] # c
  BY RankOf
<1>5. ASSUME NEW i \in 1..Len(l), NEW j \in 1..Len(l), l[i] = l[j] PROVE i = j
  <2>1. i = 1 \/ (i - 1 \in 1..Len(s) /\ l[i] = s[i - 1])
    BY <1>1, <1>3
  <2>2. j = 1 \/ (j - 1 \in 1..Len(s) /\ l[j] = s[j - 1])
    BY <1>1, <1>3
  <2> QED
    BY <1>1, <1>3, <1>4, <1>5, <2>1, <2>2 DEF Once
<1>6. Once(l)
  BY <1>3, <1>5 DEF Once
<1>7. 1 \in 1..Len(l)
  BY <1>1, <1>3
<1>8. Rank(l, c) = 1
  BY <1>3, <1>6, <1>7, RankOf
<1>9. ASSUME NEW d \in ToSet(s) PROVE d \in ToSet(l) /\ Rank(l, d) = Rank(s, d) + 1
  <2>1. Rank(s, d) \in 1..Len(s) /\ s[Rank(s, d)] = d
    BY <1>9, RankOf
  <2>2. Rank(s, d) + 1 \in 1..Len(l) /\ l[Rank(s, d) + 1] = d
    BY <1>1, <1>3, <2>1
  <2> QED
    BY <1>6, <2>2, RankOf
<1>10. ASSUME NEW d \in ToSet(l) PROVE d = c \/ d \in ToSet(s)
  <2>1. PICK i \in 1..Len(l) : l[i] = d
    BY <1>3, <1>10 DEF ToSet
  <2>2. i = 1 \/ (i - 1 \in 1..Len(s) /\ l[i] = s[i - 1])
    BY <1>1, <1>3
  <2> QED
    BY <1>3, <1>4, <2>1, <2>2
<1>11. c \in ToSet(l)
  BY <1>3, <1>7 DEF ToSet
<1> QED
  BY <1>2, <1>6, <1>8, <1>9, <1>10, <1>11

(***************************************************************************)
(* The invariant                                                           *)
(***************************************************************************)
CacheStates ==
  [hash : [Server -> Conn \cup {NoConn}], lru : Seq(Conn), free : Int,
   st : [Conn -> {"none", "live", "freed"}], key : [Conn -> Server], acquired : [Conn -> Int],
   cached : [Conn -> BOOLEAN]]

\* The table and the list have the same connections, each by its own key.
Table(k) == /\ \A c \in Conn : k.cached[c] <=> c \in ToSet(k.lru)
            /\ \A c \in ToSet(k.lru) : k.hash[k.key[c]] = c
            /\ \A s \in Server : k.hash[s] # NoConn => k.hash[s] \in ToSet(k.lru) /\ k.key[k.hash[s]] = s

\* References h of the program.
Referred(k, h) == \A c \in Conn : /\ k.st[c] = "live" => h[c] = k.acquired[c]
                                  /\ k.st[c] = "live" <=> h[c] > 0 \/ k.cached[c]

Consistent(k, h) == /\ k \in CacheStates /\ h \in [Conn -> Nat] /\ Once(k.lru)
                    /\ k.free = Cardinality(Idle(k))
                    /\ Table(k) /\ Referred(k, h)

\* The list is in the order of use, and few are kept that nobody holds.
ConnCacheInv ==
  /\ over \in {"no", "terminated"}
  /\ over = "no" => /\ Consistent(cache, held) /\ cache.free <= NumCache
                    /\ Once(uses) /\ Within(cache.lru, uses)

\* The references h, but n to c.
SetTo(h, c, n) == [h EXCEPT ![c] = n]

LEMMA SetToIs ==
  ASSUME NEW h \in [Conn -> Nat], NEW c \in Conn, NEW n \in Nat
  PROVE  /\ SetTo(h, c, n) \in [Conn -> Nat] /\ SetTo(h, c, n)[c] = n
         /\ \A d \in Conn \ {c} : SetTo(h, c, n)[d] = h[d]
BY DEF SetTo

LEMMA IdleFinite ==
  ASSUME NEW k, Once(k.lru)
  PROVE  IsFiniteSet(Idle(k)) /\ Cardinality(Idle(k)) \in Nat
<1>1. Idle(k) \subseteq ToSet(k.lru)
  BY DEF Idle
<1> QED
  BY <1>1, SetOfIsFinite

LEMMA UnheldIsIdle ==
  ASSUME NEW k, NEW h, Consistent(k, h)
  PROVE  Unheld(k) = Idle(k)
<1>1. ASSUME NEW c \in ToSet(k.lru) PROVE k.acquired[c] <= 0 <=> k.acquired[c] = 0
  <2>1. c \in Conn
    BY <1>1, RankOf DEF Consistent
  <2>2. k.st[c] = "live"
    BY <1>1, <2>1 DEF Consistent, Table, Referred
  <2>3. k.acquired[c] \in Nat
    BY <2>1, <2>2 DEF Consistent, Referred
  <2> QED
    BY <2>3
<1> QED
  BY <1>1 DEF Unheld, Idle

(***************************************************************************)
(* A connection that is not in the cache                                   *)
(***************************************************************************)
LEMMA EnterKeeps ==
  ASSUME NEW k, NEW h, Consistent(k, h), NEW c \in Conn, k.st[c] # "live", NEW s \in Server
  PROVE  LET e == Enter(k, c, s)
         IN  /\ Consistent(e, SetTo(h, c, 1)) /\ e.lru = k.lru /\ e.hash = k.hash
             /\ e.free = k.free /\ ~e.cached[c] /\ e.key[c] = s /\ h[c] = 0 /\ c \notin ToSet(k.lru)
<1>1. PICK e : e = Enter(k, c, s)
  OBVIOUS
<1>2. PICK g : g = SetTo(h, c, 1)
  OBVIOUS
<1>3. k \in CacheStates /\ h \in [Conn -> Nat]
  BY DEF Consistent
<1>4. ~k.cached[c] /\ c \notin ToSet(k.lru) /\ h[c] = 0
  BY <1>3 DEF Consistent, Referred, Table
<1>5. /\ e \in CacheStates /\ e.lru = k.lru /\ e.hash = k.hash /\ e.free = k.free /\ e.cached = k.cached
      /\ e.st[c] = "live" /\ e.key[c] = s /\ e.acquired[c] = 1
      /\ \A d \in Conn \ {c} : e.st[d] = k.st[d] /\ e.key[d] = k.key[d] /\ e.acquired[d] = k.acquired[d]
  <2>1. PICK st, key, acquired : /\ st = [k.st EXCEPT ![c] = "live"] /\ key = [k.key EXCEPT ![c] = s]
                                 /\ acquired = [k.acquired EXCEPT ![c] = 1]
    OBVIOUS
  <2>2. /\ st \in [Conn -> {"none", "live", "freed"}] /\ st[c] = "live"
        /\ \A d \in Conn \ {c} : st[d] = k.st[d]
    BY <1>3, <2>1 DEF CacheStates
  <2>3. key \in [Conn -> Server] /\ key[c] = s /\ \A d \in Conn \ {c} : key[d] = k.key[d]
    BY <1>3, <2>1 DEF CacheStates
  <2>4. /\ acquired \in [Conn -> Int] /\ acquired[c] = 1
        /\ \A d \in Conn \ {c} : acquired[d] = k.acquired[d]
    BY <1>3, <2>1 DEF CacheStates
  <2>5. e = [k EXCEPT !.st = st, !.key = key, !.acquired = acquired]
    BY <1>1, <1>3, <2>1 DEF Enter, CacheStates
  <2>6. /\ e \in CacheStates /\ e.lru = k.lru /\ e.hash = k.hash /\ e.free = k.free /\ e.cached = k.cached
        /\ e.st = st /\ e.key = key /\ e.acquired = acquired
    BY <1>3, <2>2, <2>3, <2>4, <2>5 DEF CacheStates
  <2> QED
    BY <2>2, <2>3, <2>4, <2>6
<1>6. g \in [Conn -> Nat] /\ g[c] = 1 /\ \A d \in Conn \ {c} : g[d] = h[d]
  BY <1>2, <1>3, SetToIs
<1>7. ToSet(k.lru) \subseteq Conn
  BY RankOf DEF Consistent
<1>8. Idle(e) = Idle(k)
  BY <1>4, <1>5, <1>7 DEF Idle
<1>9. Table(e)
  <2>1. \A d \in ToSet(k.lru) : d \in Conn \ {c} /\ e.key[d] = k.key[d] /\ k.hash[k.key[d]] = d
    BY <1>4, <1>5, <1>7 DEF Consistent, Table
  <2>2. \A d \in ToSet(e.lru) : e.hash[e.key[d]] = d
    BY <1>5, <2>1
  <2>3. \A t \in Server : k.hash[t] # NoConn => k.hash[t] \in ToSet(k.lru) /\ k.key[k.hash[t]] = t
    BY DEF Consistent, Table
  <2>4. \A t \in Server : e.hash[t] # NoConn => e.hash[t] \in ToSet(e.lru) /\ e.key[e.hash[t]] = t
    BY <1>5, <2>1, <2>3
  <2>5. \A d \in Conn : e.cached[d] <=> d \in ToSet(e.lru)
    BY <1>5 DEF Consistent, Table
  <2> QED
    BY <2>2, <2>4, <2>5 DEF Table
<1>10. Referred(e, g)
  <2>1. ASSUME NEW d \in Conn PROVE /\ e.st[d] = "live" => g[d] = e.acquired[d]
                                    /\ e.st[d] = "live" <=> g[d] > 0 \/ e.cached[d]
    <3>1. CASE d = c
      BY <1>5, <1>6, <3>1
    <3>2. CASE d # c
      BY <1>5, <1>6, <3>2 DEF Consistent, Referred
    <3> QED
      BY <3>1, <3>2
  <2> QED
    BY <2>1 DEF Referred
<1>11. Consistent(e, g)
  BY <1>5, <1>6, <1>8, <1>9, <1>10 DEF Consistent
<1> QED
  BY <1>1, <1>2, <1>4, <1>5, <1>11

\* It is put into the table and at the head of the list.
LEMMA HashKeeps ==
  ASSUME NEW k, NEW h, Consistent(k, h), NEW c \in Conn, h[c] > 0, ~k.cached[c],
         k.hash[k.key[c]] = NoConn
  PROVE  LET e == Hash(k, c)
         IN  Consistent(e, h) /\ e.lru = <<c>> \o k.lru /\ e.free = k.free /\ c \notin ToSet(k.lru)
<1>1. PICK e : e = Hash(k, c)
  OBVIOUS
<1>2. k \in CacheStates /\ h \in [Conn -> Nat] /\ Once(k.lru)
  BY DEF Consistent
<1>3. c \notin ToSet(k.lru) /\ k.st[c] = "live" /\ k.acquired[c] = h[c]
  BY <1>2 DEF Consistent, Table, Referred
<1>4. PICK t : t = k.key[c]
  OBVIOUS
<1>5. t \in Server
  BY <1>2, <1>4 DEF CacheStates
<1>6. PICK l : l = <<c>> \o k.lru
  OBVIOUS
<1>7. Once(l) /\ ToSet(l) = ToSet(k.lru) \cup {c}
  BY <1>2, <1>3, <1>6, PutFirst
<1>8. l \in Seq(Conn)
  BY <1>7 DEF Once
<1>9. e = [k EXCEPT !.lru = l, !.hash[t] = c, !.cached[c] = TRUE]
  BY <1>1, <1>2, <1>4, <1>6 DEF Hash, Link, CacheStates
<1>10. /\ e \in CacheStates /\ e.lru = l /\ e.free = k.free /\ e.st = k.st /\ e.key = k.key
       /\ e.acquired = k.acquired /\ e.cached[c] /\ e.hash[t] = c
       /\ \A d \in Conn \ {c} : e.cached[d] = k.cached[d]
       /\ \A s \in Server \ {t} : e.hash[s] = k.hash[s]
  BY <1>2, <1>5, <1>8, <1>9 DEF CacheStates
<1>11. ToSet(k.lru) \subseteq Conn /\ NoConn \notin Conn
  BY <1>2, RankOf, CacheAssumption
<1>12. Idle(e) = Idle(k)
  BY <1>2, <1>3, <1>7, <1>10 DEF Idle
<1>13. \A d \in ToSet(k.lru) : k.hash[k.key[d]] = d /\ k.key[d] # t /\ k.key[d] \in Server
  BY <1>2, <1>4, <1>11 DEF Consistent, Table, CacheStates
<1>14. \A d \in Conn : e.cached[d] <=> d \in ToSet(e.lru)
  BY <1>7, <1>10 DEF Consistent, Table
<1>15. \A d \in ToSet(e.lru) : e.hash[e.key[d]] = d
  BY <1>4, <1>7, <1>10, <1>13
<1>16. \A s \in Server : e.hash[s] # NoConn => e.hash[s] \in ToSet(e.lru) /\ e.key[e.hash[s]] = s
  BY <1>4, <1>7, <1>10 DEF Consistent, Table
<1>17. Referred(e, h)
  <2>1. ASSUME NEW d \in Conn PROVE /\ e.st[d] = "live" => h[d] = e.acquired[d]
                                    /\ e.st[d] = "live" <=> h[d] > 0 \/ e.cached[d]
    <3>1. CASE d = c
      BY <1>3, <1>10, <3>1
    <3>2. CASE d # c
      BY <1>10, <3>2 DEF Consistent, Referred
    <3> QED
      BY <3>1, <3>2
  <2> QED
    BY <2>1 DEF Referred
<1>18. Consistent(e, h)
  BY <1>2, <1>7, <1>10, <1>12, <1>14, <1>15, <1>16, <1>17 DEF Consistent, Table
<1> QED
  BY <1>1, <1>3, <1>6, <1>10, <1>18

\* A connection that is not in the cache goes.
LEMMA DisposeKeeps ==
  ASSUME NEW k, NEW h, Consistent(k, h), NEW c \in Conn, ~k.cached[c]
  PROVE  LET e == Dispose(k, c)
         IN  Consistent(e, SetTo(h, c, 0)) /\ e.lru = k.lru /\ e.free = k.free
<1>1. PICK e : e = Dispose(k, c)
  OBVIOUS
<1>2. PICK g : g = SetTo(h, c, 0)
  OBVIOUS
<1>3. k \in CacheStates /\ h \in [Conn -> Nat]
  BY DEF Consistent
<1>4. /\ e \in CacheStates /\ e.lru = k.lru /\ e.hash = k.hash /\ e.free = k.free /\ e.cached = k.cached
      /\ e.key = k.key /\ e.acquired = k.acquired
      /\ e.st[c] = "freed" /\ \A d \in Conn \ {c} : e.st[d] = k.st[d]
  BY <1>1, <1>3 DEF Dispose, CacheStates
<1>5. g \in [Conn -> Nat] /\ g[c] = 0 /\ \A d \in Conn \ {c} : g[d] = h[d]
  BY <1>2, <1>3, SetToIs
<1>6. Idle(e) = Idle(k) /\ Table(e)
  BY <1>4 DEF Idle, Consistent, Table
<1>7. Referred(e, g)
  <2>1. ASSUME NEW d \in Conn PROVE /\ e.st[d] = "live" => g[d] = e.acquired[d]
                                    /\ e.st[d] = "live" <=> g[d] > 0 \/ e.cached[d]
    <3>1. CASE d = c
      BY <1>4, <1>5, <3>1
    <3>2. CASE d # c
      BY <1>4, <1>5, <3>2 DEF Consistent, Referred
    <3> QED
      BY <3>1, <3>2
  <2> QED
    BY <2>1 DEF Referred
<1>8. Consistent(e, g)
  BY <1>4, <1>5, <1>6, <1>7 DEF Consistent
<1> QED
  BY <1>1, <1>2, <1>4, <1>8

(***************************************************************************)
(* A connection of the list                                                *)
(***************************************************************************)
LEMMA AccessKeeps ==
  ASSUME NEW k, NEW h, Consistent(k, h), NEW c \in ToSet(k.lru)
  PROVE  LET e == Access(k, c)
         IN  /\ Consistent(e, h) /\ e.lru = <<c>> \o Without(k.lru, {c}) /\ e.free = k.free
             /\ e.acquired = k.acquired /\ ToSet(e.lru) = ToSet(k.lru)
<1>1. PICK e : e = Access(k, c)
  OBVIOUS
<1>2. k \in CacheStates /\ Once(k.lru) /\ c \in Conn
  BY RankOf DEF Consistent
<1>3. PICK w : w = Without(k.lru, {c})
  OBVIOUS
<1>4. Once(w) /\ ToSet(w) = ToSet(k.lru) \ {c}
  BY <1>2, <1>3, WithoutIs DEF Within
<1>5. PICK l : l = <<c>> \o w
  OBVIOUS
<1>6. Once(l) /\ ToSet(l) = ToSet(k.lru)
  <2>1. c \notin ToSet(w)
    BY <1>4
  <2>2. Once(l) /\ ToSet(l) = ToSet(w) \cup {c}
    BY <1>2, <1>4, <1>5, <2>1, PutFirst
  <2> QED
    BY <1>4, <2>2
<1>7. l \in Seq(Conn)
  BY <1>6 DEF Once
<1>8. e = [k EXCEPT !.lru = l]
  BY <1>1, <1>2, <1>3, <1>5 DEF Access, Link, Unlink, CacheStates
<1>9. /\ e \in CacheStates /\ e.lru = l /\ e.hash = k.hash /\ e.free = k.free /\ e.cached = k.cached
      /\ e.key = k.key /\ e.acquired = k.acquired /\ e.st = k.st
  BY <1>2, <1>7, <1>8 DEF CacheStates
<1>10. Idle(e) = Idle(k) /\ Table(e) /\ Referred(e, h)
  BY <1>6, <1>9 DEF Idle, Consistent, Table, Referred
<1>11. Consistent(e, h)
  BY <1>6, <1>9, <1>10 DEF Consistent
<1> QED
  BY <1>1, <1>3, <1>5, <1>6, <1>9, <1>11

\* One more reference.
LEMMA AddrefKeeps ==
  ASSUME NEW k, NEW h, Consistent(k, h), NEW c \in ToSet(k.lru)
  PROVE  LET e == Addref(k, c)
         IN  /\ Consistent(e, SetTo(h, c, h[c] + 1)) /\ e.lru = <<c>> \o Without(k.lru, {c})
             /\ e.free <= k.free
<1>1. PICK j : j = [k EXCEPT !.acquired[c] = @ + 1,
                             !.free = IF k.acquired[c] = 0 THEN @ - 1 ELSE @]
  OBVIOUS
<1>2. PICK g : g = SetTo(h, c, h[c] + 1)
  OBVIOUS
<1>3. k \in CacheStates /\ h \in [Conn -> Nat] /\ Once(k.lru) /\ c \in Conn
  BY RankOf DEF Consistent
<1>4. /\ j \in CacheStates /\ j.lru = k.lru /\ j.hash = k.hash /\ j.cached = k.cached /\ j.key = k.key
      /\ j.st = k.st /\ j.acquired[c] = k.acquired[c] + 1
      /\ \A d \in Conn \ {c} : j.acquired[d] = k.acquired[d]
      /\ j.free = IF k.acquired[c] = 0 THEN k.free - 1 ELSE k.free
  <2>1. PICK acquired, free : /\ acquired = [k.acquired EXCEPT ![c] = @ + 1]
                              /\ free = IF k.acquired[c] = 0 THEN k.free - 1 ELSE k.free
    OBVIOUS
  <2>2. /\ acquired \in [Conn -> Int] /\ acquired[c] = k.acquired[c] + 1
        /\ \A d \in Conn \ {c} : acquired[d] = k.acquired[d]
    BY <1>3, <2>1 DEF CacheStates
  <2>3. free \in Int
    BY <1>3, <2>1 DEF CacheStates
  <2>4. j = [k EXCEPT !.acquired = acquired, !.free = free]
    BY <1>1, <1>3, <2>1 DEF CacheStates
  <2>5. /\ j \in CacheStates /\ j.lru = k.lru /\ j.hash = k.hash /\ j.cached = k.cached /\ j.key = k.key
        /\ j.st = k.st /\ j.acquired = acquired /\ j.free = free
    BY <1>3, <2>2, <2>3, <2>4 DEF CacheStates
  <2> QED
    BY <2>1, <2>2, <2>5
<1>5. g \in [Conn -> Nat] /\ g[c] = h[c] + 1 /\ \A d \in Conn \ {c} : g[d] = h[d]
  <2>1. h[c] + 1 \in Nat
    BY <1>3
  <2> QED
    BY <1>2, <1>3, <2>1, SetToIs
<1>6. k.cached[c] /\ k.st[c] = "live" /\ k.acquired[c] = h[c] /\ h[c] \in Nat
  BY <1>3 DEF Consistent, Table, Referred
<1>7. ToSet(k.lru) \subseteq Conn
  BY <1>3, RankOf
<1>8. IsFiniteSet(Idle(k)) /\ Cardinality(Idle(k)) \in Nat /\ k.free = Cardinality(Idle(k))
  BY <1>3, IdleFinite DEF Consistent
<1>9. j.free = Cardinality(Idle(j)) /\ j.free <= k.free
  <2>1. CASE k.acquired[c] = 0
    <3>1. Idle(j) = Idle(k) \ {c} /\ c \in Idle(k)
      BY <1>4, <1>7, <2>1 DEF Idle
    <3>2. Cardinality(Idle(j)) = Cardinality(Idle(k)) - 1
      BY <1>8, <3>1, FS_RemoveElement
    <3> QED
      BY <1>4, <1>8, <2>1, <3>2
  <2>2. CASE k.acquired[c] # 0
    <3>1. Idle(j) = Idle(k)
      BY <1>4, <1>6, <1>7, <2>2 DEF Idle
    <3> QED
      BY <1>4, <1>8, <2>2, <3>1
  <2> QED
    BY <2>1, <2>2
<1>10. Table(j)
  BY <1>4 DEF Consistent, Table
<1>11. Referred(j, g)
  <2>1. ASSUME NEW d \in Conn PROVE /\ j.st[d] = "live" => g[d] = j.acquired[d]
                                    /\ j.st[d] = "live" <=> g[d] > 0 \/ j.cached[d]
    <3>1. CASE d = c
      BY <1>4, <1>5, <1>6, <3>1
    <3>2. CASE d # c
      BY <1>4, <1>5, <3>2 DEF Consistent, Referred
    <3> QED
      BY <3>1, <3>2
  <2> QED
    BY <2>1 DEF Referred
<1>12. Consistent(j, g)
  BY <1>3, <1>4, <1>5, <1>9, <1>10, <1>11 DEF Consistent
<1>13. Addref(k, c) = Access(j, c)
  BY <1>1 DEF Addref
<1>14. c \in ToSet(j.lru)
  BY <1>4
<1>15. PICK e : e = Access(j, c)
  OBVIOUS
<1>16. Consistent(e, g) /\ e.lru = <<c>> \o Without(j.lru, {c}) /\ e.free = j.free
  BY <1>12, <1>14, <1>15, AccessKeeps
<1> QED
  BY <1>2, <1>4, <1>9, <1>13, <1>15, <1>16

\* One reference less, of a connection that stays.
LEMMA DelrefKeeps ==
  ASSUME NEW k, NEW h, Consistent(k, h), NEW c \in Conn, h[c] > 0, h[c] > 1 \/ k.cached[c]
  PROVE  LET e == Delref(k, c)
         IN  /\ Consistent(e, SetTo(h, c, h[c] - 1)) /\ e.lru = k.lru
             /\ e.acquired[c] = h[c] - 1 /\ e.cached = k.cached
             /\ e.free = IF h[c] = 1 THEN k.free + 1 ELSE k.free
<1>1. PICK e : e = Delref(k, c)
  OBVIOUS
<1>2. PICK g : g = SetTo(h, c, h[c] - 1)
  OBVIOUS
<1>3. k \in CacheStates /\ h \in [Conn -> Nat] /\ Once(k.lru)
  BY DEF Consistent
<1>4. k.st[c] = "live" /\ k.acquired[c] = h[c] /\ h[c] \in Nat
  BY <1>3 DEF Consistent, Referred
<1>5. c \in ToSet(k.lru) <=> k.cached[c]
  BY DEF Consistent, Table
<1>6. /\ e \in CacheStates /\ e.lru = k.lru /\ e.hash = k.hash /\ e.cached = k.cached /\ e.key = k.key
      /\ e.st = k.st /\ e.acquired[c] = h[c] - 1
      /\ \A d \in Conn \ {c} : e.acquired[d] = k.acquired[d]
      /\ e.free = IF h[c] = 1 THEN k.free + 1 ELSE k.free
  <2>1. h[c] - 1 = 0 /\ c \in ToSet(k.lru) <=> h[c] = 1
    BY <1>4, <1>5
  <2>2. PICK acquired, free : /\ acquired = [k.acquired EXCEPT ![c] = h[c] - 1]
                              /\ free = IF h[c] = 1 THEN k.free + 1 ELSE k.free
    OBVIOUS
  <2>3. /\ acquired \in [Conn -> Int] /\ acquired[c] = h[c] - 1
        /\ \A d \in Conn \ {c} : acquired[d] = k.acquired[d]
    BY <1>3, <1>4, <2>2 DEF CacheStates
  <2>4. free \in Int
    BY <1>3, <1>4, <2>2 DEF CacheStates
  <2>5. e = [k EXCEPT !.acquired = acquired, !.free = free]
    BY <1>1, <1>3, <1>4, <2>1, <2>2 DEF CacheStates, Delref
  <2>6. /\ e \in CacheStates /\ e.lru = k.lru /\ e.hash = k.hash /\ e.cached = k.cached /\ e.key = k.key
        /\ e.st = k.st /\ e.acquired = acquired /\ e.free = free
    BY <1>3, <1>4, <2>3, <2>4, <2>5 DEF CacheStates
  <2> QED
    BY <2>2, <2>3, <2>6
<1>7. g \in [Conn -> Nat] /\ g[c] = h[c] - 1 /\ \A d \in Conn \ {c} : g[d] = h[d]
  <2>1. h[c] - 1 \in Nat
    BY <1>4
  <2> QED
    BY <1>2, <1>3, <2>1, SetToIs
<1>8. ToSet(k.lru) \subseteq Conn
  BY <1>3, RankOf
<1>9. IsFiniteSet(Idle(k)) /\ Cardinality(Idle(k)) \in Nat /\ k.free = Cardinality(Idle(k))
  BY <1>3, IdleFinite DEF Consistent
<1>10. e.free = Cardinality(Idle(e))
  <2>1. CASE h[c] = 1
    <3>1. Idle(e) = Idle(k) \cup {c} /\ c \notin Idle(k)
      BY <1>4, <1>5, <1>6, <1>8, <2>1 DEF Idle
    <3>2. Cardinality(Idle(e)) = Cardinality(Idle(k)) + 1
      BY <1>9, <3>1, FS_AddElement
    <3> QED
      BY <1>6, <1>9, <2>1, <3>2
  <2>2. CASE h[c] # 1
    <3>1. Idle(e) = Idle(k)
      BY <1>4, <1>6, <1>8, <2>2 DEF Idle
    <3> QED
      BY <1>6, <1>9, <2>2, <3>1
  <2> QED
    BY <2>1, <2>2
<1>11. Table(e)
  BY <1>6 DEF Consistent, Table
<1>12. Referred(e, g)
  <2>1. ASSUME NEW d \in Conn PROVE /\ e.st[d] = "live" => g[d] = e.acquired[d]
                                    /\ e.st[d] = "live" <=> g[d] > 0 \/ e.cached[d]
    <3>1. CASE d = c
      BY <1>4, <1>6, <1>7, <3>1
    <3>2. CASE d # c
      BY <1>6, <1>7, <3>2 DEF Consistent, Referred
    <3> QED
      BY <3>1, <3>2
  <2> QED
    BY <2>1 DEF Referred
<1>13. Consistent(e, g)
  BY <1>3, <1>6, <1>7, <1>10, <1>11, <1>12 DEF Consistent
<1> QED
  BY <1>1, <1>2, <1>6, <1>13

\* A connection outside of the cache that nobody holds any more goes.
LEMMA LastReference ==
  ASSUME NEW k, NEW h, Consistent(k, h), NEW c \in Conn, h[c] = 1, ~k.cached[c]
  PROVE  LET e == Dispose(Delref(k, c), c)
         IN  /\ Consistent(e, SetTo(h, c, h[c] - 1)) /\ e.lru = k.lru /\ e.free = k.free
             /\ Delref(k, c).acquired[c] = 0 /\ Delref(k, c).cached = k.cached
<1>1. PICK j : j = Delref(k, c)
  OBVIOUS
<1>2. PICK e : e = Dispose(j, c)
  OBVIOUS
<1>3. PICK g : g = SetTo(h, c, h[c] - 1)
  OBVIOUS
<1>4. k \in CacheStates /\ h \in [Conn -> Nat] /\ Once(k.lru)
  BY DEF Consistent
<1>5. k.st[c] = "live" /\ k.acquired[c] = 1 /\ c \notin ToSet(k.lru)
  BY <1>4 DEF Consistent, Referred, Table
<1>6. /\ j \in CacheStates /\ j.lru = k.lru /\ j.hash = k.hash /\ j.cached = k.cached /\ j.key = k.key
      /\ j.st = k.st /\ j.acquired[c] = 0 /\ j.free = k.free
      /\ \A d \in Conn \ {c} : j.acquired[d] = k.acquired[d]
  <2>1. PICK acquired, free : /\ acquired = [k.acquired EXCEPT ![c] = 0]
                              /\ free = k.free
    OBVIOUS
  <2>2. /\ acquired \in [Conn -> Int] /\ acquired[c] = 0
        /\ \A d \in Conn \ {c} : acquired[d] = k.acquired[d]
    BY <1>4, <2>1 DEF CacheStates
  <2>3. free \in Int
    BY <1>4, <2>1 DEF CacheStates
  <2>4. j = [k EXCEPT !.acquired = acquired, !.free = free]
    BY <1>1, <1>4, <1>5, <2>1 DEF CacheStates, Delref
  <2>5. /\ j \in CacheStates /\ j.lru = k.lru /\ j.hash = k.hash /\ j.cached = k.cached /\ j.key = k.key
        /\ j.st = k.st /\ j.acquired = acquired /\ j.free = free
    BY <1>4, <2>2, <2>3, <2>4 DEF CacheStates
  <2> QED
    BY <2>1, <2>2, <2>5
<1>7. /\ e \in CacheStates /\ e.lru = j.lru /\ e.hash = j.hash /\ e.cached = j.cached /\ e.key = j.key
      /\ e.acquired = j.acquired /\ e.free = j.free
      /\ e.st[c] = "freed" /\ \A d \in Conn \ {c} : e.st[d] = j.st[d]
  BY <1>2, <1>6 DEF CacheStates, Dispose
<1>8. g \in [Conn -> Nat] /\ g[c] = 0 /\ \A d \in Conn \ {c} : g[d] = h[d]
  <2>1. h[c] - 1 = 0
    OBVIOUS
  <2> QED
    BY <1>3, <1>4, <2>1, SetToIs
<1>9. ToSet(k.lru) \subseteq Conn
  BY <1>4, RankOf
<1>10. Idle(e) = Idle(k)
  BY <1>5, <1>6, <1>7, <1>9 DEF Idle
<1>11. Table(e)
  BY <1>6, <1>7 DEF Consistent, Table
<1>12. Referred(e, g)
  <2>1. ASSUME NEW d \in Conn PROVE /\ e.st[d] = "live" => g[d] = e.acquired[d]
                                    /\ e.st[d] = "live" <=> g[d] > 0 \/ e.cached[d]
    <3>1. CASE d = c
      BY <1>6, <1>7, <1>8, <3>1
    <3>2. CASE d # c
      BY <1>6, <1>7, <1>8, <3>2 DEF Consistent, Referred
    <3> QED
      BY <3>1, <3>2
  <2> QED
    BY <2>1 DEF Referred
<1>13. Consistent(e, g)
  BY <1>4, <1>6, <1>7, <1>8, <1>10, <1>11, <1>12 DEF Consistent
<1> QED
  BY <1>1, <1>2, <1>3, <1>6, <1>7, <1>13

\* It is taken out of the table and the list while it is held.
LEMMA PurgeKeeps ==
  ASSUME NEW k, NEW h, Consistent(k, h), NEW c \in Conn, h[c] > 0
  PROVE  LET e == PurgeFromCache(k, c)
         IN  /\ Consistent(e, h) /\ Within(e.lru, k.lru) /\ e.free = k.free /\ ~e.cached[c]
             /\ c \notin ToSet(e.lru)
<1>1. k \in CacheStates /\ h \in [Conn -> Nat] /\ Once(k.lru)
  BY DEF Consistent
<1>2. CASE ~k.cached[c]
  <2>1. PurgeFromCache(k, c) = k
    BY <1>2 DEF PurgeFromCache
  <2>2. Within(k.lru, k.lru)
    BY <1>1 DEF Within
  <2>3. c \notin ToSet(k.lru)
    BY <1>2 DEF Consistent, Table
  <2> QED
    BY <1>2, <2>1, <2>2, <2>3
<1>3. CASE k.cached[c]
  <2>1. PICK e : e = PurgeFromCache(k, c)
    OBVIOUS
  <2>2. PICK w : w = Without(k.lru, {c})
    OBVIOUS
  <2>3. ToSet(w) = ToSet(k.lru) \ {c} /\ Within(w, k.lru) /\ Once(w) /\ w \in Seq(Conn)
    BY <1>1, <2>2, WithoutIs DEF Within, Once
  <2>4. PICK t : t = k.key[c]
    OBVIOUS
  <2>5. t \in Server
    BY <1>1, <2>4 DEF CacheStates
  <2>6. e = [k EXCEPT !.lru = w, !.hash[t] = NoConn, !.cached[c] = FALSE]
    BY <1>1, <1>3, <2>1, <2>2, <2>4 DEF PurgeFromCache, Unhash, Unlink, CacheStates
  <2>7. /\ e \in CacheStates /\ e.lru = w /\ e.free = k.free /\ e.st = k.st /\ e.key = k.key
        /\ e.acquired = k.acquired /\ ~e.cached[c] /\ e.hash[t] = NoConn
        /\ \A d \in Conn \ {c} : e.cached[d] = k.cached[d]
        /\ \A s \in Server \ {t} : e.hash[s] = k.hash[s]
    BY <1>1, <2>3, <2>5, <2>6 DEF CacheStates
  <2>8. ToSet(k.lru) \subseteq Conn /\ c \in ToSet(k.lru)
    BY <1>1, <1>3, RankOf DEF Consistent, Table
  <2>9. k.acquired[c] # 0
    BY <1>1, <1>3 DEF Consistent, Referred
  <2>10. Idle(e) = Idle(k)
    BY <2>3, <2>7, <2>9 DEF Idle
  <2>11. k.hash[t] = c
    BY <2>4, <2>8 DEF Consistent, Table
  <2>12. \A d \in ToSet(k.lru) : k.hash[k.key[d]] = d /\ k.key[d] \in Server
    BY <1>1, <2>8 DEF Consistent, Table, CacheStates
  <2>13. \A d \in ToSet(e.lru) : d \in ToSet(k.lru) /\ d # c /\ e.hash[e.key[d]] = d
    BY <2>3, <2>7, <2>11, <2>12
  <2>14. \A d \in Conn : e.cached[d] <=> d \in ToSet(e.lru)
    BY <2>3, <2>7 DEF Consistent, Table
  <2>15. ASSUME NEW s \in Server, e.hash[s] # NoConn
         PROVE  e.hash[s] \in ToSet(e.lru) /\ e.key[e.hash[s]] = s
    <3>1. s # t /\ e.hash[s] = k.hash[s]
      BY <2>7, <2>15
    <3>2. k.hash[s] \in ToSet(k.lru) /\ k.key[k.hash[s]] = s
      BY <2>15, <3>1 DEF Consistent, Table
    <3> QED
      BY <2>3, <2>4, <2>7, <3>1, <3>2
  <2>16. Referred(e, h)
    <3>1. ASSUME NEW d \in Conn PROVE /\ e.st[d] = "live" => h[d] = e.acquired[d]
                                      /\ e.st[d] = "live" <=> h[d] > 0 \/ e.cached[d]
      <4>1. CASE d = c
        BY <1>3, <2>7, <4>1 DEF Consistent, Referred
      <4>2. CASE d # c
        BY <2>7, <4>2 DEF Consistent, Referred
      <4> QED
        BY <4>1, <4>2
    <3> QED
      BY <3>1 DEF Referred
  <2>17. Consistent(e, h)
    BY <1>1, <2>3, <2>7, <2>10, <2>13, <2>14, <2>15, <2>16 DEF Consistent, Table
  <2> QED
    BY <2>1, <2>3, <2>7, <2>17
<1> QED
  BY <1>2, <1>3

(***************************************************************************)
(* gc                                                                      *)
(***************************************************************************)
\* Connections that nobody holds go.
LEMMA DropKeeps ==
  ASSUME NEW k, NEW h, Consistent(k, h), NEW G, G \subseteq Idle(k), NEW n, n = Cardinality(G)
  PROVE  LET e == [Drop(k, G) EXCEPT !.free = @ - n]
         IN  /\ Consistent(e, h) /\ Within(e.lru, k.lru) /\ ToSet(e.lru) = ToSet(k.lru) \ G
             /\ e.free = k.free - n /\ Idle(e) = Idle(k) \ G
<1>1. PICK e : e = [Drop(k, G) EXCEPT !.free = @ - n]
  OBVIOUS
<1>2. k \in CacheStates /\ h \in [Conn -> Nat] /\ Once(k.lru)
  BY DEF Consistent
<1>3. ToSet(k.lru) \subseteq Conn /\ NoConn \notin Conn
  BY <1>2, RankOf, CacheAssumption
<1>4. G \subseteq ToSet(k.lru) /\ \A c \in G : c \in Conn /\ k.acquired[c] = 0
  BY <1>3 DEF Idle
<1>5. IsFiniteSet(G) /\ n \in Nat
  BY <1>2, <1>4, SetOfIsFinite
<1>6. PICK w : w = Without(k.lru, G)
  OBVIOUS
<1>7. ToSet(w) = ToSet(k.lru) \ G /\ Within(w, k.lru) /\ Once(w) /\ w \in Seq(Conn)
  BY <1>2, <1>6, WithoutIs DEF Within, Once
<1>8. /\ e \in CacheStates /\ e.lru = w /\ e.free = k.free - n /\ e.key = k.key /\ e.acquired = k.acquired
      /\ \A c \in Conn : /\ e.cached[c] <=> k.cached[c] /\ c \notin G
                         /\ e.st[c] = IF c \in G THEN "freed" ELSE k.st[c]
      /\ \A s \in Server : e.hash[s] = IF \E c \in G : k.key[c] = s THEN NoConn ELSE k.hash[s]
  <2>1. PICK hash : hash = [s \in Server |-> IF \E c \in G : k.key[c] = s THEN NoConn ELSE k.hash[s]]
    OBVIOUS
  <2>2. PICK cached : cached = [c \in Conn |-> k.cached[c] /\ c \notin G]
    OBVIOUS
  <2>3. PICK st : st = [c \in Conn |-> IF c \in G THEN "freed" ELSE k.st[c]]
    OBVIOUS
  <2>4. hash \in [Server -> Conn \cup {NoConn}]
    BY <1>2, <2>1 DEF CacheStates
  <2>5. cached \in [Conn -> BOOLEAN]
    BY <2>2
  <2>6. st \in [Conn -> {"none", "live", "freed"}]
    BY <1>2, <2>3 DEF CacheStates
  <2>7. PICK j : j = [k EXCEPT !.lru = w, !.hash = hash, !.cached = cached]
    OBVIOUS
  <2>7a. /\ j \in CacheStates /\ j.lru = w /\ j.free = k.free /\ j.key = k.key /\ j.acquired = k.acquired
         /\ j.cached = cached /\ j.st = k.st /\ j.hash = hash
    BY <1>2, <1>7, <2>4, <2>5, <2>7 DEF CacheStates
  <2>7b. PICK free : free = k.free - n
    OBVIOUS
  <2>7c. free \in Int
    BY <1>2, <1>5, <2>7b DEF CacheStates
  <2>7d. e = [j EXCEPT !.st = st, !.free = free]
    BY <1>1, <1>2, <1>6, <2>1, <2>2, <2>3, <2>7, <2>7b DEF Drop, CacheStates
  <2>8. /\ e \in CacheStates /\ e.lru = w /\ e.free = k.free - n /\ e.key = k.key /\ e.acquired = k.acquired
        /\ e.cached = cached /\ e.st = st /\ e.hash = hash
    BY <2>6, <2>7a, <2>7b, <2>7c, <2>7d DEF CacheStates
  <2>9. \A c \in Conn : /\ cached[c] <=> k.cached[c] /\ c \notin G
                        /\ st[c] = IF c \in G THEN "freed" ELSE k.st[c]
    BY <2>2, <2>3
  <2>10. \A s \in Server : hash[s] = IF \E c \in G : k.key[c] = s THEN NoConn ELSE k.hash[s]
    BY <2>1
  <2> QED
    BY <2>8, <2>9, <2>10
<1>9. Idle(e) = Idle(k) \ G
  BY <1>7, <1>8 DEF Idle
<1>10. e.free = Cardinality(Idle(e))
  <2>1. IsFiniteSet(Idle(k)) /\ Cardinality(Idle(k)) \in Nat /\ k.free = Cardinality(Idle(k))
    BY <1>2, IdleFinite DEF Consistent
  <2>2. PICK I : I = Idle(k)
    OBVIOUS
  <2>2a. I \cap G = G
    BY <2>2
  <2>2b. Cardinality(I \ G) = Cardinality(I) - Cardinality(I \cap G)
    BY <2>1, <2>2, FS_Difference
  <2>3. Cardinality(Idle(k) \ G) = Cardinality(Idle(k)) - n
    BY <2>2, <2>2a, <2>2b
  <2> QED
    BY <1>8, <1>9, <2>1, <2>3
<1>11. \A d \in ToSet(k.lru) : k.hash[k.key[d]] = d /\ k.key[d] \in Server
  BY <1>2, <1>3 DEF Consistent, Table, CacheStates
<1>12. \A d \in Conn : e.cached[d] <=> d \in ToSet(e.lru)
  BY <1>7, <1>8 DEF Consistent, Table
<1>13. ASSUME NEW d \in ToSet(e.lru) PROVE e.hash[e.key[d]] = d
  <2>1. d \in ToSet(k.lru) /\ d \notin G
    BY <1>7, <1>8, <1>13
  <2>2. ~\E c \in G : k.key[c] = k.key[d]
    BY <1>4, <1>11, <2>1
  <2> QED
    BY <1>8, <1>11, <2>1, <2>2
<1>14. ASSUME NEW s \in Server, e.hash[s] # NoConn
       PROVE  e.hash[s] \in ToSet(e.lru) /\ e.key[e.hash[s]] = s
  <2>1. e.hash[s] = k.hash[s] /\ ~\E c \in G : k.key[c] = s
    BY <1>8, <1>14
  <2>2. k.hash[s] \in ToSet(k.lru) /\ k.key[k.hash[s]] = s
    BY <1>14, <2>1 DEF Consistent, Table
  <2> QED
    BY <1>7, <1>8, <2>1, <2>2
<1>15. Referred(e, h)
  <2>1. ASSUME NEW d \in Conn PROVE /\ e.st[d] = "live" => h[d] = e.acquired[d]
                                    /\ e.st[d] = "live" <=> h[d] > 0 \/ e.cached[d]
    <3>1. CASE d \in G
      <4>1. k.cached[d] /\ k.st[d] = "live"
        BY <1>4, <3>1 DEF Consistent, Table, Referred
      <4>2. h[d] = 0
        BY <1>4, <3>1, <4>1 DEF Consistent, Referred
      <4> QED
        BY <1>8, <3>1, <4>2
    <3>2. CASE d \notin G
      BY <1>8, <3>2 DEF Consistent, Referred
    <3> QED
      BY <3>1, <3>2
  <2> QED
    BY <2>1 DEF Referred
<1>16. Consistent(e, h)
  BY <1>2, <1>7, <1>8, <1>10, <1>12, <1>13, <1>14, <1>15 DEF Consistent, Table
<1> QED
  BY <1>1, <1>7, <1>8, <1>9, <1>16

\* There are as many from the tail as are wanted.
LEMMA OldestIs ==
  ASSUME NEW k, Once(k.lru), NEW n \in Nat, n <= Cardinality(Unheld(k))
  PROVE  LET G == Oldest(k, n)
         IN  /\ G \subseteq Unheld(k) /\ Cardinality(G) = n
             /\ \A c \in G, d \in Unheld(k) \ G : Rank(k.lru, d) < Rank(k.lru, c)
<1> DEFINE AtTail(m, G) == /\ Cardinality(G) = m
                         /\ \A c \in G, d \in Unheld(k) \ G : Rank(k.lru, d) < Rank(k.lru, c)
<1>1. PICK U : U = Unheld(k)
  OBVIOUS
<1>2. U \subseteq ToSet(k.lru)
  BY <1>1 DEF Unheld
<1>3. IsFiniteSet(U) /\ Cardinality(U) \in Nat
  BY <1>2, SetOfIsFinite
<1>4. PICK bad : bad = {m \in 0..Cardinality(U) : ~\E G \in SUBSET U : AtTail(m, G)}
  OBVIOUS
<1>5. ASSUME bad # {} PROVE FALSE
  <2>1. bad \subseteq Nat
    BY <1>3, <1>4
  <2>2. PICK m \in bad : \A i \in bad : m <= i
    BY <1>5, <2>1, LeastOf
  <2>3. m \in 0..Cardinality(U) /\ ~\E G \in SUBSET U : AtTail(m, G)
    BY <1>4, <2>2
  <2>4. CASE m = 0
    <3>1. Cardinality({}) = 0
      BY FS_EmptySet
    <3>2. AtTail(0, {})
      BY <3>1
    <3> QED
      BY <2>3, <2>4, <3>2
  <2>5. CASE m # 0
    <3>1. m - 1 \in 0..Cardinality(U) /\ ~(m <= m - 1)
      BY <1>3, <2>3, <2>5
    <3>2. m - 1 \notin bad
      BY <2>2, <3>1
    <3>3. PICK G \in SUBSET U : AtTail(m - 1, G)
      BY <1>4, <3>1, <3>2
    <3>4. IsFiniteSet(G) /\ Cardinality(G) = m - 1
      BY <1>3, <3>3, FS_Subset
    <3>5. U \ G # {}
      <4>1. SUFFICES ASSUME G = U PROVE FALSE
        BY <3>3
      <4> QED
        BY <1>3, <2>3, <3>4, <4>1
    <3>6. PICK c \in U \ G : \A d \in (U \ G) \ {c} : Rank(k.lru, d) < Rank(k.lru, c)
      BY <1>2, <3>5, LastOf
    <3>7. Cardinality(G \cup {c}) = m
      <4>1. Cardinality(G \cup {c}) = Cardinality(G) + 1
        BY <3>4, <3>6, FS_AddElement
      <4> QED
        BY <1>3, <2>3, <3>4, <4>1
    <3>8. \A a \in G, d \in U \ G : Rank(k.lru, d) < Rank(k.lru, a)
      BY <1>1, <3>3
    <3>9. \A a \in G \cup {c}, d \in U \ (G \cup {c}) : Rank(k.lru, d) < Rank(k.lru, a)
      BY <3>6, <3>8
    <3>10. AtTail(m, G \cup {c})
      BY <1>1, <3>7, <3>9
    <3>11. G \cup {c} \in SUBSET U
      BY <3>3, <3>6
    <3> QED
      BY <2>3, <3>10, <3>11
  <2> QED
    BY <2>4, <2>5
<1>6. n \in 0..Cardinality(U)
  BY <1>1, <1>3
<1>7. \E G \in SUBSET U : AtTail(n, G)
  BY <1>4, <1>5, <1>6
<1> QED
  BY <1>1, <1>7 DEF Oldest

LEMMA GcKeeps ==
  ASSUME NEW k, NEW h, Consistent(k, h), NEW target \in Nat
  PROVE  LET e == Gc(k, target)
         IN  /\ Consistent(e, h) /\ Within(e.lru, k.lru) /\ ~Aborts(k, target) /\ e.free <= target
             /\ \A c \in ToSet(k.lru) \ ToSet(e.lru), d \in Idle(e) :
                  d \in ToSet(k.lru) /\ Rank(k.lru, d) < Rank(k.lru, c)
<1>1. PICK n : n = Turns(k, target)
  OBVIOUS
<1>2. Once(k.lru) /\ k.free = Cardinality(Idle(k)) /\ Unheld(k) = Idle(k)
  BY UnheldIsIdle DEF Consistent
<1>3. Cardinality(Idle(k)) \in Nat
  BY <1>2, IdleFinite
<1>4. n \in Nat /\ n <= Cardinality(Idle(k)) /\ k.free - n <= target
  BY <1>1, <1>2, <1>3 DEF Turns
<1>5. PICK G : G = Oldest(k, n)
  OBVIOUS
<1>6. G \subseteq Idle(k) /\ Cardinality(G) = n
      /\ \A c \in G, d \in Idle(k) \ G : Rank(k.lru, d) < Rank(k.lru, c)
  BY <1>2, <1>4, <1>5, OldestIs
<1>7. PICK e : e = [Drop(k, G) EXCEPT !.free = @ - n]
  OBVIOUS
<1>8. /\ Consistent(e, h) /\ Within(e.lru, k.lru) /\ ToSet(e.lru) = ToSet(k.lru) \ G
      /\ e.free = k.free - n /\ Idle(e) = Idle(k) \ G
  BY <1>6, <1>7, DropKeeps
<1>9. Gc(k, target) = e
  BY <1>1, <1>5, <1>7 DEF Gc
<1>10. ~Aborts(k, target)
  BY <1>1, <1>2, <1>3, <1>4 DEF Aborts
<1>11. ASSUME NEW c \in ToSet(k.lru) \ ToSet(e.lru), NEW d \in Idle(e)
       PROVE  d \in ToSet(k.lru) /\ Rank(k.lru, d) < Rank(k.lru, c)
  BY <1>6, <1>8, <1>11 DEF Idle
<1> QED
  BY <1>4, <1>8, <1>9, <1>10, <1>11

(***************************************************************************)
(* The order of use                                                        *)
(***************************************************************************)
\* A connection that is used is the first in both lists.
LEMMA UsedIsFirst ==
  ASSUME NEW l, NEW m, NEW u, Once(u), Within(l, u), Within(m, l), NEW c \in Conn, c \notin ToSet(m)
  PROVE  LET v == <<c>> \o Without(u, {c})
         IN  Once(v) /\ Within(m, v) /\ Within(<<c>> \o m, v)
<1>1. PICK w : w = Without(u, {c})
  OBVIOUS
<1>2. ToSet(w) = ToSet(u) \ {c} /\ Within(w, u) /\ Once(w)
  BY <1>1, WithoutIs DEF Within
<1>3. PICK v : v = <<c>> \o w
  OBVIOUS
<1>4. /\ Once(v) /\ ToSet(v) = ToSet(w) \cup {c} /\ Rank(v, c) = 1
      /\ \A d \in ToSet(w) : Rank(v, d) = Rank(w, d) + 1
  BY <1>2, <1>3, PutFirst
<1>5. Once(m)
  BY DEF Within
<1>6. PICK q : q = <<c>> \o m
  OBVIOUS
<1>7. /\ Once(q) /\ ToSet(q) = ToSet(m) \cup {c} /\ Rank(q, c) = 1
      /\ \A d \in ToSet(m) : Rank(q, d) = Rank(m, d) + 1
  BY <1>5, <1>6, PutFirst
<1>8. Within(m, u)
  BY WithinWithin
<1>9. ToSet(m) \subseteq ToSet(w)
  BY <1>2, <1>8 DEF Within
<1>10. \A d \in ToSet(m) : /\ Rank(m, d) \in 1..Len(m) /\ Rank(w, d) \in 1..Len(w)
                           /\ Rank(u, d) \in 1..Len(u)
  BY <1>2, <1>5, <1>8, <1>9, RankOf DEF Within
<1>11. Len(m) \in Nat /\ Len(w) \in Nat /\ Len(u) \in Nat
  BY <1>2, <1>5 DEF Once
<1>12. ASSUME NEW a \in ToSet(m), NEW b \in ToSet(m), Rank(m, a) < Rank(m, b)
       PROVE  Rank(w, a) < Rank(w, b)
  <2>1. Rank(u, a) < Rank(u, b)
    BY <1>8, <1>12 DEF Within
  <2>2. Rank(w, b) < Rank(w, a) => Rank(u, b) < Rank(u, a)
    BY <1>2, <1>9 DEF Within
  <2>3. Rank(w, a) # Rank(w, b)
    <3>1. a # b
      BY <1>10, <1>11, <1>12
    <3>2. w[Rank(w, a)] = a /\ w[Rank(w, b)] = b
      BY <1>2, <1>9, RankOf
    <3> QED
      BY <3>1, <3>2
  <2> QED
    BY <1>10, <1>11, <2>1, <2>2, <2>3
<1>13. Within(m, v)
  <2>1. ASSUME NEW a \in ToSet(m), NEW b \in ToSet(m), Rank(m, a) < Rank(m, b)
        PROVE  Rank(v, a) < Rank(v, b)
    <3>1. Rank(w, a) < Rank(w, b)
      BY <1>12, <2>1
    <3> QED
      BY <1>4, <1>9, <1>10, <1>11, <3>1
  <2> QED
    BY <1>4, <1>5, <1>9, <2>1 DEF Within
<1>14. Within(q, v)
  <2>1. ASSUME NEW a \in ToSet(q), NEW b \in ToSet(q), Rank(q, a) < Rank(q, b)
        PROVE  Rank(v, a) < Rank(v, b)
    <3>1. CASE b = c
      <4>1. Rank(q, a) \in 1..Len(q) /\ Len(q) \in Nat
        BY <1>7, RankOf DEF Once
      <4> QED
        BY <1>7, <2>1, <3>1, <4>1
    <3>2. CASE b # c /\ a = c
      <4>1. b \in ToSet(m)
        BY <1>7, <3>2
      <4>2. Rank(v, b) = Rank(w, b) + 1 /\ Rank(w, b) \in 1..Len(w)
        BY <1>4, <1>9, <1>10, <4>1
      <4> QED
        BY <1>4, <1>11, <3>2, <4>2
    <3>3. CASE b # c /\ a # c
      <4>1. a \in ToSet(m) /\ b \in ToSet(m)
        BY <1>7, <3>3
      <4>2. Rank(m, a) < Rank(m, b)
        BY <1>7, <1>10, <1>11, <2>1, <4>1
      <4> QED
        BY <1>13, <4>1, <4>2 DEF Within
    <3> QED
      BY <3>1, <3>2, <3>3
  <2> QED
    BY <1>2, <1>4, <1>7, <1>9, <2>1 DEF Within
<1> QED
  BY <1>1, <1>3, <1>4, <1>6, <1>13, <1>14

LEMMA WithinItself ==
  ASSUME NEW s, Once(s)
  PROVE  Within(s, s)
BY DEF Within

(***************************************************************************)
(* The program                                                             *)
(***************************************************************************)
Opened == /\ over = "no" /\ Consistent(cache, held) /\ cache.free <= NumCache
          /\ Once(uses) /\ Within(cache.lru, uses)

LEMMA InUsed == ConnCacheInv /\ over = "no" => Opened
BY DEF ConnCacheInv, Opened

LEMMA AcquireCachedKeeps ==
  ASSUME Opened, NEW s \in Server, AcquireCached(s)
  PROVE  Opened'
<1>1. PICK c : c = cache.hash[s]
  OBVIOUS
<1>2. c \in ToSet(cache.lru)
  BY <1>1 DEF Opened, AcquireCached, Consistent, Table
<1>3. Once(cache.lru) /\ c \in Conn /\ cache.free \in Nat
  BY <1>2, RankOf, IdleFinite DEF Opened, Consistent
<1>4. /\ cache' = Addref(cache, c) /\ held' = SetTo(held, c, held[c] + 1)
      /\ uses' = <<c>> \o Without(uses, {c}) /\ over' = over
  BY <1>1 DEF AcquireCached, Use, SetTo
<1>5. /\ Consistent(cache', held') /\ cache'.lru = <<c>> \o Without(cache.lru, {c})
      /\ cache'.free <= cache.free
  BY <1>2, <1>4, AddrefKeeps DEF Opened
<1>6. ToSet(Without(cache.lru, {c})) = ToSet(cache.lru) \ {c} /\ Within(Without(cache.lru, {c}), cache.lru)
  BY <1>3, WithoutIs
<1>7. Once(uses') /\ Within(cache'.lru, uses')
  BY <1>3, <1>4, <1>5, <1>6, UsedIsFirst DEF Opened
<1>8. cache'.free \in Nat
  BY <1>5, IdleFinite DEF Consistent
<1>9. cache.free <= NumCache /\ NumCache \in Nat /\ over = "no"
  BY CacheAssumption DEF Opened
<1>10. cache'.free <= NumCache
  BY <1>3, <1>5, <1>8, <1>9
<1>11. over' = "no"
  BY <1>4, <1>9
<1> QED
  BY <1>5, <1>7, <1>10, <1>11 DEF Opened

\* A new connection in the cache, and what gc leaves.
LEMMA NewKeeps ==
  ASSUME Opened, NEW s \in Server, cache.hash[s] = NoConn, NEW c \in Unused, NEW gc \in BOOLEAN,
         NEW k, k = Hash(Enter(cache, c, s), c), NEW j, j = IF gc THEN Gc(k, 0) ELSE k
  PROVE  /\ Consistent(j, SetTo(held, c, 1)) /\ j.free <= NumCache /\ held[c] = 0
         /\ ~(gc /\ Aborts(k, 0)) /\ Within(j.lru, <<c>> \o cache.lru) /\ c \notin ToSet(cache.lru)
<1>1. PICK h : h = SetTo(held, c, 1)
  OBVIOUS
<1>2. Consistent(cache, held) /\ c \in Conn /\ cache.st[c] # "live" /\ cache.free <= NumCache
  BY DEF Opened, Unused
<1>3. PICK e : e = Enter(cache, c, s)
  OBVIOUS
<1>4. /\ Consistent(e, h) /\ e.lru = cache.lru /\ e.hash = cache.hash /\ e.free = cache.free
      /\ ~e.cached[c] /\ e.key[c] = s /\ held[c] = 0 /\ c \notin ToSet(cache.lru)
  <2>1. s \in Server
    OBVIOUS
  <2>2. /\ Consistent(e, SetTo(held, c, 1)) /\ e.lru = cache.lru /\ e.hash = cache.hash /\ e.free = cache.free
        /\ ~e.cached[c] /\ e.key[c] = s /\ held[c] = 0 /\ c \notin ToSet(cache.lru)
    BY <1>2, <1>3, <2>1, EnterKeeps
  <2> QED
    BY <1>1, <2>2
<1>5. h[c] > 0
  <2>1. held \in [Conn -> Nat] /\ c \in Conn
    BY <1>2 DEF Consistent
  <2>2. SetTo(held, c, 1)[c] = 1
    BY <2>1, SetToIs
  <2>3. h[c] = 1
    BY <1>1, <2>2
  <2> QED
    BY <2>3
<1>6. Consistent(k, h) /\ k.lru = <<c>> \o cache.lru /\ k.free = cache.free
  BY <1>2, <1>3, <1>4, <1>5, HashKeeps
<1>7. Once(k.lru)
  BY <1>6 DEF Consistent
<1>8. CASE gc
  <2>1. Consistent(Gc(k, 0), h) /\ Within(Gc(k, 0).lru, k.lru) /\ ~Aborts(k, 0) /\ Gc(k, 0).free <= 0
    BY <1>6, GcKeeps
  <2>2. Gc(k, 0).free \in Nat
    BY <2>1, IdleFinite DEF Consistent
  <2> QED
    BY <1>1, <1>4, <1>6, <1>8, <2>1, <2>2, CacheAssumption
<1>9. CASE ~gc
  BY <1>1, <1>2, <1>4, <1>6, <1>7, <1>9, WithinItself
<1> QED
  BY <1>8, <1>9

LEMMA AcquireNewKeeps ==
  ASSUME Opened, NEW s \in Server, AcquireNew(s)
  PROVE  Opened'
<1>1. PICK c \in Unused, gc \in BOOLEAN :
        LET k == Hash(Enter(cache, c, s), c)
        IN  /\ cache' = IF gc THEN Gc(k, 0) ELSE k
            /\ over' = IF gc /\ Aborts(k, 0) THEN "abort" ELSE over
            /\ held' = [held EXCEPT ![c] = 1]
            /\ Use(c)
  BY DEF AcquireNew
<1>2. PICK k : k = Hash(Enter(cache, c, s), c)
  OBVIOUS
<1>3. cache.hash[s] = NoConn /\ c \in Conn
  BY DEF AcquireNew, Unused
<1>4. /\ Consistent(cache', held') /\ cache'.free <= NumCache
      /\ ~(gc /\ Aborts(k, 0)) /\ Within(cache'.lru, <<c>> \o cache.lru) /\ c \notin ToSet(cache.lru)
  <2>1. held' = SetTo(held, c, 1) /\ cache' = IF gc THEN Gc(k, 0) ELSE k
    BY <1>1, <1>2 DEF SetTo
  <2> QED
    BY <1>2, <1>3, <2>1, NewKeeps
<1>5. over' = "no"
  BY <1>1, <1>2, <1>4 DEF Opened
<1>6. Within(cache.lru, cache.lru) /\ Once(uses) /\ Within(cache.lru, uses)
  BY WithinItself DEF Opened, Consistent
<1>7. Once(uses') /\ Within(<<c>> \o cache.lru, uses')
  BY <1>1, <1>3, <1>4, <1>6, UsedIsFirst DEF Use
<1>8. Within(cache'.lru, uses')
  BY <1>4, <1>7, WithinWithin
<1> QED
  BY <1>4, <1>5, <1>7, <1>8 DEF Opened

LEMMA AcquireFailedKeeps ==
  ASSUME Opened, NEW s \in Server, AcquireFailed(s)
  PROVE  Opened'
<1>1. PICK c \in Unused, gc \in BOOLEAN :
        LET k == Hash(Enter(cache, c, s), c)
            j == IF gc THEN Gc(k, 0) ELSE k
        IN  /\ cache' = Dispose(PurgeFromCache(j, c), c)
            /\ over' = IF gc /\ Aborts(k, 0) THEN "abort" ELSE over
  BY DEF AcquireFailed
<1>2. PICK k : k = Hash(Enter(cache, c, s), c)
  OBVIOUS
<1>3. PICK j : j = IF gc THEN Gc(k, 0) ELSE k
  OBVIOUS
<1>4. PICK h : h = SetTo(held, c, 1)
  OBVIOUS
<1>5. cache.hash[s] = NoConn /\ c \in Conn /\ UNCHANGED <<held, uses>>
  BY DEF AcquireFailed, Unused
<1>6. /\ Consistent(j, h) /\ j.free <= NumCache /\ held[c] = 0
      /\ ~(gc /\ Aborts(k, 0)) /\ Within(j.lru, <<c>> \o cache.lru) /\ c \notin ToSet(cache.lru)
  BY <1>2, <1>3, <1>4, <1>5, NewKeeps
<1>7. over' = "no"
  BY <1>1, <1>2, <1>6 DEF Opened
<1>8. held \in [Conn -> Nat]
  BY DEF Opened, Consistent
<1>9. h[c] > 0 /\ SetTo(h, c, 0) = held
  <2>1. h = [held EXCEPT ![c] = 1] /\ h[c] = 1
    BY <1>4, <1>5, <1>8 DEF SetTo
  <2>2. [h EXCEPT ![c] = 0] = held
    BY <1>5, <1>6, <1>8, <2>1
  <2> QED
    BY <2>1, <2>2 DEF SetTo
<1>10. PICK p : p = PurgeFromCache(j, c)
  OBVIOUS
<1>11. /\ Consistent(p, h) /\ Within(p.lru, j.lru) /\ p.free = j.free /\ ~p.cached[c]
       /\ c \notin ToSet(p.lru)
  BY <1>5, <1>6, <1>9, <1>10, PurgeKeeps
<1>12. Consistent(cache', held) /\ cache'.lru = p.lru /\ cache'.free = p.free
  <2>1. cache' = Dispose(p, c)
    BY <1>1, <1>2, <1>3, <1>10
  <2> QED
    BY <1>5, <1>9, <1>11, <2>1, DisposeKeeps
<1>13. Within(p.lru, <<c>> \o cache.lru)
  BY <1>6, <1>11, WithinWithin
<1>14. Within(p.lru, cache.lru)
  <2>1. /\ ToSet(<<c>> \o cache.lru) = ToSet(cache.lru) \cup {c}
        /\ \A d \in ToSet(cache.lru) : Rank(<<c>> \o cache.lru, d) = Rank(cache.lru, d) + 1
    BY <1>5, <1>6, PutFirst DEF Opened, Consistent
  <2>2. ToSet(p.lru) \subseteq ToSet(cache.lru)
    BY <1>11, <1>13, <2>1 DEF Within
  <2>3. \A d \in ToSet(cache.lru) : Rank(cache.lru, d) \in Nat
    BY RankOf DEF Opened, Consistent
  <2>4. ASSUME NEW a \in ToSet(p.lru), NEW b \in ToSet(p.lru), Rank(p.lru, a) < Rank(p.lru, b)
        PROVE  Rank(cache.lru, a) < Rank(cache.lru, b)
    <3>1. Rank(<<c>> \o cache.lru, a) < Rank(<<c>> \o cache.lru, b)
      BY <1>13, <2>4 DEF Within
    <3>2. Rank(cache.lru, a) + 1 < Rank(cache.lru, b) + 1
      BY <2>1, <2>2, <3>1
    <3> QED
      BY <2>2, <2>3, <3>2
  <2> QED
    BY <1>13, <2>2, <2>4 DEF Within
<1>15. Within(cache'.lru, uses)
  BY <1>12, <1>14, WithinWithin DEF Opened
<1> QED
  BY <1>5, <1>6, <1>7, <1>11, <1>12, <1>15 DEF Opened

LEMMA ConnectUncachedKeeps ==
  ASSUME Opened, NEW s \in Server, ConnectUncached(s)
  PROVE  Opened'
<1>1. PICK c \in Unused : /\ cache' = Enter(cache, c, s) /\ held' = [held EXCEPT ![c] = 1]
                          /\ Use(c) /\ over' = over
  BY DEF ConnectUncached
<1>2. c \in Conn /\ cache.st[c] # "live"
  BY DEF Unused
<1>3. /\ Consistent(cache', held') /\ cache'.lru = cache.lru /\ cache'.free = cache.free
      /\ c \notin ToSet(cache.lru)
  <2>1. cache' = Enter(cache, c, s) /\ held' = SetTo(held, c, 1)
    BY <1>1 DEF SetTo
  <2> QED
    BY <1>2, <2>1, EnterKeeps DEF Opened
<1>4. Within(cache.lru, cache.lru) /\ Once(uses) /\ Within(cache.lru, uses)
  BY WithinItself DEF Opened, Consistent
<1>5. Once(uses') /\ Within(cache.lru, uses')
  BY <1>1, <1>2, <1>3, <1>4, UsedIsFirst DEF Use
<1> QED
  BY <1>1, <1>3, <1>5 DEF Opened

LEMMA EnterCacheKeeps ==
  ASSUME Opened, NEW c \in Conn, EnterCache(c)
  PROVE  Opened'
<1>1. CASE cache.hash[cache.key[c]] = NoConn
  <2>1. cache' = Hash(cache, c) /\ Use(c) /\ UNCHANGED <<held, over>> /\ held[c] > 0 /\ ~cache.cached[c]
    BY <1>1 DEF EnterCache
  <2>2. /\ Consistent(cache', held) /\ cache'.lru = <<c>> \o cache.lru /\ cache'.free = cache.free
        /\ c \notin ToSet(cache.lru)
    BY <1>1, <2>1, HashKeeps DEF Opened
  <2>3. Within(cache.lru, cache.lru) /\ Once(uses) /\ Within(cache.lru, uses)
    BY WithinItself DEF Opened, Consistent
  <2>4. Once(uses') /\ Within(cache'.lru, uses')
    BY <2>1, <2>2, <2>3, UsedIsFirst DEF Use
  <2> QED
    BY <2>1, <2>2, <2>4 DEF Opened
<1>2. CASE cache.hash[cache.key[c]] # NoConn
  BY <1>2 DEF EnterCache, Opened
<1> QED
  BY <1>1, <1>2

LEMMA RpcKeeps ==
  ASSUME Opened, NEW c \in Conn, Rpc(c)
  PROVE  Opened'
<1>1. Once(cache.lru) /\ Within(cache.lru, cache.lru) /\ Once(uses) /\ Within(cache.lru, uses)
  BY WithinItself DEF Opened, Consistent
<1>2. CASE cache.cached[c]
  <2>1. cache' = Access(cache, c) /\ Use(c) /\ UNCHANGED <<held, over>>
    BY <1>2 DEF Rpc
  <2>2. c \in ToSet(cache.lru)
    BY <1>2 DEF Opened, Consistent, Table
  <2>3. /\ Consistent(cache', held) /\ cache'.lru = <<c>> \o Without(cache.lru, {c})
        /\ cache'.free = cache.free
    BY <2>1, <2>2, AccessKeeps DEF Opened
  <2>4. ToSet(Without(cache.lru, {c})) = ToSet(cache.lru) \ {c} /\ Within(Without(cache.lru, {c}), cache.lru)
    BY <1>1, WithoutIs
  <2>5. Once(uses') /\ Within(cache'.lru, uses')
    BY <1>1, <2>1, <2>3, <2>4, UsedIsFirst DEF Use
  <2> QED
    BY <2>1, <2>3, <2>5 DEF Opened
<1>3. CASE ~cache.cached[c]
  <2>1. cache' = cache /\ Use(c) /\ UNCHANGED <<held, over>>
    BY <1>3 DEF Rpc
  <2>2. c \notin ToSet(cache.lru)
    BY <1>3 DEF Opened, Consistent, Table
  <2>3. Once(uses') /\ Within(cache.lru, uses')
    BY <1>1, <2>1, <2>2, UsedIsFirst DEF Use
  <2> QED
    BY <2>1, <2>3 DEF Opened
<1> QED
  BY <1>2, <1>3

LEMMA RpcFailedKeeps ==
  ASSUME Opened, NEW c \in Conn, RpcFailed(c)
  PROVE  Opened'
<1>1. cache' = PurgeFromCache(cache, c) /\ UNCHANGED <<held, uses, over>> /\ held[c] > 0
  BY DEF RpcFailed
<1>2. Consistent(cache', held) /\ Within(cache'.lru, cache.lru) /\ cache'.free = cache.free
  BY <1>1, PurgeKeeps DEF Opened
<1>3. Within(cache'.lru, uses)
  BY <1>2, WithinWithin DEF Opened
<1> QED
  BY <1>1, <1>2, <1>3 DEF Opened

\* What free leaves of the cache was used later than what it lets go.
LEMMA FreeKeeps ==
  ASSUME Opened, NEW c \in Conn, Free(c)
  PROVE  /\ Opened'
         /\ \A a \in ToSet(cache.lru) \ ToSet(cache'.lru), d \in Idle(cache') :
              Rank(uses, d) < Rank(uses, a)
<1>1. PICK k : k = Delref(cache, c)
  OBVIOUS
<1>2. PICK gc \in BOOLEAN : gc <=> k.acquired[c] <= 0 /\ k.cached[c]
  OBVIOUS
<1>3. /\ cache' = IF k.acquired[c] > 0 THEN k ELSE IF gc THEN Gc(k, NumCache) ELSE Dispose(k, c)
      /\ over' = IF k.acquired[c] < 0 \/ (gc /\ Aborts(k, NumCache)) THEN "abort" ELSE over
      /\ held' = SetTo(held, c, held[c] - 1) /\ uses' = uses /\ held[c] > 0
  BY <1>1, <1>2 DEF Free, SetTo
<1>4. /\ Consistent(cache, held) /\ over = "no" /\ cache.free <= NumCache /\ cache.free \in Nat
      /\ Once(cache.lru) /\ Once(uses) /\ Within(cache.lru, uses) /\ held[c] \in Nat \ {0}
  BY <1>3, IdleFinite DEF Opened, Consistent
<1>5. CASE held[c] > 1
  <2>1. Consistent(k, held') /\ k.lru = cache.lru /\ k.acquired[c] = held[c] - 1 /\ k.free = cache.free
    BY <1>1, <1>3, <1>4, <1>5, DelrefKeeps
  <2>2. cache' = k /\ over' = "no"
    BY <1>2, <1>3, <1>4, <1>5, <2>1
  <2> QED
    BY <1>3, <1>4, <2>1, <2>2 DEF Opened
<1>6. CASE held[c] = 1 /\ cache.cached[c]
  <2>1. Consistent(k, held') /\ k.lru = cache.lru /\ k.acquired[c] = 0 /\ k.cached = cache.cached
    BY <1>1, <1>3, <1>4, <1>6, DelrefKeeps
  <2>2. PICK e : e = Gc(k, NumCache)
    OBVIOUS
  <2>3. /\ Consistent(e, held') /\ Within(e.lru, k.lru) /\ ~Aborts(k, NumCache) /\ e.free <= NumCache
        /\ \A a \in ToSet(k.lru) \ ToSet(e.lru), d \in Idle(e) :
             d \in ToSet(k.lru) /\ Rank(k.lru, d) < Rank(k.lru, a)
    BY <2>1, <2>2, GcKeeps, CacheAssumption
  <2>4. cache' = e /\ over' = "no"
    BY <1>2, <1>3, <1>4, <1>6, <2>1, <2>2, <2>3
  <2>5. Within(cache'.lru, uses')
    BY <1>3, <1>4, <2>1, <2>3, <2>4, WithinWithin
  <2>6. \A a \in ToSet(cache.lru) \ ToSet(cache'.lru), d \in Idle(cache') : Rank(uses, d) < Rank(uses, a)
    BY <1>4, <2>1, <2>3, <2>4 DEF Within
  <2> QED
    BY <1>3, <1>4, <2>3, <2>4, <2>5, <2>6 DEF Opened
<1>7. CASE held[c] = 1 /\ ~cache.cached[c]
  <2>1. /\ Consistent(Dispose(k, c), held') /\ Dispose(k, c).lru = cache.lru
        /\ Dispose(k, c).free = cache.free /\ k.acquired[c] = 0 /\ k.cached = cache.cached
    BY <1>1, <1>3, <1>4, <1>7, LastReference
  <2>2. cache' = Dispose(k, c) /\ over' = "no"
    BY <1>2, <1>3, <1>4, <1>7, <2>1
  <2> QED
    BY <1>3, <1>4, <2>1, <2>2 DEF Opened
<1> QED
  BY <1>4, <1>5, <1>6, <1>7

LEMMA TerminateEnds == Opened /\ Terminate => over' = "terminated"
<1> SUFFICES ASSUME Opened, Terminate PROVE over' = "terminated"
  OBVIOUS
<1>1. ~Aborts(cache, 0)
  BY GcKeeps DEF Opened
<1> QED
  BY <1>1 DEF Terminate

LEMMA CacheStarts == CInit => ConnCacheInv
<1> SUFFICES ASSUME CInit PROVE ConnCacheInv
  OBVIOUS
<1>1. (CHOOSE s \in Server : TRUE) \in Server
  BY CacheAssumption
<1>2. cache \in CacheStates /\ held \in [Conn -> Nat]
  BY <1>1 DEF CInit, CacheStates
<1>3. Once(<<>>) /\ ToSet(<<>>) = {}
  BY DEF Once, ToSet
<1>4. cache.lru = <<>> /\ uses = <<>> /\ cache.free = 0 /\ over = "no"
  BY DEF CInit
<1>5. Idle(cache) = {}
  BY <1>3, <1>4 DEF Idle
<1>6. Cardinality(Idle(cache)) = 0
  BY <1>5, FS_EmptySet
<1>7. Table(cache)
  BY <1>3, <1>4 DEF Table, CInit
<1>8. Referred(cache, held)
  BY DEF Referred, CInit
<1>9. Within(<<>>, <<>>)
  BY <1>3, WithinItself
<1> QED
  BY <1>2, <1>3, <1>4, <1>6, <1>7, <1>8, <1>9, CacheAssumption DEF ConnCacheInv, Consistent

LEMMA CacheStepKeeps == ConnCacheInv /\ [CNext]_cvars => ConnCacheInv'
<1> SUFFICES ASSUME ConnCacheInv, [CNext]_cvars PROVE ConnCacheInv'
  OBVIOUS
<1>1. CASE UNCHANGED cvars
  BY <1>1 DEF cvars, ConnCacheInv, Consistent, Idle, Table, Referred, Within, Once
<1>2. CASE CNext
  <2>1. Opened
    BY <1>2, InUsed DEF CNext
  <2>2. Opened' => ConnCacheInv'
    BY DEF Opened, ConnCacheInv
  <2>3. ASSUME NEW s \in Server, AcquireCached(s) \/ AcquireNew(s) \/ AcquireFailed(s) \/ ConnectUncached(s)
        PROVE  ConnCacheInv'
    BY <2>1, <2>2, <2>3, AcquireCachedKeeps, AcquireNewKeeps, AcquireFailedKeeps, ConnectUncachedKeeps
  <2>4. ASSUME NEW c \in Conn, EnterCache(c) \/ Rpc(c) \/ RpcFailed(c) \/ Free(c)
        PROVE  ConnCacheInv'
    BY <2>1, <2>2, <2>4, EnterCacheKeeps, RpcKeeps, RpcFailedKeeps, FreeKeeps
  <2>5. CASE Terminate
    BY <2>1, <2>5, TerminateEnds DEF ConnCacheInv
  <2> QED
    BY <1>2, <2>3, <2>4, <2>5 DEF CNext
<1> QED
  BY <1>1, <1>2

\* The list, the table, the counter and the references, at every moment (conn_cache.c).
THEOREM ConnCacheInvariant == CSpec => []ConnCacheInv
BY CacheStarts, CacheStepKeeps, PTL DEF CSpec

\* Whatever is purged, refused or evicted while it is held: the counter of free entries, the
\* list, the hash table and the references agree, and neither delref nor gc aborts
\* (lru_cache.c:116), with any number of connections, servers and entries that are kept.
THEOREM CacheIsConsistent == CSpec => []CacheConsistent
<1>1. ConnCacheInv => CacheConsistent
  <2> SUFFICES ASSUME ConnCacheInv, over = "no"
               PROVE  FreeCounted /\ CacheAgrees /\ References
    BY DEF ConnCacheInv, CacheConsistent
  <2>1. Consistent(cache, held)
    BY DEF ConnCacheInv
  <2>2. Len(cache.lru) = Cardinality(ToSet(cache.lru))
    <3>1. Once(cache.lru)
      BY <2>1 DEF Consistent
    <3>2. PICK l : l = cache.lru
      OBVIOUS
    <3>3. l \in Bijection(1..Len(l), ToSet(l)) /\ IsFiniteSet(1..Len(l)) /\ Cardinality(1..Len(l)) = Len(l)
      <4>1. DOMAIN l = 1..Len(l) /\ Len(l) \in Nat
        BY <3>1, <3>2 DEF Once
      <4>2. l \in [1..Len(l) -> ToSet(l)]
        BY <3>1, <3>2 DEF Once, ToSet
      <4>3. \A i, j \in 1..Len(l) : l[i] = l[j] => i = j
        BY <3>1, <3>2 DEF Once
      <4>4. \A c \in ToSet(l) : \E i \in 1..Len(l) : l[i] = c
        BY <4>1 DEF ToSet
      <4>5. IsFiniteSet(1..Len(l)) /\ Cardinality(1..Len(l)) = Len(l)
        <5>1. PICK n : n = Len(l)
          OBVIOUS
        <5>2. n \in Int /\ 1 \in Int
          BY <4>1, <5>1
        <5>3. IsFiniteSet(1..n) /\ Cardinality(1..n) = IF 1 > n THEN 0 ELSE n - 1 + 1
          BY <5>2, FS_Interval
        <5>4. Cardinality(1..n) = n
          BY <4>1, <5>1, <5>3
        <5> QED
          BY <5>1, <5>3, <5>4
      <4> QED
        BY <4>2, <4>3, <4>4, <4>5 DEF Bijection, Injection, Surjection, IsInjective
    <3>4. ExistsBijection(1..Len(l), ToSet(l))
      BY <3>3 DEF ExistsBijection
    <3> QED
      BY <3>2, <3>3, <3>4, FS_Bijection
  <2>3. \A s \in Server : cache.hash[s] # NoConn =>
          cache.hash[s] \in ToSet(cache.lru) /\ cache.st[cache.hash[s]] = "live"
    <3>1. ToSet(cache.lru) \subseteq Conn
      BY <2>1, RankOf DEF Consistent
    <3> QED
      BY <2>1, <3>1 DEF Consistent, Table, Referred
  <2>4. CacheAgrees
    BY <2>1, <2>2, <2>3 DEF Consistent, Table, CacheAgrees
  <2> QED
    BY <2>1, <2>4 DEF Consistent, Referred, References, FreeCounted
<1> QED
  BY <1>1, ConnCacheInvariant, PTL

\* A connection that free lets go was used before all that it keeps, of which nobody holds more
\* than NumCache (gfarm_lru_cache_gc).
THEOREM OldestGoFirst == CSpec => LeastRecentlyUsed
<1> DEFINE LaterKept == over' = "no" /\ held' # held /\ (\A c \in Conn : held'[c] <= held[c]) =>
                     /\ Cardinality(Idle(cache')) <= NumCache
                     /\ \A c \in ToSet(cache.lru) \ ToSet(cache'.lru), d \in Idle(cache') :
                          Rank(uses, d) < Rank(uses, c)
<1>1. ConnCacheInv /\ ConnCacheInv' /\ [CNext]_cvars => [LaterKept]_cvars
  <2> SUFFICES ASSUME ConnCacheInv, ConnCacheInv', CNext, over' = "no", held' # held,
                      \A c \in Conn : held'[c] <= held[c]
               PROVE  LaterKept
    OBVIOUS
  <2>1. Opened
    BY InUsed DEF CNext
  <2>2. held \in [Conn -> Nat]
    BY <2>1 DEF Opened, Consistent
  <2>3. cache'.free = Cardinality(Idle(cache')) /\ cache'.free <= NumCache
    BY DEF ConnCacheInv, Consistent
  <2>4. ASSUME NEW s \in Server, AcquireCached(s) PROVE FALSE
    <3>1. PICK c : c = cache.hash[s]
      OBVIOUS
    <3>2. c \in Conn
      BY <2>1, <2>4, <3>1, RankOf DEF AcquireCached, Opened, Consistent, Table
    <3>3. held' = [held EXCEPT ![c] = @ + 1]
      BY <2>4, <3>1 DEF AcquireCached
    <3>4. held'[c] = held[c] + 1 /\ held[c] \in Nat
      BY <2>2, <3>2, <3>3
    <3> QED
      BY <3>2, <3>4
  <2>5. ASSUME NEW s \in Server, AcquireNew(s) \/ ConnectUncached(s) PROVE FALSE
    <3>1. PICK c \in Unused : held' = [held EXCEPT ![c] = 1]
      BY <2>5 DEF AcquireNew, ConnectUncached
    <3>2. c \in Conn /\ cache.st[c] # "live"
      BY DEF Unused
    <3>3. held[c] = 0
      BY <2>1, <2>2, <3>2 DEF Opened, Consistent, Referred
    <3>4. held'[c] = 1
      BY <2>2, <3>1, <3>2
    <3> QED
      BY <3>2, <3>3, <3>4
  <2>6. \A s \in Server : ~AcquireFailed(s)
    BY DEF AcquireFailed
  <2>7. \A c \in Conn : ~EnterCache(c) /\ ~Rpc(c) /\ ~RpcFailed(c)
    BY DEF EnterCache, Rpc, RpcFailed
  <2>8. ~Terminate
    BY DEF Terminate
  <2>9. PICK c \in Conn : Free(c)
    BY <2>4, <2>5, <2>6, <2>7, <2>8 DEF CNext
  <2> QED
    BY <2>1, <2>3, <2>9, FreeKeeps
<1> QED
  BY <1>1, ConnCacheInvariant, PTL DEF CSpec, LeastRecentlyUsed

=============================================================================
