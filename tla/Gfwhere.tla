------------------------------ MODULE Gfwhere -------------------------------
(* Where the input of a task is (affinity.rb, gfarmssh.rb): on_trace asks   *)
(* gfwhere for the hosts of the first prerequisite of every file task of a  *)
(* batch, as many files with one command as its length allows.  The answer, *)
(* whose form depends on the number of files, gives the tasks' locality.    *)
EXTENDS Naturals, Sequences, FiniteSets, SequencesExt

CONSTANTS Batches,   \* sequences of first prerequisites; NoInput for a task without
          NoInput,
          PathSize,  \* the length of the path of each file in Gfarm
          Replicas,  \* the hosts of each file: {} if it has none or does not exist
          Limit      \* 20480

File == DOMAIN PathSize

ASSUME GfwhereAssumption == /\ NoInput \notin File /\ Limit \in Nat
                            /\ Batches \subseteq Seq(File \cup {NoInput})

VARIABLES gf,        \* where on_trace and gfwhere are: the batch, the tasks of it that
                     \* are seen, the rest of the list, the files of cmd, count
          where,     \* result
          local      \* the locality of each task of the batch

wvars == <<gf, where, local>>

\* cmd.size: "gfwhere", and a blank before each path.
CmdSize(c) == FoldLeft(LAMBDA s, f : s + 1 + PathSize[f], 7, c)

\* What gfwhere prints: of one file the hosts only, of several a line with the
\* name of the file before the hosts, of none nothing.
Answer(c) == [named |-> Len(c) > 1, hosts |-> [f \in Range(c) |-> Replicas[f]]]

\* parse_proc: if count is 1 the whole answer is the hosts, even if there are
\* none; else those after each name, if there are any.
ParseProc(c, n, x) ==
  LET found == IF n = 1 THEN Range(c)
               ELSE {f \in DOMAIN x.hosts : x.named /\ x.hosts[f] # {}}
  IN  [f \in DOMAIN where \cup found |-> IF f \in found THEN x.hosts[f] ELSE where[f]]

RunCommand == where' = ParseProc(gf.cmd, gf.count, Answer(gf.cmd))

\* filenames << name, for a task that has a first prerequisite.
Collect == /\ gf.pc = "trace" /\ gf.seen < Len(gf.batch)
           /\ LET f == gf.batch[gf.seen + 1]
              IN  gf' = [gf EXCEPT !.seen = @ + 1, !.rest = IF f = NoInput THEN @ ELSE Append(@, f)]
           /\ UNCHANGED <<where, local>>

OnTrace == /\ gf.pc = "trace" /\ gf.seen = Len(gf.batch)
           /\ gf' = [gf EXCEPT !.pc = "list"]
           /\ UNCHANGED <<where, local>>

\* Mutant of AddPath: count is not reset.
AddPathCounting ==
  /\ gf.pc = "list" /\ gf.rest # <<>>
  /\ LET f == Head(gf.rest)
         full == CmdSize(gf.cmd) + PathSize[f] + 1 > Limit
     IN  /\ gf' = [gf EXCEPT !.rest = Tail(@), !.cmd = IF full THEN <<f>> ELSE Append(@, f),
                             !.count = @ + 1]
         /\ IF full THEN RunCommand ELSE UNCHANGED where
  /\ UNCHANGED local

\* The next path is added to the command, which is run first if it is full.
AddPath ==
  /\ gf.pc = "list" /\ gf.rest # <<>>
  /\ LET f == Head(gf.rest)
         full == CmdSize(gf.cmd) + PathSize[f] + 1 > Limit
     IN  /\ gf' = [gf EXCEPT !.rest = Tail(@), !.cmd = IF full THEN <<f>> ELSE Append(@, f),
                             !.count = IF full THEN 1 ELSE @ + 1]
         /\ IF full THEN RunCommand ELSE UNCHANGED where
  /\ UNCHANGED local

\* The last command, if there is one.
LastCommand == /\ gf.pc = "list" /\ gf.rest = <<>>
               /\ gf' = [gf EXCEPT !.pc = "locality"]
               /\ IF gf.count > 0 THEN RunCommand ELSE UNCHANGED where
               /\ UNCHANGED local

\* t.locality = gfwhere_result[...], nil if it is not there.
SetLocality == /\ gf.pc = "locality"
               /\ gf' = [gf EXCEPT !.pc = "done"]
               /\ local' = [i \in DOMAIN gf.batch |-> IF gf.batch[i] \in DOMAIN where THEN where[gf.batch[i]]
                                                      ELSE {}]
               /\ UNCHANGED where

GfwhereInit == /\ \E b \in Batches : gf = [pc |-> "trace", batch |-> b, seen |-> 0, rest |-> <<>>,
                                     cmd |-> <<>>, count |-> 0]
               /\ where = <<>> /\ local = <<>>

GfwhereNext == Collect \/ OnTrace \/ AddPath \/ LastCommand \/ SetLocality

GfwhereSpec == GfwhereInit /\ [][GfwhereNext]_wvars

(***************************************************************************)
(* Properties                                                              *)
(***************************************************************************)
\* Wherever the list is split, and whatever else is in it, every task gets the
\* hosts of its file: none is lost between two commands, and the answer for the
\* single file of a last command is not taken for one with names.
LocalityFound == gf.pc = "done" =>
                   \A i \in DOMAIN gf.batch : gf.batch[i] # NoInput => local[i] = Replicas[gf.batch[i]]

=============================================================================
