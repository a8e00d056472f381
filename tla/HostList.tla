------------------------------ MODULE HostList -------------------------------
(***************************************************************************)
(* Manager#setup_hostlist (manager.rb): the host file is read, and         *)
(* @core_list is dealt from it in rounds, one core of each host that has   *)
(* cores left.  Operator starts one worker per entry of @core_list.        *)
(*                                                                         *)
(* A line is reduced to whether it names a host, and to its core count, if *)
(* it has one; a host is the number of its line.                           *)
(***************************************************************************)
EXTENDS Naturals, Sequences, FiniteSets

CONSTANTS Files,      \* the host files: sequences of lines
          Localhost   \* the entry used when there is no host file

HostLine == [host : BOOLEAN, ncore : Seq(Nat)]

ASSUME FilesAssumption == Files \subseteq Seq(HostLine)

VARIABLES file,      \* the lines of the host file
          hostfile,  \* is one given?
          phase,     \* "setup", "read", "deal" or "done"
          pos,       \* the line, or the entry of tmplist, that is next
          tmplist,
          sz,
          coreList   \* @core_list

hvars == <<file, hostfile, phase, pos, tmplist, sz, coreList>>

HInit ==
  /\ file \in Files
  /\ hostfile \in BOOLEAN
  /\ phase = "setup"
  /\ pos = 1
  /\ tmplist = <<>>
  /\ sz = 0
  /\ coreList = <<>>

\* ncore || 1
Ncore(i) == IF file[i].ncore = <<>> THEN 1 ELSE Head(file[i].ncore)

NoFile ==
  /\ phase = "setup"
  /\ ~hostfile
  /\ coreList' = <<Localhost>>
  /\ phase' = "done"
  /\ UNCHANGED <<file, hostfile, pos, tmplist, sz>>

OpenFile ==
  /\ phase = "setup"
  /\ hostfile
  /\ phase' = "read"
  /\ UNCHANGED <<file, hostfile, pos, tmplist, sz, coreList>>

\* tmplist << ([host] * ncore)
ReadLine ==
  /\ phase = "read"
  /\ pos <= Len(file)
  /\ tmplist' = IF file[pos].host
                  THEN Append(tmplist, [k \in 1..Ncore(pos) |-> pos])
                  ELSE tmplist
  /\ pos' = pos + 1
  /\ UNCHANGED <<file, hostfile, phase, sz, coreList>>

EndFile ==
  /\ phase = "read"
  /\ pos > Len(file)
  /\ phase' = "deal"
  /\ pos' = 1 /\ sz' = 0
  /\ UNCHANGED <<file, hostfile, tmplist, coreList>>

\* Mutant of Deal: all the cores of a host at once.
DealAll ==
  /\ phase = "deal"
  /\ pos <= Len(tmplist)
  /\ coreList' = coreList \o tmplist[pos]
  /\ tmplist' = [tmplist EXCEPT ![pos] = <<>>]
  /\ pos' = pos + 1
  /\ UNCHANGED <<file, hostfile, phase, sz>>

\* @core_list << a.shift if !a.empty?
Deal ==
  /\ phase = "deal"
  /\ pos <= Len(tmplist)
  /\ IF tmplist[pos] = <<>>
       THEN UNCHANGED <<coreList, tmplist>>
       ELSE /\ coreList' = Append(coreList, Head(tmplist[pos]))
            /\ tmplist' = [tmplist EXCEPT ![pos] = Tail(@)]
  /\ sz' = sz + Len(tmplist'[pos])
  /\ pos' = pos + 1
  /\ UNCHANGED <<file, hostfile, phase>>

\* end while sz>0
Round ==
  /\ phase = "deal"
  /\ pos > Len(tmplist)
  /\ IF sz > 0 THEN pos' = 1 /\ sz' = 0 /\ UNCHANGED phase
               ELSE phase' = "done" /\ UNCHANGED <<pos, sz>>
  /\ UNCHANGED <<file, hostfile, tmplist, coreList>>

HNext == NoFile \/ OpenFile \/ ReadLine \/ EndFile \/ Deal \/ Round

HSpec == HInit /\ [][HNext]_hvars /\ WF_hvars(HNext)

-----------------------------------------------------------------------------
(* Properties.                                                              *)

\* The positions of @core_list that hold x, up to i.
Places(x, i) == {j \in 1..i : coreList[j] = x}
Lap(i) == Cardinality(Places(coreList[i], i))

(* Cores are dealt fairly ("alternative order"): the n-th core of a host    *)
(* comes before the next core of any other, hosts in the order of the file. *)
(* At the end every host has as many entries as it has cores, whatever the  *)
(* other counts are, 0 included; lines that name no host have none.         *)
Alternating ==
  /\ \A i, j \in 1..Len(coreList) : i < j =>
       \/ Lap(i) < Lap(j)
       \/ Lap(i) = Lap(j) /\ coreList[i] < coreList[j]
  /\ phase = "done" /\ hostfile => \A i \in 1..Len(file) :
       Cardinality(Places(i, Len(coreList))) = IF file[i].host THEN Ncore(i) ELSE 0

\* Reading and dealing go on.
Dealing == phase \in {"read", "deal"}
=============================================================================
