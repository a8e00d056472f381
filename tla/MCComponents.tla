---------------------------- MODULE MCComponents ----------------------------
(* The components that share no state with another, each by itself: unit    *)
(* says which of them moves.                                                *)
EXTENDS HostList, ConnCache, Auth, Gfwhere, GfmOp, StatCache, MCEvents

(***************************************************************************)
(* HostList: every host file of up to three lines with up to three cores.  *)
(***************************************************************************)
FileLine == [host : BOOLEAN, ncore : {<<>>} \cup {<<k>> : k \in 0..3}]

\* A line that names no host has no core count either.
AllFiles == {f \in UNION {[1..k -> FileLine] : k \in 0..3} :
               \A i \in 1..Len(f) : f[i].host \/ f[i].ncore = <<>>}

(***************************************************************************)
(* Gfwhere: every batch of up to four tasks, files that fill a command     *)
(* alone, with another, or exactly, and one without replica.               *)
(***************************************************************************)
MCPathSize == [f \in {"f1", "f2", "f3", "f6"} |->
                 CASE f = "f1" -> 1 [] f = "f2" -> 2 [] f = "f3" -> 3 [] f = "f6" -> 6]
MCReplicas == [f \in DOMAIN MCPathSize |->
                 CASE f = "f1" -> {"h1"} [] f = "f2" -> {} [] f = "f3" -> {"h1", "h2"} [] f = "f6" -> {"h2"}]
MCBatches  == UNION {[1..n -> DOMAIN MCPathSize \cup {"nil"}] : n \in 0..4}

(***************************************************************************)
(* GfmOp: an operation of each kind, after a first one that may leave a    *)
(* file open or a connection in the cache.                                 *)
(***************************************************************************)
MCOps == <<{gfm_create_fd(1)},
           {gfs_mkdir(0), gfs_rename(1, 1), gfs_link(1, 0), gfs_statfs, gfm_open_fd(0), gfs_fstat,
            gfm_close_fd}>>

(***************************************************************************)
(* StatCache: a directory of itself, a file that others change, and one    *)
(* that they do not.                                                       *)
(***************************************************************************)
MCListing == <<"dot", "f", "g">>

(***************************************************************************)
(* One of them                                                             *)
(***************************************************************************)
VARIABLE unit

allvars == <<unit, hvars, cvars, authvars, wvars, gfmvars, scvars, evvars>>

\* The others are in one of their initial states.
Init ==
  /\ unit \in {"hosts", "cache", "auth", "gfwhere", "gfm", "stat", "events"}
  /\ HInit /\ (unit # "hosts" => file = <<>> /\ ~hostfile)
  /\ CInit
  /\ AuthInit /\ (unit # "auth" => /\ cl.kind = "sync" /\ cl.methods = {} /\ sv.methods = {}
                                   /\ ~sv.known /\ ~keys.readable /\ keys.key = 0)
  /\ GfwhereInit /\ (unit # "gfwhere" => gf.batch = <<>>)
  /\ GfmInit
  /\ StatCacheInit
  /\ EventInit

Next ==
  /\ UNCHANGED unit
  /\ \/ unit = "hosts"   /\ HNext         /\ UNCHANGED <<cvars, authvars, wvars, gfmvars, scvars, evvars>>
     \/ unit = "cache"   /\ CNext         /\ UNCHANGED <<hvars, authvars, wvars, gfmvars, scvars, evvars>>
     \/ unit = "auth"    /\ AuthNext      /\ UNCHANGED <<hvars, cvars, wvars, gfmvars, scvars, evvars>>
     \/ unit = "gfwhere" /\ GfwhereNext   /\ UNCHANGED <<hvars, cvars, authvars, gfmvars, scvars, evvars>>
     \/ unit = "gfm"     /\ GfmNext       /\ UNCHANGED <<hvars, cvars, authvars, wvars, scvars, evvars>>
     \/ unit = "stat"    /\ StatCacheNext /\ UNCHANGED <<hvars, cvars, authvars, wvars, gfmvars, evvars>>
     \/ unit = "events"  /\ EventNext     /\ UNCHANGED <<hvars, cvars, authvars, wvars, gfmvars, scvars>>

\* The fairness of the unit that moves: of the program, and of what answers it.
Step == \/ unit = "hosts" /\ HNext      /\ UNCHANGED <<unit, cvars, authvars, wvars, gfmvars, scvars, evvars>>
        \/ unit = "auth" /\ AuthClient  /\ UNCHANGED <<unit, hvars, cvars, wvars, gfmvars, scvars, evvars>>
        \/ unit = "gfm" /\ GfmStep      /\ UNCHANGED <<unit, hvars, cvars, authvars, wvars, scvars, evvars>>
        \/ unit = "events" /\ EventStep /\ UNCHANGED <<unit, hvars, cvars, authvars, wvars, gfmvars, scvars>>

Reply == \/ unit = "auth" /\ gfarm_authorize /\ UNCHANGED <<unit, hvars, cvars, wvars, gfmvars, scvars, evvars>>
         \/ unit = "gfm" /\ GfmServe         /\ UNCHANGED <<unit, hvars, cvars, authvars, wvars, scvars, evvars>>
         \/ unit = "events" /\ Outside       /\ UNCHANGED <<unit, hvars, cvars, authvars, wvars, gfmvars, scvars>>

Spec == Init /\ [][Next]_allvars /\ WF_allvars(Step) /\ WF_allvars(Reply)

UnderWay == \/ Dealing
            \/ sv.pc # "start" /\ ~AuthEnded
            \/ op.pc # "idle"
            \/ InProgress # {}

\* What has begun comes to its end: the deal, with a round that adds nothing, too;
\* an authentication whose server has told its methods, whatever the key does
\* meanwhile, on both sides unless a multiplexed client has Retried, which ends
\* alone; an operation on gfmd, even if gfmd does not come back; the requests of
\* the event queue, whichever hosts answer.
EveryStartEnds == UnderWay ~> ~UnderWay
=============================================================================
