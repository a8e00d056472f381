------------------------------- MODULE Protocol ------------------------------
(* What the calls of gfm_client.c and gfs_client.c send and read: the       *)
(* fields, by their letter of gfp_xdr_send and gfp_xdr_recv.  "i" and "l"   *)
(* are numbers, "s" is a string and "B" a block that the reader allocates,  *)
(* "b" a block that it has room for.  The result of a call begins with an   *)
(* error code, and ends with it unless it is zero.                          *)
EXTENDS Integers, Sequences, FiniteSets, SequencesExt, FiniteSetsExt

\* The fields a call sends after its number, and those it reads after the error code.
Call(sends, reads) == [sends |-> sends, reads |-> reads]

Nothing == <<>>
Stat == <<"l", "l", "i", "l", "s", "s", "l", "l", "l", "i", "l", "i", "l", "i">>
LockRange == <<"l", "l", "i", "i">>
User == <<"s", "s", "s", "s">>

\* Hosts, users and groups, one at a time.
HostCalls ==
  [host_info_set    |-> Call(<<"s", "s", "i", "i", "i">>, Nothing),
   host_info_modify |-> Call(<<"s", "s", "i", "i", "i">>, Nothing),
   host_info_remove |-> Call(<<"s">>, Nothing)]

UserCalls ==
  [user_info_get_by_gsi_dn |-> Call(<<"s">>, User),
   user_info_set    |-> Call(User, Nothing),
   user_info_modify |-> Call(User, Nothing),
   user_info_remove |-> Call(<<"s">>, Nothing)]

\* The users of a group follow their number.
GroupCalls ==
  [group_info_set    |-> Call(<<"s", "i", "s">>, Nothing),
   group_info_modify |-> Call(<<"s", "i", "s">>, Nothing),
   group_info_remove |-> Call(<<"s">>, Nothing)]

\* The descriptors of a compound.
CompoundCalls ==
  [compound_begin    |-> Call(Nothing, Nothing),
   compound_end      |-> Call(Nothing, Nothing),
   compound_on_error |-> Call(<<"i">>, Nothing),
   get_fd            |-> Call(Nothing, <<"i">>),
   put_fd            |-> Call(<<"i">>, Nothing),
   save_fd           |-> Call(Nothing, Nothing),
   restore_fd        |-> Call(Nothing, Nothing),
   create            |-> Call(<<"s", "i", "i">>, <<"l", "l", "i">>),
   open              |-> Call(<<"s", "i">>, <<"l", "l", "i">>),
   open_root         |-> Call(<<"i">>, Nothing),
   open_parent       |-> Call(<<"i">>, Nothing)]

\* What is asked of an open file or directory.
FileCalls ==
  [close           |-> Call(Nothing, Nothing),
   verify_type     |-> Call(<<"i">>, Nothing),
   verify_type_not |-> Call(<<"i">>, Nothing),
   bequeath_fd     |-> Call(Nothing, Nothing),
   inherit_fd      |-> Call(<<"i">>, Nothing),
   fstat           |-> Call(Nothing, Stat),
   futimes         |-> Call(<<"l", "i", "l", "i">>, Nothing),
   fchmod          |-> Call(<<"i">>, Nothing),
   fchown          |-> Call(<<"s", "s">>, Nothing)]

CksumCalls ==
  [cksum_get |-> Call(Nothing, <<"s", "b", "i">>),
   cksum_set |-> Call(<<"s", "b", "i", "l", "i">>, Nothing)]

\* Names.
NameCalls ==
  [statfs     |-> Call(Nothing, <<"l", "l", "l">>),
   remove     |-> Call(<<"s">>, Nothing),
   rename     |-> Call(<<"s", "s">>, Nothing),
   flink      |-> Call(<<"s">>, Nothing),
   mkdir      |-> Call(<<"s", "i">>, Nothing),
   symlink    |-> Call(<<"s", "s">>, Nothing),
   readlink   |-> Call(Nothing, <<"s">>),
   getdirpath |-> Call(Nothing, <<"s">>)]

\* Quotas: a name, and 17 or 9 numbers.
QuotaCalls ==
  [seek        |-> Call(<<"l", "i">>, <<"l">>),
   quota_get   |-> Call(<<"s">>, <<"s">> \o [k \in 1..17 |-> "l"]),
   quota_set   |-> Call(<<"s">> \o [k \in 1..9 |-> "l"], Nothing),
   quota_check |-> Call(Nothing, Nothing)]

\* Attributes, of both modes.
XattrCalls ==
  [setxattr    |-> Call(<<"s", "b", "i">>, Nothing),
   getxattr    |-> Call(<<"s">>, <<"B">>),
   listxattr   |-> Call(Nothing, <<"B">>),
   removexattr |-> Call(<<"s">>, Nothing)]

\* Sent by gfsd; locks.
GfsdCalls ==
  [reopen      |-> Call(Nothing, <<"l", "l", "i", "i", "i">>),
   close_read  |-> Call(<<"l", "i">>, Nothing),
   close_write |-> Call(<<"l", "l", "i", "l", "i">>, Nothing),
   lock        |-> Call(LockRange, Nothing),
   trylock     |-> Call(LockRange, Nothing),
   unlock      |-> Call(LockRange, Nothing),
   lock_info   |-> Call(LockRange, <<"l", "l", "i", "s", "l">>),
   switch_back_channel |-> Call(Nothing, Nothing),
   hostname_set        |-> Call(<<"s">>, Nothing)]

ReplicaCalls ==
  [replica_remove_by_host |-> Call(<<"s", "i">>, Nothing),
   replica_remove_by_file |-> Call(<<"s">>, Nothing),
   replica_adding  |-> Call(<<"s">>, <<"l", "l", "l", "i">>),
   replica_added   |-> Call(<<"i", "l", "i">>, Nothing),
   replica_added2  |-> Call(<<"i", "l", "i", "l">>, Nothing),
   replica_remove  |-> Call(<<"l", "l">>, Nothing),
   replica_add     |-> Call(<<"l", "l", "l">>, Nothing),
   process_alloc       |-> Call(<<"i", "b">>, <<"l">>),
   process_alloc_child |-> Call(<<"i", "b", "l", "i", "b">>, <<"l">>),
   process_set         |-> Call(<<"i", "b", "l">>, Nothing)]

\* gfs_client.c: what is asked of a file system node, of the descriptor in the first field.
NodeCalls ==
  [gfs_close     |-> Call(<<"i">>, Nothing),
   gfs_pread     |-> Call(<<"i", "i", "l">>, <<"b">>),
   gfs_pwrite    |-> Call(<<"i", "b", "l">>, <<"i">>),
   gfs_ftruncate |-> Call(<<"i", "l">>, Nothing),
   gfs_fsync     |-> Call(<<"i", "i">>, Nothing),
   gfs_fstat     |-> Call(<<"i">>, <<"l", "l", "i", "l", "i">>),
   gfs_cksum_set |-> Call(<<"i", "s", "b">>, Nothing),
   gfs_lock      |-> Call(<<"i">> \o LockRange, Nothing),
   gfs_trylock   |-> Call(<<"i">> \o LockRange, Nothing),
   gfs_unlock    |-> Call(<<"i">> \o LockRange, Nothing),
   gfs_lock_info |-> Call(<<"i">> \o LockRange, <<"l", "l", "i", "s", "l">>),
   gfs_replica_add_from |-> Call(<<"s", "i", "i">>, Nothing),
   gfs_statfs    |-> Call(<<"s">>, <<"i", "l", "l", "l", "l", "l", "l">>)]

\* The calls whose result has a fixed number of fields.
PlainCalls == HostCalls @@ UserCalls @@ GroupCalls @@ CompoundCalls @@ FileCalls @@ CksumCalls
                @@ NameCalls @@ QuotaCalls @@ XattrCalls @@ GfsdCalls @@ ReplicaCalls @@ NodeCalls

\* The entries of the calls that read a list.
HostEntry     == <<"s", "s", "i", "i", "i", "i">>
UserEntry     == User
GroupEntry    == <<"s", "i">>
ScheduleEntry == <<"s", "i", "i", "i", "l", "l", "l", "l", "i", "i">>
DirEntry      == <<"b", "i", "l">>
DirPlusEntry  == <<"b">> \o Stat
XmlAttrEntry  == <<"s", "s">>
=============================================================================
