---------------------------- MODULE MCWriteImpl ----------------------------
(***************************************************************************)
(* The calls used to model-check WriteImpl.                                *)
(***************************************************************************)
EXTENDS WriteImpl, TLC

Put == [batch |-> TRUE, sync |-> FALSE, no_slowdown |-> FALSE,
        disable_wal |-> FALSE, disable_memtable |-> FALSE, merge |-> FALSE,
        ignore_missing |-> FALSE, pre_release |-> FALSE, persistent |-> FALSE,
        callback |-> "none", count |-> 2, batch_cnt |-> 1, bad_cf |-> 0]

SyncPut == [Put EXCEPT !.sync = TRUE, !.count = 1]
NoWal == [Put EXCEPT !.disable_wal = TRUE, !.count = 1]
SyncNoWal == [NoWal EXCEPT !.sync = TRUE]
NoSlowdown == [Put EXCEPT !.no_slowdown = TRUE, !.count = 1]
MergePut == [Put EXCEPT !.merge = TRUE, !.count = 1]
Checked == [Put EXCEPT !.callback = "batchable"]
CheckedAlone == [Put EXCEPT !.callback = "alone", !.count = 1]
Flush == [Put EXCEPT !.batch = FALSE]
WalOnly == [Put EXCEPT !.disable_memtable = TRUE]

\* WritePrepared: a prepare with two sub-batches, a commit, and a commit whose
\* commit-time batch is kept for recovery only
PreparePut == [Put EXCEPT !.pre_release = TRUE, !.batch_cnt = 2]
PrepareMerge == [PreparePut EXCEPT !.merge = TRUE]
Commit == [WalOnly EXCEPT !.pre_release = TRUE]
StateCommit == [Commit EXCEPT !.persistent = TRUE]

\* a batch whose second key names a dropped column family
BadPut == [Put EXCEPT !.bad_cf = 2]
TolerantPut == [BadPut EXCEPT !.ignore_missing = TRUE]

GroupKinds == {Put, SyncPut, NoWal, SyncNoWal, NoSlowdown, MergePut, Checked,
               CheckedAlone, Flush, WalOnly}
CommitKinds == {PrepareMerge, Commit, StateCommit, Flush}
ErrorKinds == {Put, SyncPut, BadPut, TolerantPut, Checked}
StateKinds == {Put, StateCommit}
Symmetry == Permutations(Writers)
=============================================================================
