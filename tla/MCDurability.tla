---------------------------- MODULE MCDurability ----------------------------
(***************************************************************************)
(* The ways of opening and using the DB that Durability is checked for.    *)
(***************************************************************************)
EXTENDS Durability

Base == [mode |-> "PointInTime", avoid_flush |-> FALSE, paranoid |-> TRUE,
         power |-> TRUE, tails |-> {"clean"}, entries |-> FALSE, wal_dir |-> FALSE, sync_wal |-> FALSE,
         faults |-> {}, batches |-> {CFs}, syncs |-> {FALSE}, max_flushes |-> 1,
         writes |-> 2, files |-> 3, crashes |-> 1]

Synchronous == [Base EXCEPT !.syncs = BOOLEAN, !.tails = {"short", "bad"}]

MCConfigs ==
    {[Base EXCEPT !.max_flushes = 2, !.batches = {{c} : c \in CFs}],
     Synchronous,
     [Synchronous EXCEPT !.mode = "TolerateCorruptedTail", !.tails = {"clean", "short"}],
     [Synchronous EXCEPT !.mode = "AbsoluteConsistency"],
     [Synchronous EXCEPT !.mode = "SkipAnyCorrupted"],
     [Base EXCEPT !.power = FALSE, !.batches = (SUBSET CFs) \ {{}}],
     [Base EXCEPT !.power = FALSE, !.sync_wal = TRUE, !.syncs = BOOLEAN, !.writes = 1],
     [Base EXCEPT !.entries = TRUE],
     [Base EXCEPT !.entries = TRUE, !.wal_dir = TRUE, !.writes = 1, !.crashes = 2],
     [Base EXCEPT !.avoid_flush = TRUE, !.tails = {"short"}, !.files = 4, !.crashes = 2],
     [Base EXCEPT !.syncs = BOOLEAN, !.faults = {"sync", "table", "manifest"}],
     [Base EXCEPT !.syncs = {TRUE}, !.faults = {"sync", "table"}, !.paranoid = FALSE],
     [Base EXCEPT !.faults = {"log"}],
     [Base EXCEPT !.syncs = BOOLEAN, !.faults = {"log", "sync"}, !.paranoid = FALSE,
                  !.writes = 1]}

\* SyncWAL beside the writers, with a loss of power
SyncWALConfigs == {[Base EXCEPT !.sync_wal = TRUE, !.writes = 1, !.crashes = 0]}

Symmetry == Permutations(CFs) \cup Permutations(Jobs)
=============================================================================
