# A TLA+ model of RocksDB as shipped in rust-rocksdb

The repository is a Rust wrapper (`src/src`) around an in-tree copy of RocksDB
(`src/rocksdb-sys/rocksdb`). The state that is hard to get right lives in the
C++ code: the write queue, the write path, the life of a write-ahead log from
its first record to its deletion, recovery, the caches readers use without a
lock, and transactions. The wrapper itself forwards calls. This project models
the C++ parts; paths below are relative to `src/rocksdb-sys/rocksdb`.

## Parts and how they interact

A `Write` call joins the **write queue** (`db/write_thread.cc`). The thread at
its head becomes leader of a group and runs the **write path**
(`DBImpl::WriteImpl`, `db/db_impl_write.cc`) for all of it: it prepares
(`PreprocessWrite`, which may switch memtables and logs), numbers the batches,
appends one record to the current log, inserts into the memtables (alone, or
with every member inserting its own batch in parallel), publishes the new
`LastSequence`, and hands the queue on.
## The write queue: `WriteThread`, `WriteQueue`

`WriteThread` models the class of that name one atomic step per action:
pushing a `Writer` onto the intrusive list behind `newest_writer_`, the second
list behind `newest_memtable_writer_` of a pipelined DB, the state word of
every Writer with its lazily made mutex (`Block`, `Wake`), the choice of a
group (`EnterAsBatchGroupLeader`, `EnterAsMemTableWriter`), parallel memtable
writers, and the exits, each of which walks the list while the writers it has
released may already have returned. Writers are stack addresses, so a pointer
into a frame that is gone is a fact of the model. The spinning phases of
`AwaitState` are one wait. A variable `config`, chosen at the start and never
changed, holds how the DB was opened (pipelined or not, concurrent memtable
writes or not), which calls threads make, whether WAL writes and inserts may
fail, and whether a thread's next `Writer` may have the address of its last.

`WriteQueue` is what the queue promises: a sequence of writers, the group its
leader has formed, and who is still inserting. `WriteThread` without
pipelining is shown to implement it (`ImplementsWriteQueue`), with the linked
list read backwards as the sequence.

Checked: at most one leader of each list (`ExclusiveLeaders`), no sleeping
writer that nobody will reach (`NoLostWriter`), no use of a Writer or group
that has left its owner's stack (`NoDanglingPointer`), the assertions of
`write_thread.cc` (`AssertionsHold`), and, under weak fairness of every
thread, that every call returns (`EveryCallReturns`, stated of one thread:
the specification tells threads apart nowhere, so what holds of one holds of
all). Weak fairness per thread is what an operating system gives a runnable thread; nothing else is assumed.

Bounds: three threads, each with two Writer addresses in the pipelined
configurations and one that is reused in the others. Three threads are the
fewest with a leader, a follower that may close the group, and a newcomer that
links itself during the hand-over. Batch sizes are small numbers around
`SmallBatch` and `MaxGroupSize`.
## The write path: `WriteImpl`

`WriteImpl` extends `WriteQueue` and models `DBImpl::WriteImpl` with one queue
and no pipelining. One call per writer; the constant `Kinds` lists the shapes
of call (sync, WAL or memtable disabled, merge, callbacks, pre-release
callbacks, commit-time batches, batches that name a dropped column family).
Every step of the function between two points where others can see a
difference is an action: refusal of bad calls, `PreprocessWrite` with
`WriteRecoverableState`, the forming of the group, callbacks, `WriteToWAL`,
serial insertion key by key, parallel insertion, `WriteStatusCheck`,
pre-release callbacks, `SetLastSequence`, exit. `BackgroundError` is a flush
that fails meanwhile. A record of the log keeps its sequence number, its
batches in order, whether its append succeeded and how far the log is synced.

Checked in the runs `MCWriteImpl` (every kind of call, no failures),
`MCWriteErrors` (failing appends, refused inserts, background errors) and
`MCWritePrepared` (a number per sub-batch, failing pre-release callbacks):

- `NoHalfBatchVisible`: a batch is visible whole or not at all;
- `SequencesAreUnique`: no two writes share a number;
- `ReplayAgrees`: recovery, which numbers a record's batches on its own,
  arrives at the numbers that were inserted;
- `AcknowledgedIsDurable`, `AcknowledgedIsVisible`: what OK means;
- `RefusedLeavesNoTrace`: a write its callback refused is nowhere;
- `NothingAfterFailedAppend`: nothing follows a record of unknown fate, unless the
  leader of its group was refused by its own callback: `WriteImpl` then skips
  `WriteStatusCheck`, and no error stops the next group;
- `LastSequenceNeverDecreases`, and `EveryWriteReturns` under weak fairness of
  every caller;
- the queue's own `SomebodyInCharge` and `LastOneCloses`.

Bounds: three writers and one call each. The interesting shapes (a leader
that must not take a follower, a refused batch between two others, a group
that closes under a follower) need at most three members.

## SuperVersions: `SuperVersion`

A reader uses the memtables and files of a column family through a reference
counted SuperVersion, and keeps its last one in a thread-local slot so that a
read takes no lock (`GetThreadLocalSuperVersion`,
`ReturnThreadLocalSuperVersion`, `InstallSuperVersion`,
`ResetThreadLocalSuperVersions` in `db/column_family.cc`, and
`ThreadLocalPtr::Swap`, `CompareAndSwap`, `Scrape` in `util/thread_local.cc`).
Every access to a reference count, a slot or the version number is a step; what
is done under the DB mutex in one go is one step. Readers read, pin a
SuperVersion in an iterator, or exit; an installer publishes a new SuperVersion
and sweeps the slots one by one.

Checked with two readers and four SuperVersions: nobody touches one that was
cleaned up (`NoUseAfterFree`), the sweep and an exiting thread never drop the
last reference, which neither could clean up (`LocalIsNeverLast`, the
assertions `!was_last_ref`), nothing leaks or is cleaned twice (`NoLeak`,
`CleanedOnce`), a read is at least as fresh as what was installed before it
began (`FreshGet`), and calls end (`CallsReturn`). Two readers suffice for a
race over a slot beside one over a count; a third only repeats a second. The
theorems below hold for any number.

## Logs, flushes, crashes and recovery: `Durability`, `StableStore`

`StableStore` is the promise: items are accepted, some of them become stable, a
crash may lose accepted items that are not stable, and what is lost stays lost.
`Durability` models how the DB keeps it: the writer's appends and syncs, the
list `logs_` with its `getting_synced` marks, `SyncWAL`, memtable switches that
start a new log, background flushes (`PickMemtablesToFlush`, `SyncClosedLogs`,
the table file, `InstallMemtableFlushResults`, `RollbackMemtableFlush`), the
queue of MANIFEST writers and the MANIFEST itself with records that are written
but not synced, the choice and deletion of obsolete logs, a crash between any two
of these, and `DB::Open`: reading the MANIFEST, replaying the logs under each
`wal_recovery_mode`, the flushes of recovery and the new log. A crash of the
process loses memory; a crash with loss of power also loses any suffix of what
was not synced and may leave a short or a damaged record in its place.
I/O errors may hit the log, its sync, the table file or the MANIFEST.

The run `MCDurability` chooses one of eleven configurations (recovery modes,
`avoid_flush_during_recovery`, paranoid checks on or off, errors, one or two
crashes) with two column families, two flush jobs and two writes.
`ImplementsStore` is the refinement: the abstract store's accepted items are
those recovery could find or memory holds, its stable ones those that a synced
write, `SyncWAL` or a flush promised. `BatchesStayWhole`: a batch over two
column families, flushed at different times, is there whole or not at all.
`UnflushedIsLogged`: whatever is in a memtable is in a log that recovery would
read for that column family and that nobody is about to delete. `LogsListOK`:
what `db_impl.h` says of `logs_`. `OpensAfterCrash`: logs that were cut short
do not stop `Open`.

Two writes and three or four logs are the least with a batch in an old log that
one column family still needs and the other does not; two jobs are the least
for flushes that finish out of order. MaxImm is two because a flush may take a
part of the list only when it has two entries.

## WritePrepared transactions: `CommitCache`

With this write policy data reaches the memtable when it is prepared, and
`IsInSnapshot` decides for every reader whether its transaction committed at or
before the reader's snapshot. `CommitCache` models what that answer is put
together from: the prepared heap with its heap of erased entries, the delayed
prepared transactions, the commit cache, `max_evicted_seq_`, the snapshot
cache and the old-commit map, together with the callers: prepare with several
sub-batches, commit (with data or without), rollback, plain writes, one write
queue or two, snapshots taken and released, a read at a snapshot or of the
latest data, and a transaction recovered from the log. Every lock-free load and
every critical section is a step.

The two loops of the prepared heap, and those of its callers, are written by what
they leave in the heap; `MCCommitCache` has them as loops, one entry at a time,
and its assumption `HeapLoopsAgree` compares the two for every heap of up to five
entries.

Checked with a commit cache of two entries (so that every third commit evicts),
up to six sequence numbers and one or two snapshots at a time:

- `IsInSnapshotIsRightOnTime`: the answer is right, on five conditions. Three
  are what the cache of 2^23 entries makes usual: the maximum never ran ahead of
  what is published, it never passed the transaction while that was prepared, and
  it did not pass it during a call that saw it uncommitted at first. The others
  are that no two snapshots have the same sequence number and that all of them
  fit into `snapshot_cache_`; the configurations of the run meet both. Each
  condition was found necessary, see below;
- `PreparedAboveMax`: no prepared number is at or below the maximum, and
  `AddPrepared` does not throw, under the first condition;
- `SnapshotMinIsSafe`: the `min_uncommitted_` of a snapshot never hides an
  uncommitted write, whatever happens between the two reads of `GetSnapshot`;
- `HeapDrains`: both heaps of the prepared heap are empty when no transaction is
  left, in whatever order they ended (the assertions of its destructor).

## Pessimistic transactions: `LockMgr`

`LockMgr` models `TransactionLockMgr` and the part of a pessimistic transaction
that uses it. A stripe's critical section is a step; a request that must wait
goes through the loop of `AcquireWithTimeout` (register with the deadlock
detector, wait, be notified or time out, deregister, try again). Time is a
counter that ticks. A transaction takes locks, sets a save point, rolls back to
it, prepares, commits, writes a batch (`CommitBatch`), rolls back and is
deleted; one that expires may have its locks stolen (`TryStealingLocks`) until
it enters a commit, and the exchange of `txn_state_` is the only thing between
the two. The list of holders of a shared lock is a set; when `IsLockExpired`
walks the list and stops half way, any subset of the holders that can be stolen
from may have been.

The run `MCLockMgr` chooses one of twelve configurations, each with two or three
transactions and one to three keys, built so that a hazard happens: expirations
beside waits with and without a timeout, shared locks that expire, prepared
holders, circles of three, upgrades, a search that gives up, save points, a
limit of one lock, batches that fail half way. Checked:

- `CommitHoldsLocks`: a transaction that writes its commit, or is prepared,
  holds every lock it was granted;
- `NoOrphanLock`: a lock in the table is one its holder knows of and will unlock;
- `NoDeadlock`, `RevMapCounts`: detecting transactions never wait in a circle,
  and the counters behind the detector's early exit are exact;
- `LimitHolds`: with exclusive locks `lock_cnt` counts the locked keys and stays
  within `max_num_locks`;
- `UnlimitedCallsReturn`: every request is answered, when no limit meets a timeout.

Fairness: a thread inside a call goes on, time passes, and a client does not
keep a transaction open for ever. Three transactions are needed for a circle
that is not two requests for each other's key, and for a waiter behind a thief.

Restrictions: a client gives up after a refused lock; one save point per
transaction; no writes after `Prepare`; the configurations with a limit have one
stripe; in the configurations all transactions that
share a lock expire, or none does; spurious
wake-ups are left out.

## How the modules fit together

`WriteImpl` extends `WriteQueue`, so that the write path runs on the queue's
contract, and `WriteThread` is shown to implement that contract. `Durability`
takes the write thread as given, one writer at a time, which is what the queue
provides; an append in it is the `WriteToWAL` step of `WriteImpl`. `CommitCache`
takes from `WriteImpl` that pre-release callbacks run one at a time in each
queue and before publication. `LockMgr` and `SuperVersion` share no state with
the others.

Options, kinds of call and bounds that differ between instances are in one
variable `config`, or a constant `Kinds`, chosen at the start and never changed.
A run therefore covers several instances.
## What is proved

`WriteQueueProofs` proves, for any finite set of writers, that `QueueInv` is
an invariant of `WriteQueue`: the leader is the first of the queue, the group
a prefix of it, the counter of a parallel group the number of members still
inserting. `ExclusiveLeader`, `SomebodyInCharge` and `LastOneCloses` follow
from it; none of them is inductive alone (that the last writer to finish
closes needs the exact counter, which needs the group to be a prefix).

`WriteImplTypes` shows that every step of the write path is a step of the queue
or leaves it alone, proves the type invariant, ties a writer's step to its place
in the queue (`StepPhase`) and states what a step leaves alone (`StepFrame`,
`GroupFrame`). It also holds the lemmas on the numbers a group hands out (they
start above `LastSequence` and follow each other in group order) and on how far
each batch has come at each step of its writer and of its leader. Two inductive
invariants rest on it.

The first, `WriteInv`, is about numbers and visibility. `WriteImplLog` holds the
lemmas on what of an acknowledged call is in the log.
`WriteImplProofs` assembles the invariant (`WriteInvariant`) and derives
`BatchesAreAtomic`, `NumbersAreUnique`, `OkMeansDurable`, `OkMeansVisible` and
`VisibleSequenceGrows`. These rest on the assumption `NoPersistentState` (no call
caches a recoverable state), because with such calls numbers are not unique: that
is the run `StaleLastSequence`. The assumptions on constants are the named
ASSUMEs of the modules.

The second, `LogInv` in `WriteImplLog`, is about the records of the log and needs
no such assumption. It has four parts besides the property `NothingAfterFailedAppend`:

- `TraceInv`: a call no leader has taken up has no number and is in no record;
  every callback of a group is checked before the group is logged; a record holds
  the batches of its group that were not refused, and a group once logged is
  logged as a whole; a refused call has no number and is not told OK;
- `NumbersAgree`: a number that was handed out to a batch of a record is the one
  replay will compute from the record's own number and the batches before it;
- `Numbering`: while a group is being numbered, the number its cursor stands at is
  the one replay will have at that batch. `NumbersAgree` is not inductive without
  it: a step sees only the cursor, not the batches in front;
- `StopsWriting`: after a failed append the DB has an error that stops writes, or
  the group that failed is still on its way to raise it and no other group exists.

From it follow `RefusedWritesVanish`, `ReplayIsConsistent` and
`FailedAppendIsLast`.

`SuperVersionProofs` proves, for any finite set of readers and any number of
installations, that no SuperVersion is used after it was freed
(`SuperVersionsOutliveTheirUse`), that slots never own the last reference
(`SlotsNeverOwnTheLast`), that nothing leaks (`NothingLeaks`),
that one thread alone cleans it up (`CleanedUpOnce`) and that reads are fresh
(`ReadsAreFresh`). The inductive invariant `IInv` adds to the types where the
installer is (`Installing`), what each slot may hold at each place of its thread
(`Slot`), and above all `Counted`: a reference count is exactly the number of
slots, local variables, swept entries, iterators and the column family itself
that refer to it. From exact counts follows that what is referred to is alive
(`Alive`) and that the thread that takes a count to zero is alone; no property
above is inductive without them. It rests on the assumptions that the set of
readers is finite and that the mark `kSVInUse` is no SuperVersion.

`LockMgrProofs` proves the safety properties of `LockMgr` for any
finite sets of transactions and keys and every configuration, in layers, each an
invariant the next may use:

1. `TypesHold`, and `LifeInv`: which transaction states and tracked keys go with
   each place in a call, and what a request asks for;
2. `LocksAccounted` (`NoOrphanLock`), from `LifeInv`: every step that adds a holder
   leaves it with a transaction that tracks the key or is about to unlock it;
3. `CommitsHoldTheirLocks`: with `Uniform`, `CommitHoldsLocks`. The strengthening
   says that a transaction that was not robbed owns all it tracks and has not given
   back (`OwnInv`), which a thief preserves because a lock that can expire has only
   holders that can (`ExpireInv`). `Uniform` is needed: when a transaction that
   expires shares a lock with one that does not, the lock carries one expiration
   time for both, and a thief drops the holder that never expires with the other;
4. `CountsAreExact` (`RevMapCounts`), with `WaitInv`: only a thread inside a wait is
   registered with the detector, and never for itself;
5. `NoCircleOfWaiters` (`NoDeadlock`), from the exact counts: when a waiter is let in
   without a search because its counter is zero, nobody waits for it and it closes
   no circle; otherwise the search found none. A circle is a set of waiters each of
   which waits for another of the set, so no induction along a path is needed;
6. `LimitIsKept` (`LimitHolds`): with exclusive locks only, a locked key has one
   holder (`OneHolder`) and `lock_cnt` is the number of locked keys (`CountInv`).

The assumptions are `TxnsAndKeys` (finite sets, keys are integers) and `ConfigsOK`
(the types of the options).

`CommitCachePrepared` and `CommitCacheProofs` prove all four properties of
`CommitCache` for every size of the commit cache, any number of transactions and
sub-batches, one write queue or two, and any finite set of snapshot objects. The
inductive invariant `Inv` (`CommitCacheInvariant`) has nine layers. In
`CommitCachePrepared`, about transactions on their way:

- `Types`, and `CallInv`: which numbers belong to which call at each of its steps,
  that calls and transactions do not share numbers, and that a commit is above what
  is published until its call is over;
- `HeapInv`: what is live in the heap belongs to a transaction or a call, and data
  that is neither live there nor was delayed is above `last_sequence` or has
  committed visibly; `HeapIsDrained` follows;
- `MaxInv`: while an entry is being evicted, nothing prepared is at or below the
  maximum that is about to be stored. `PreparedAboveMax` is not inductive without
  it, because the heap is emptied steps before the maximum is stored;
- `SnapInv`: `SnapshotMinIsSafe`, with the bound on the `min_uncommitted_` a
  snapshot has read before it knows its number.

`Grows`, what no step takes back (data, commits, the maximum, what is published),
is proved of every step once, and the layers about snapshots and readers use it.

In `CommitCacheProofs`, about committed ones:

- `CacheInv`: a committed number is in its cell of the cache, or its commit is at
  or below the maximum;
- `ListInv`: a live snapshot below the maximum is in the list that evictions are
  compared with, since it was fetched before the maximum was stored;
- `MapInv`: a committed entry that a live snapshot overlaps is in the cache or in
  the old-commit map. This is where the conditions on snapshots are needed;
- `ReadInv`: what a reader still knows about the commit it is looking for at each
  place in `IsInSnapshot`, the cell it has already read included.

`IsInSnapshotIsRight` is then one lemma for each place where the call returns. The
assumptions are `ConfigsOK` (the types of the options) and `HandlesFinite`. A prover
takes a CASE with two true guards as a free choice where TLC takes the first; such
guards made the first attempts at these proofs fail, and the definitions now say
the order.

Only model-checked: all liveness (`EveryCallReturns`, `EveryWriteReturns`,
`CallsReturn`, `UnlimitedCallsReturn`), which is out of the prover's reach; the
refinements `ImplementsWriteQueue` and `ImplementsStore`; everything about
`WriteThread` and `Durability`; and that the loops of the prepared heap leave what
`CommitCache` says they leave (`HeapLoopsAgree`). `WriteThread` walks its linked
lists with recursive operators and `Durability` folds over logs, so what these
compute for every input needs an induction over data that the prover cannot do.


## Runs, bounds and fairness

| run | shows | bounds |
|---|---|---|
| `MCWriteThread` | safety and refinement of the linked lists | three threads |
| `MCWriteThreadLive` | calls to the queue return | three threads, weak fairness of each |
| `MCWriteImpl` | the write path without failures | three writers, one call each |
| `MCWriteErrors` | the write path with failures, and that calls return | three writers, weak fairness of each |
| `MCWritePrepared` | a number per sub-batch, pre-release callbacks | three writers |
| `MCSuperVersion` | reference counts and slots, calls end | two readers, four SuperVersions, weak fairness inside a call |
| `MCDurability` | crash, recovery, refinement of `StableStore` | two column families, jobs, writes; four logs; two crashes |
| `MCCommitCache` | answers of `IsInSnapshot` | two cache entries, six sequence numbers |
| `MCLockMgr` | locks, deadlocks, expirations, requests return | three transactions, three keys, three ticks; fairness above |
| `SyncWALUnlists` | violated: `UnsyncedIsListed` | one write |
| `StaleLastSequence` | violated: `SequencesAreUnique` | two writers |
| `LimitSpins` | violated: `LockCallsReturn` | two transactions, a limit of one lock |

Deadlock checking is off where the modelled clients simply end; that no thread
is stuck inside a call is then the liveness property of that module.

## Not modelled, and why

- Table formats, block and log encoding, version edits as bytes, comparators, merge
  operators, compression: sequential encoders and decoders, where faults are of
  data and not of order. `Durability` sees of a log what survives, a prefix.
- Compaction: picking is a heuristic over sizes, the iterator a long sequential
  function. Its question to `IsInSnapshot` is in `CommitCache` (calls
  "compact").
- The numbers, logs and publication of `PipelinedWriteImpl` and the grouping of
  `WriteImplWALOnly`: the queue under the first is in `WriteThread`, the second
  queue of commits in `CommitCache`.
- Write stalls, the rate limiter, thread pools and the flush scheduler: they
  delay, and the modules leave the moment of a flush or the length of a wait
  open anyway. A stopped write is refused or waits; `WriteImpl` has the refusal.
- The lock-free skip list and the block caches: one step of the modules above
  them.
- Two-phase commit in recovery, recycled logs, dropped column families,
  `manual_wal_flush`, two-queue commits that carry data, `UndoGetForUpdate`,
  the deadlock buffer and lock tables per column family.
- Backup, checkpoint, TTL, blob and other utilities, the C, Java and Rust
  bindings: layers on the public interface.

The modules cover a small share of the lines of a code base of two hundred
thousand; what is covered is the concurrent core on which the rest relies.

## Where code and comments disagree

Three such places are runs of the project; TLC's trace is the argument.

- `StaleLastSequence`: `last_sequence` is read before `PreprocessWrite`, whose
  memtable switch may use sequence numbers for the cached recoverable state;
  the group then reuses them.
- `SyncWALUnlists`: a `SyncWAL` that overlaps a write and a memtable switch takes
  a log with an unsynced record off `logs_`.
- `LimitSpins`: a request with a timeout that is refused for `max_num_locks` and
  whose time is up goes round the loop of `AcquireWithTimeout` for ever, with the
  stripe mutex held (`transaction_lock_mgr.cc:389`).

Others were met while modelling and are recorded here without a run.

Write queue and write path:

- a pipelined leader compares `newest_writer_` with the address of its last
  writer after that writer may have returned and been built again at the same
  address; the writers behind it are never woken (`write_thread.cc:569`);
- the error of a failed serial insert reaches only the leader
  (`db_impl_write.cc:309`), although `write_thread.cc:542` says it is
  propagated to the whole group;
- `SetLastSequence` runs whatever the pre-release callbacks returned
  (`db_impl_write.cc:395`; `pre_release_callback.h:22` says the sequence is
  not released then);
- `WriteStatusCheck` is skipped when the leader's own callback failed
  (`db_impl_write.cc:357`), so a failed append of the rest of the group does
  not stop later writes;
- a serial group is inserted with the leader's
  `ignore_missing_column_families` (`db_impl_write.cc:311`);
- `assert(bg_error_.ok())` (`db_impl_write.cc:700`) can fail when a flush sets
  the error between the test and the insert;
- `FinalStatus` (`write_thread.h:206`) asserts that a writer with an error was
  not refused by its callback, but the group's error goes to refused followers
  too;
- `CompleteParallelMemTableWriter` locks `leader->StateMutex()`
  (`write_thread.cc:510`), which a leader that never slept has not created;
- a follower may close a group in which an insert failed, against
  `assert(write_group->status.ok())` (`write_thread.cc:528`).

Logs, flushes and recovery:

- `need_log_dir_sync` is computed before `PreprocessWrite`, which may create the
  log whose directory entry is to be synced (`db_impl_write.cc:192`);
- after a rolled back flush with paranoid checks off, `PickMemtablesToFlush`
  may pick memtables that are not neighbours;
- `FlushJob::Cancel` after a failed `SyncClosedLogs` leaves the memtables marked
  as being flushed;
- the edit of a failed MANIFEST write may still reach the disk with a later
  sync, while the table file it names was deleted;
- point-in-time recovery reads on into log k+1 when log k lost its tail cleanly;
- a damaged record in a log that only one column family still needs makes `Open`
  fail with "SST file is ahead of WALs" when another was flushed beyond it
  (`db_impl_open.cc:812`); `OpensAfterCrash` excludes damage for this reason.

WritePrepared transactions:

- a transaction that was delayed when it was prepared, recovered ones included,
  is reported uncommitted between its commit and `RemovePrepared`, although
  `write_prepared_txn_db.h:119` says "Returns true if commit_seq <=
  snapshot_seq"; and `min_uncommitted` leaves delayed transactions out;
- a reader that misses the commit cache and then loads a maximum that has
  advanced in between takes an uncommitted transaction for committed;
- `max_evicted_seq_` may run ahead of the published sequence: `AddPrepared` then
  throws, and snapshots taken later are missing from the list;
- `CheckAgainstSnapshots` does not look at `snapshots_` when the largest
  cached snapshot already overlaps (`write_prepared_txn_db.cc:673`);
- releasing one of two snapshots with the same sequence number erases the
  old-commit entries the other still needs (`write_prepared_txn_db.cc:558`);
- old-commit entries made for a snapshot that is already released stay.

Locks:

- a shared lock of one transaction that expires and one that does not can be
  stolen from the second, which still commits (`transaction_lock_mgr.cc:568`);
- `lock_cnt` is incremented once for a shared lock and decremented by every
  holder; it is incremented also when there is no limit to count for;
- `assert(IsExpired())` (`pessimistic_transaction.cc:592`) fails for a prepared
  transaction whose lock, taken before, has an expiration that passed;
- a transaction that upgrades a shared lock with deadlock detection finds itself
  among the holders and is told there is a deadlock;
- waiters at the lock limit are woken only by their own stripe, and a
  transaction at the limit that waits without a timeout may wait for itself;
- a waiter without a timeout is told TimedOut when the holder's expiration
  passes and the lock cannot be stolen.
