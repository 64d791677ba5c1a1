----------------------------- MODULE CommitCache -----------------------------
(***************************************************************************)
(* Which transactions a snapshot contains, in a WritePrepared transaction  *)
(* DB (utilities/transactions/write_prepared_txn_db.h and .cc).  Data is   *)
(* in the memtable under its prepare sequence number before it commits, so *)
(* a reader asks IsInSnapshot whether the transaction committed at or      *)
(* before its snapshot.  The answer is spread over a commit cache of fixed *)
(* size, whose evicted entries are represented by max_evicted_seq_ alone,  *)
(* a map of those that overlap an old snapshot, and two collections of     *)
(* prepared transactions.                                                  *)
(*                                                                         *)
(* Writers call in from the pre-release callbacks of the write queue: one  *)
(* at a time with one queue, prepares beside commits with two.  Readers,   *)
(* snapshots and RemovePrepared run beside them.  Every lock-free load and *)
(* store that another thread can observe, and every critical section, is a *)
(* step.  The writers of a group call in one after the other, and a writer *)
(* takes its sequence numbers when its turn comes; in the main queue the   *)
(* leader publishes once, after the last of them.  Commits and rollbacks   *)
(* that write data under two_write_queues are left out, so AddCommitted    *)
(* never runs beside itself and its compare-and-swap never fails.          *)
(***************************************************************************)
EXTENDS Integers, FiniteSets, FiniteSetsExt

CONSTANTS
    Configs,    \* options and bounds, one chosen per behaviour
    Handles     \* snapshot objects a user can hold at once

\* two_write_queues; COMMIT_CACHE_SIZE, SNAPSHOT_CACHE_SIZE; recovered: prepared
\* transactions found in the log, opened at last_seq; and what bounds the run: the
\* largest sequence number, the sub-batches of a write, the calls its users make, and
\* the snapshots they hold at once
IsConfig(c) ==
    /\ c.two_write_queues \in BOOLEAN
    /\ c.calls \subseteq {"write", "data", "read", "compact", "latest"}
    /\ c.commit_cache_size \in Nat \ {0} /\ c.snapshot_cache_size \in Nat \ {0}
    /\ c.last_seq \in Nat /\ c.recovered \subseteq 1 .. c.last_seq
    /\ c.max_seq \in Nat /\ c.last_seq <= c.max_seq
    /\ c.batch_cnt \in Nat \ {0} /\ c.max_snapshots \in Nat

ASSUME ConfigsOK == \A c \in Configs : IsConfig(c)

ASSUME HandlesFinite == IsFiniteSet(Handles)

VARIABLES
    config,
    last_allocated,     \* of the VersionSet; with one queue the leader's own count
    last_sequence,      \* what GetLatestSequenceNumber returns
    last_published,     \* what a new snapshot reads; last_sequence with one queue
    prepared_txns,      \* the PreparedHeap: [heap, erased_heap]
    delayed_prepared,   \* with its flag delayed_prepared_empty_
    commit_cache,       \* <<prep_seq, commit_seq>> by index
    max_evicted_seq,
    walked,             \* the DB's snapshots when GetSnapshotListFromDB began to walk
    snapshots,          \* the list of snapshot_cache_ and snapshots_
    old_commit_map,     \* pairs <<snapshot_seq, prep_seq>>, with its flag
    queue,              \* the call in progress in each write queue
    txns,               \* prepared transactions, each the set of its sequence numbers
    returned,           \* committed ones about to call RemovePrepared, with their commit
    handle,             \* the snapshot objects; the live ones are the DB's list
    reader,             \* a thread in IsInSnapshot
    data,               \* sequence numbers in the memtable
    commit,             \* history: commit sequence number in the cache, 0 if none
    delayed_once,       \* history: what was ever in delayed_prepared
    ahead,              \* history: max_evicted_seq was ahead of what is published
    overtaken,          \* history: what max_evicted_seq passed while it was being prepared
    shared_once         \* history: sequence numbers that two snapshots had at once

seqVars == <<last_allocated, last_sequence, last_published>>
txnVars == <<txns, returned, data>>
cacheVars == <<commit_cache, commit>>
preparedVars == <<prepared_txns, delayed_prepared, delayed_once>>
historyVars == <<ahead, overtaken>>
evictVars == <<max_evicted_seq, walked, snapshots, old_commit_map, historyVars>>
handleVars == <<handle, shared_once>>
vars == <<config, seqVars, txnVars, cacheVars, preparedVars, evictVars,
          queue, handleVars, reader>>

INC_STEP_FOR_MAX_EVICTED == Max({config.commit_cache_size \div 100, 1})

kMaxSequenceNumber == config.max_seq + 1

Index(seq) == seq % config.commit_cache_size

NoEntry == <<0, 0>>

\* todo: the sequence numbers its callback has still to visit, smallest first
Idle == [pc |-> "idle", todo |-> {}, txn |-> {}, seq |-> 0]
NoSnapshot == [pc |-> "free", seq |-> 0, min_uncommitted |-> 0]
NotReading == [pc |-> "true", prep |-> 0, snap |-> 0, min_uncommitted |-> 0,
               by |-> {}, known |-> FALSE]

-----------------------------------------------------------------------------
(* PreparedHeap.  Erased entries that are not on top wait in erased_heap.  *)
(* Its loops are stated by what they leave; MCCommitCache has them as      *)
(* loops, and compares.                                                    *)

\* pop goes on until the top is not erased: what is left starts at the smallest entry
\* that is live, and nothing is left if none is
Settle(heap, erased) ==
    LET live == heap \ erased
    IN  [heap |-> {p \in heap : \E l \in live : l <= p},
         erased_heap |-> {p \in erased : \E l \in live : l < p}]

Push(h, seq) == [h EXCEPT !.heap = @ \cup {seq}]

\* erase of each: below the top it was popped already
Erase(h, seqs) ==
    Settle(h.heap, h.erased_heap \cup {s \in seqs : \E p \in h.heap : p <= s})

\* the loop of AdvanceMaxEvictedSeq: what it moves, and what it leaves
UpTo(h, new_max) == {p \in h.heap \ h.erased_heap : p <= new_max}

PopUpTo(h, new_max) == Settle({p \in h.heap : p > new_max}, h.erased_heap)

SmallestUnCommittedSeq ==
    Min(prepared_txns.heap \cup {last_sequence + 1})

-----------------------------------------------------------------------------
Init ==
    /\ config \in Configs
    /\ last_allocated = config.last_seq
    /\ last_sequence = config.last_seq
    /\ last_published = config.last_seq
    /\ prepared_txns = [heap |-> {}, erased_heap |-> {}]
    /\ delayed_prepared = config.recovered
    /\ delayed_once = config.recovered
    /\ commit_cache = [i \in 0 .. config.commit_cache_size - 1 |-> NoEntry]
    /\ max_evicted_seq = config.last_seq
    /\ walked = {} /\ snapshots = {} /\ old_commit_map = {}
    /\ queue = [q \in {1, 2} |-> Idle]
    /\ txns = {{p} : p \in config.recovered}
    /\ returned = {}
    /\ handle = [h \in Handles |-> NoSnapshot]
    /\ reader = NotReading
    /\ data = 1 .. config.last_seq
    /\ commit = [p \in 1 .. config.max_seq |->
                    IF p \in 1 .. config.last_seq \ config.recovered THEN p ELSE 0]
    /\ ahead = FALSE /\ overtaken = {} /\ shared_once = {}

-----------------------------------------------------------------------------
(* Prepare, from the main queue.                                           *)

\* sequence numbers a write of n sub-batches takes
Taken(n) == last_allocated + 1 .. last_allocated + n

\* no group, or a group whose last callback so far has returned
Free(q) == queue[q].pc \in {"idle", "done"}

PrepareInternal(n) ==
    /\ Free(1)
    /\ last_allocated + n <= config.max_seq
    /\ last_allocated' = last_allocated + n
    /\ data' = data \cup Taken(n)
    /\ queue' = [queue EXCEPT ![1] =
                    [pc |-> "prepare", todo |-> Taken(n), txn |-> Taken(n),
                     seq |-> last_allocated + n]]
    /\ UNCHANGED <<config, last_sequence, last_published, txns, returned, cacheVars,
                   preparedVars, evictVars, handleVars, reader>>

\* AddPrepared for one sub-batch: a number the maximum has passed throws
CheckPrepared ==
    /\ queue[1].pc = "prepare" /\ queue[1].todo # {}
    /\ queue' = [queue EXCEPT ![1].pc =
                    IF Min(queue[1].todo) <= max_evicted_seq THEN "thrown" ELSE "push"]
    /\ UNCHANGED <<config, seqVars, txnVars, cacheVars, preparedVars, evictVars,
                   handleVars, reader>>

\* the load above took no lock, the push does
AddPrepared ==
    /\ queue[1].pc = "push" /\ queue[1].todo # {}
    /\ LET seq == Min(queue[1].todo) IN
       /\ prepared_txns' = Push(prepared_txns, seq)
       /\ queue' = [queue EXCEPT ![1].pc = "prepare", ![1].todo = @ \ {seq}]
    /\ UNCHANGED <<config, seqVars, txnVars, cacheVars, delayed_prepared, delayed_once,
                   evictVars, handleVars, reader>>

\* the callback returns; the group may have another writer
FinishPrepare ==
    /\ queue[1].pc = "prepare" /\ queue[1].todo = {}
    /\ txns' = txns \cup {queue[1].txn}
    /\ queue' = [queue EXCEPT ![1] = [Idle EXCEPT !.pc = "done", !.seq = queue[1].seq]]
    /\ UNCHANGED <<config, seqVars, returned, data, cacheVars, preparedVars,
                   evictVars, handleVars, reader>>

\* the end of WriteImpl: the numbers of the whole group at once, and its writers
\* return; with two queues only the second one publishes
PublishGroup ==
    /\ queue[1].pc = "done"
    /\ last_sequence' = queue[1].seq
    /\ last_published' = IF config.two_write_queues THEN last_published ELSE queue[1].seq
    /\ queue' = [queue EXCEPT ![1] = Idle]
    /\ UNCHANGED <<config, last_allocated, txnVars, cacheVars, preparedVars,
                   evictVars, handleVars, reader>>

-----------------------------------------------------------------------------
(* Commit: the callback of a write that commits the transaction txn (none  *)
(* for a plain write) together with n sub-batches of its own.  A rollback  *)
(* commits the prepared data along with the batch that cancels it.         *)

CommitQueue == IF config.two_write_queues THEN 2 ELSE 1

StartCommit(txn, n) ==
    /\ Free(CommitQueue)
    /\ last_allocated + Max({n, 1}) <= config.max_seq
    /\ last_allocated' = last_allocated + Max({n, 1})
    /\ data' = data \cup Taken(n)
    /\ txns' = txns \ {txn}
    /\ queue' = [queue EXCEPT ![CommitQueue] =
                    [pc |-> "commit", todo |-> txn \cup Taken(n), txn |-> txn,
                     seq |-> last_allocated + Max({n, 1})]]
    /\ UNCHANGED <<config, last_sequence, last_published, returned, cacheVars,
                   preparedVars, evictVars, handleVars, reader>>

\* the prepare of the transaction has returned
Prepared == {txn \in txns : \A p \in txn : p <= last_sequence}

\* CommitInternal without data
CommitInternal == \E txn \in Prepared : StartCommit(txn, 0)

\* CommitInternal with a CommitTimeWriteBatch, and RollbackInternal
CommitWithData ==
    /\ "data" \in config.calls /\ ~config.two_write_queues
    /\ \E txn \in Prepared, n \in 1 .. config.batch_cnt : StartCommit(txn, n)

\* WriteInternal in one write; with two queues it is a prepare and a commit
WriteInternal ==
    /\ "write" \in config.calls /\ ~config.two_write_queues
    /\ \E n \in 1 .. config.batch_cnt : StartCommit({}, n)

Committing(q, pc) == queue[q].pc = pc /\ queue[q].todo # {}

Evicted(q) == commit_cache[Index(Min(queue[q].todo))]

Goto(q, pc) == queue' = [queue EXCEPT ![q].pc = pc]

\* AddCommitted has read an entry that must go, above or below the maximum
Evicts(q) == Committing(q, "commit") /\ Evicted(q) # NoEntry

NewMax(q) == Evicted(q)[2] + INC_STEP_FOR_MAX_EVICTED

\* data being prepared, AddPrepared perhaps still to come
Preparing == IF queue[1].pc \in {"prepare", "push"} THEN queue[1].txn ELSE {}

\* what a maximum of m says of the past
Passes(m) ==
    /\ ahead' = (ahead \/ m > last_published)
    /\ overtaken' = overtaken \cup {p \in Preparing : p <= m}

\* flawed: leaves the prepared transactions where they are
MovesNothing(q) ==
    /\ Evicts(q) /\ max_evicted_seq < Evicted(q)[2]
    /\ Passes(NewMax(q))
    /\ Goto(q, "fetch")
    /\ UNCHANGED <<config, seqVars, txnVars, cacheVars, preparedVars, max_evicted_seq,
                   walked, snapshots, old_commit_map, handleVars, reader>>

\* AdvanceMaxEvictedSeq: first the prepared transactions below the new maximum
MovePrepared(q) ==
    /\ Evicts(q) /\ max_evicted_seq < Evicted(q)[2]
    /\ prepared_txns' = PopUpTo(prepared_txns, NewMax(q))
    /\ delayed_prepared' = delayed_prepared \cup UpTo(prepared_txns, NewMax(q))
    /\ delayed_once' = delayed_once \cup UpTo(prepared_txns, NewMax(q))
    /\ Passes(NewMax(q))
    /\ Goto(q, "fetch")
    /\ UNCHANGED <<config, seqVars, txnVars, cacheVars, max_evicted_seq, walked, snapshots,
                   old_commit_map, handleVars, reader>>

Listed == {h \in Handles : handle[h].pc \notin {"free", "min"}}

ListedUpTo(max) == {s \in {handle[h].seq : h \in Listed} : s <= max}

\* then GetSnapshotListFromDB, whose InstrumentedMutex(...) locks nothing: snapshots
\* come and go while GetAll walks the list
GetSnapshotListFromDB(q) ==
    /\ Committing(q, "fetch")
    /\ walked' = ListedUpTo(NewMax(q))
    /\ Goto(q, "walk")
    /\ UNCHANGED <<config, seqVars, txnVars, cacheVars, preparedVars, max_evicted_seq,
                   snapshots, old_commit_map, historyVars, handleVars, reader>>

\* it has seen those that were there all the time, and of the others any
UpdateSnapshots(q) ==
    /\ Committing(q, "walk")
    /\ \E seen \in SUBSET (walked \cup ListedUpTo(NewMax(q))) :
           /\ walked \cap ListedUpTo(NewMax(q)) \subseteq seen
           /\ snapshots' = seen
    /\ walked' = {}
    /\ Goto(q, "max")
    /\ UNCHANGED <<config, seqVars, txnVars, cacheVars, preparedVars, max_evicted_seq,
                   old_commit_map, historyVars, handleVars, reader>>

\* and last the maximum itself
StoreMaxEvicted(q) ==
    /\ Committing(q, "max")
    /\ max_evicted_seq' = NewMax(q)
    /\ Goto(q, "commit")
    /\ UNCHANGED <<config, seqVars, txnVars, cacheVars, preparedVars, walked, snapshots,
                   old_commit_map, historyVars, handleVars, reader>>

\* snapshot_cache_ holds the smallest
Cached == {s \in snapshots :
              Cardinality({t \in snapshots : t <= s}) <= config.snapshot_cache_size}

\* flawed: not for a snapshot taken at the prepare itself
OverlapsAbove(s, entry) == entry[1] < s /\ s < entry[2]

Overlaps(s, entry) == entry[1] <= s /\ s < entry[2]

\* snapshots_ is searched only if every cached snapshot is below the entry
Searched(entry) ==
    IF snapshots # Cached /\ Max(Cached) < entry[1] THEN snapshots ELSE Cached

CheckAgainstSnapshots(q) ==
    /\ Evicts(q) /\ max_evicted_seq >= Evicted(q)[2]
    /\ old_commit_map' = old_commit_map \cup
           {<<s, Evicted(q)[1]>> :
                s \in {t \in Searched(Evicted(q)) : Overlaps(t, Evicted(q))}}
    /\ Goto(q, "exchange")
    /\ UNCHANGED <<config, seqVars, txnVars, cacheVars, preparedVars, max_evicted_seq,
                   walked, snapshots, historyVars, handleVars, reader>>

\* flawed: no longer prepared before the commit is published
ExchangeAndRemove(q) ==
    /\ Committing(q, "exchange") \/ (Committing(q, "commit") /\ Evicted(q) = NoEntry)
    /\ LET seq == Min(queue[q].todo) IN
       /\ commit_cache' = [commit_cache EXCEPT ![Index(seq)] = <<seq, queue[q].seq>>]
       /\ commit' = [commit EXCEPT ![seq] = queue[q].seq]
       /\ prepared_txns' = Erase(prepared_txns, {seq})
       /\ queue' = [queue EXCEPT ![q].pc = "commit", ![q].todo = @ \ {seq}]
    /\ UNCHANGED <<config, seqVars, txnVars, delayed_prepared, delayed_once, evictVars,
                   handleVars, reader>>

ExchangeCommitEntry(q) ==
    /\ Committing(q, "exchange") \/ (Committing(q, "commit") /\ Evicted(q) = NoEntry)
    /\ LET seq == Min(queue[q].todo) IN
       /\ commit_cache' = [commit_cache EXCEPT ![Index(seq)] = <<seq, queue[q].seq>>]
       /\ commit' = [commit EXCEPT ![seq] = queue[q].seq]
       /\ queue' = [queue EXCEPT ![q].pc = "commit", ![q].todo = @ \ {seq}]
    /\ UNCHANGED <<config, seqVars, txnVars, preparedVars, evictVars, handleVars, reader>>

\* the callback returns, in the second queue after it has published
FinishCommit(q) ==
    /\ queue[q].pc = "commit" /\ queue[q].todo = {}
    /\ last_published' = IF config.two_write_queues THEN queue[q].seq ELSE last_published
    /\ returned' = returned \cup {<<t, queue[q].seq>> : t \in {queue[q].txn} \ {{}}}
    /\ queue' = [queue EXCEPT ![q] =
                    IF config.two_write_queues THEN Idle
                    ELSE [Idle EXCEPT !.pc = "done", !.seq = queue[q].seq]]
    /\ UNCHANGED <<config, last_allocated, last_sequence, txns, data, cacheVars,
                   preparedVars, evictVars, handleVars, reader>>

\* flawed: only the first sub-batch
RemoveFirst(txn, seq) ==
    /\ <<txn, seq>> \in returned /\ seq <= last_published
    /\ returned' = returned \ {<<txn, seq>>}
    /\ prepared_txns' = Erase(prepared_txns, {Min(txn)})
    /\ delayed_prepared' = delayed_prepared \ {Min(txn)}
    /\ UNCHANGED <<config, seqVars, txns, data, cacheVars, delayed_once, evictVars,
                   queue, handleVars, reader>>

\* after the write has returned, so its group is published
RemovePrepared(txn, seq) ==
    /\ <<txn, seq>> \in returned /\ seq <= last_published
    /\ returned' = returned \ {<<txn, seq>>}
    /\ prepared_txns' = Erase(prepared_txns, txn)
    /\ delayed_prepared' = delayed_prepared \ txn
    /\ UNCHANGED <<config, seqVars, txns, data, cacheVars, delayed_once, evictVars,
                   queue, handleVars, reader>>

-----------------------------------------------------------------------------
(* Snapshots.                                                              *)

\* GetSnapshot: the smallest uncommitted number before the snapshot itself
GetMinUncommitted(h) ==
    /\ config.calls \cap {"read", "compact"} # {} /\ handle[h].pc = "free"
    /\ Cardinality({g \in Handles : handle[g].pc # "free"}) < config.max_snapshots
    /\ handle' = [handle EXCEPT ![h] =
                     [pc |-> "min", seq |-> 0, min_uncommitted |-> SmallestUnCommittedSeq]]
    /\ UNCHANGED <<config, seqVars, txnVars, cacheVars, preparedVars, evictVars,
                   queue, shared_once, reader>>

GetSnapshotImpl(h) ==
    /\ handle[h].pc = "min"
    /\ handle' = [handle EXCEPT ![h].pc = "live", ![h].seq = last_published]
    /\ shared_once' = shared_once \cup
           {s \in {last_published} : \E g \in Listed : handle[g].seq = s}
    /\ UNCHANGED <<config, seqVars, txnVars, cacheVars, preparedVars, evictVars,
                   queue, reader>>

HandleGoes(h, pc) ==
    /\ handle' = [handle EXCEPT ![h].pc = pc]
    /\ UNCHANGED <<config, seqVars, txnVars, cacheVars, preparedVars, max_evicted_seq,
                   walked, snapshots, historyVars, queue, shared_once, reader>>

\* the maintenance comes before the DB forgets the snapshot, if the maximum is above it
ReleaseSnapshotInternal(h) ==
    /\ handle[h].pc = "live" /\ h \notin reader.by
    /\ HandleGoes(h, IF handle[h].seq < max_evicted_seq THEN "gc" ELSE "releasing")
    /\ UNCHANGED old_commit_map

\* old_commit_map_ has entries of the snapshot: looked up under one lock, ...
FindOldCommits(h) ==
    /\ handle[h].pc = "gc"
    /\ HandleGoes(h, IF \E e \in old_commit_map : e[1] = handle[h].seq
                     THEN "erase" ELSE "releasing")
    /\ UNCHANGED old_commit_map

\* ... erased under another
EraseOldCommits(h) ==
    /\ handle[h].pc = "erase"
    /\ HandleGoes(h, "releasing")
    /\ old_commit_map' = {e \in old_commit_map : e[1] # handle[h].seq}

ReleaseSnapshot(h) ==
    /\ handle[h].pc = "releasing"
    /\ handle' = [handle EXCEPT ![h] = NoSnapshot]
    /\ UNCHANGED <<config, seqVars, txnVars, cacheVars, preparedVars, evictVars,
                   queue, shared_once, reader>>

-----------------------------------------------------------------------------
(* IsInSnapshot.  What it returns is left in pc, the rest is forgotten.    *)

Answered == {"true", "false"}

ReaderGoes(r, pc) ==
    /\ reader' = IF pc \in Answered THEN [NotReading EXCEPT !.pc = pc]
                 ELSE [r EXCEPT !.pc = pc]
    /\ UNCHANGED <<config, seqVars, txnVars, cacheVars, preparedVars, evictVars,
                   queue, handleVars>>

Answer(b) == IF b THEN "true" ELSE "false"

LoadDelayedEmpty(r) ==
    ReaderGoes(r, IF delayed_prepared = {} THEN "cache" ELSE "lookup")

\* two answers need no look: compaction has given 0 to what every snapshot contains,
\* and nothing commits below its prepare
ReadInferred(h, prep) ==
    /\ reader.pc \in Answered /\ handle[h].pc = "live"
    /\ \/ prep = 0 /\ ReaderGoes(reader, "true")
       \/ prep \in data /\ handle[h].seq < prep /\ ReaderGoes(reader, "false")

\* at a snapshot; compaction does not pass min_uncommitted
ReadAt(h, prep) ==
    /\ reader.pc \in Answered /\ handle[h].pc = "live"
    /\ prep \in data /\ prep <= handle[h].seq
    /\ \E min \in {handle[h].min_uncommitted : x \in config.calls \cap {"read"}}
                    \cup {0 : x \in config.calls \cap {"compact"}} :
           LoadDelayedEmpty([pc |-> "begin", prep |-> prep, snap |-> handle[h].seq,
               min_uncommitted |-> min, by |-> {h}, known |-> commit[prep] # 0])

\* Get without a snapshot
ReadLatest(prep) ==
    /\ "latest" \in config.calls
    /\ reader.pc \in Answered /\ prep \in data
    /\ ReaderGoes([pc |-> "begin", prep |-> prep, snap |-> kMaxSequenceNumber,
           min_uncommitted |-> SmallestUnCommittedSeq, by |-> {},
           known |-> commit[prep] # 0], "begin")

ReadOn ==
    /\ reader.pc = "begin"
    /\ LoadDelayedEmpty(reader)

FindDelayed ==
    /\ reader.pc = "lookup"
    /\ ReaderGoes(reader, IF reader.prep \in delayed_prepared THEN "false" ELSE "cache")

GetCommitEntry ==
    /\ reader.pc = "cache"
    /\ LET cached == commit_cache[Index(reader.prep)] IN
       ReaderGoes(reader,
                  IF reader.prep < reader.min_uncommitted THEN "true"
                  ELSE IF cached[1] = reader.prep THEN Answer(cached[2] <= reader.snap)
                  ELSE "max")

LoadMaxEvicted ==
    /\ reader.pc = "max"
    /\ ReaderGoes(reader,
                  IF max_evicted_seq < reader.prep THEN "false"
                  ELSE IF max_evicted_seq < reader.snap THEN "true"
                  ELSE "old")

LoadOldCommitMapEmpty ==
    /\ reader.pc = "old"
    /\ ReaderGoes(reader, IF old_commit_map = {} THEN "true" ELSE "find")

FindOldCommit ==
    /\ reader.pc = "find"
    /\ ReaderGoes(reader, Answer(<<reader.snap, reader.prep>> \notin old_commit_map))

-----------------------------------------------------------------------------
Next ==
    \/ \E n \in 1 .. config.batch_cnt : PrepareInternal(n)
    \/ CheckPrepared
    \/ AddPrepared
    \/ FinishPrepare
    \/ PublishGroup
    \/ CommitInternal
    \/ CommitWithData
    \/ WriteInternal
    \/ \E q \in {1, 2} :
           \/ MovePrepared(q) \/ GetSnapshotListFromDB(q) \/ UpdateSnapshots(q)
           \/ StoreMaxEvicted(q) \/ CheckAgainstSnapshots(q)
           \/ ExchangeCommitEntry(q) \/ FinishCommit(q)
    \/ \E r \in returned : RemovePrepared(r[1], r[2])
    \/ \E h \in Handles :
           \/ GetMinUncommitted(h) \/ GetSnapshotImpl(h)
           \/ ReleaseSnapshotInternal(h) \/ FindOldCommits(h) \/ EraseOldCommits(h)
           \/ ReleaseSnapshot(h)
           \/ \E prep \in data \cup {0} : ReadInferred(h, prep)
           \/ \E prep \in data : ReadAt(h, prep)
    \/ \E prep \in data : ReadLatest(prep)
    \/ ReadOn
    \/ FindDelayed
    \/ GetCommitEntry
    \/ LoadMaxEvicted
    \/ LoadOldCommitMapEmpty
    \/ FindOldCommit

Spec == Init /\ [][Next]_vars

-----------------------------------------------------------------------------
\* The destructor of PreparedHeap asserts that both heaps are empty: they are whenever
\* no transaction is prepared or in the middle of a call, in whatever order the
\* transactions were erased and moved to delayed_prepared_.
HeapDrains ==
    txns = {} /\ returned = {} /\ (\A q \in {1, 2} : queue[q].pc = "idle") =>
        prepared_txns.heap = {} /\ prepared_txns.erased_heap = {}

\* Nothing at or below max_evicted_seq_ is left in prepared_txns_, whatever prepares
\* and removals run beside AdvanceMaxEvictedSeq: IsInSnapshot relies on it when it
\* takes what is neither in the cache nor in delayed_prepared_ for committed.  With one
\* queue AddPrepared never meets a maximum that has passed its number either (it throws
\* then).  Both as long as the maximum was never advanced beyond what is published;
\* with two queues a number that the maximum passes in the middle of its own prepare
\* is excepted, because AddPrepared loads the maximum before it takes prepared_mutex_.
PreparedAboveMax ==
    ~ahead =>
        /\ \A p \in prepared_txns.heap :
               p > max_evicted_seq \/ (config.two_write_queues /\ p \in overtaken)
        /\ queue[1].pc = "thrown" => config.two_write_queues

\* The min_uncommitted_ of a snapshot is at most every sequence number that is not
\* committed in it: GetSnapshot reads it first, RemovePrepared comes after
\* publication, and AddPrepared before.  Transactions once delayed are not covered.
SnapshotMinIsSafe ==
    \A h \in Listed, p \in data \ delayed_once :
        commit[p] \notin 1 .. handle[h].seq => handle[h].min_uncommitted <= p

Returns(b) == reader.pc \notin Answered /\ reader'.pc = Answer(b)

\* for a read of the latest data a commit during the call may count or not
Right ==
    /\ Returns(TRUE) => commit[reader.prep] \in 1 .. reader.snap
    /\ Returns(FALSE) =>
           IF reader.by # {} THEN commit[reader.prep] \notin 1 .. reader.snap
           ELSE ~reader.known

\* The snapshots fit into snapshot_cache_, and no other one has the same sequence
\* number; the maximum was never ahead of what is published, did not pass the
\* transaction while that was being prepared or was prepared, and did not pass it
\* during a call that saw it uncommitted at first.
OnTime ==
    /\ config.max_snapshots <= config.snapshot_cache_size
    /\ reader.snap \notin shared_once
    /\ ~ahead
    /\ reader.prep \notin delayed_once \cup overtaken
    /\ reader.known \/ max_evicted_seq < reader.prep

\* IsInSnapshot answers whether the transaction committed at or before the snapshot,
\* wherever commit entries are moved while it looks, under the five conditions of
\* OnTime.  It can be wrong for a snapshot that shares its number, a transaction
\* that was delayed and a call that saw it uncommitted at first; the others are
\* what the argument needs.
IsInSnapshotIsRightOnTime == [][OnTime => Right]_vars

=============================================================================
