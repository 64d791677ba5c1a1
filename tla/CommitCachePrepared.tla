------------------------ MODULE CommitCachePrepared ------------------------
(***************************************************************************)
(* The invariant of CommitCache for any number of transactions, snapshots  *)
(* and entries of the cache, first part: the transactions that are         *)
(* prepared.  CommitCacheProofs.tla goes on with the ones that have        *)
(* committed, and has the theorems.                                        *)
(*                                                                         *)
(*   Types     what every variable holds;                                  *)
(*   CallInv   the calls in progress, and whose numbers they have;         *)
(*   HeapInv   prepared_txns_: what is live in it, and what left it;       *)
(*   MaxInv    max_evicted_seq_, stored and about to be stored;            *)
(*   SnapInv   the snapshots' min_uncommitted_.                            *)
(*                                                                         *)
(* Each has a section: its definition, the steps that can disturb it, and  *)
(* a lemma Step... that every step keeps it.  Grows, between them, is what *)
(* no step takes back.                                                     *)
(***************************************************************************)
EXTENDS CommitCache, WellFoundedInduction, TLAPS

\* A set of natural numbers that is not empty has a smallest member.
LEMMA NatMin ==
    ASSUME NEW S \in SUBSET Nat, S # {}
    PROVE  Min(S) \in S /\ \A y \in S : Min(S) <= y
<1> DEFINE R == {ss \in Nat \X Nat : ss[1] < ss[2]}
<1>1. IsWellFoundedOn(R, Nat)
  BY NatLessThanWellFounded, Zenon DEF OpToRel
<1>2. \A x, y \in Nat : <<y, x>> \in R <=> y < x
  BY Zenon
<1> HIDE DEF R
<1>3. \E x \in S : \A y \in S : ~(<<y, x>> \in R)
  BY <1>1, WFMin, Zenon
<1>4. PICK x \in S : \A y \in S : ~(<<y, x>> \in R)
  BY <1>3, Zenon
<1>5. \A y \in S : ~(y < x) /\ y \in Nat /\ x \in Nat
  BY <1>2, <1>4, Zenon
<1>6. \A y \in S : x <= y
  BY <1>5
<1> QED
  BY <1>6, Zenon DEF Min

\* The larger of a number and 1, as INC_STEP_FOR_MAX_EVICTED is computed.
LEMMA MaxOne ==
    ASSUME NEW n \in Nat
    PROVE  Max({n, 1}) \in Nat /\ Max({n, 1}) >= 1 /\ Max({n, 1}) >= n
<1>1. \E x \in {n, 1} : \A y \in {n, 1} : x >= y
  OBVIOUS
<1> QED
  BY <1>1 DEF Max

\* The maximum is advanced by at least 1 beyond the evicted entry.
LEMMA IncStep ==
    ASSUME config \in Configs
    PROVE  INC_STEP_FOR_MAX_EVICTED \in Nat /\ INC_STEP_FOR_MAX_EVICTED >= 1
<1>1. config.commit_cache_size \in Nat \ {0}
  BY ConfigsOK, Zenon DEF IsConfig
<1>2. config.commit_cache_size \div 100 \in Nat
  BY <1>1
<1> QED
  BY <1>2, MaxOne, Zenon DEF INC_STEP_FOR_MAX_EVICTED

\* Every number has a slot in the cache.
LEMMA IndexIn ==
    ASSUME config \in Configs, NEW p \in Nat
    PROVE  Index(p) \in 0 .. config.commit_cache_size - 1
<1>1. config.commit_cache_size \in Nat \ {0}
  BY ConfigsOK, Zenon DEF IsConfig
<1> QED
  BY <1>1 DEF Index

\* the contents of PreparedHeap
Heaps == [heap : SUBSET Nat, erased_heap : SUBSET Nat]

\* the entries that are not erased
LiveIn(h) == h.heap \ h.erased_heap

\* the top of the heap is not erased, and nothing erased is above an empty heap
SettledHeap(h) == \A p \in h.heap \cup h.erased_heap : \E l \in LiveIn(h) : l <= p

\* What the loops at the end of pop() leave: the live entries, with a live one on top.
LEMMA SettleFacts ==
    ASSUME NEW heap \in SUBSET Nat, NEW erased \in SUBSET Nat
    PROVE  /\ Settle(heap, erased) \in Heaps
           /\ Settle(heap, erased).heap \subseteq heap
           /\ Settle(heap, erased).erased_heap \subseteq erased
           /\ LiveIn(Settle(heap, erased)) = heap \ erased
           /\ SettledHeap(Settle(heap, erased))
<1> DEFINE h == Settle(heap, erased)
<1>1. /\ h.heap = {p \in heap : \E l \in heap \ erased : l <= p}
      /\ h.erased_heap = {p \in erased : \E l \in heap \ erased : l < p}
      /\ h \in Heaps
  BY Zenon DEF Settle, Heaps
<1> HIDE DEF h
<1>2. \A p \in Nat : p \in LiveIn(h) <=> p \in heap \ erased
  BY <1>1 DEF LiveIn
<1>3. LiveIn(h) = heap \ erased
  BY <1>1, <1>2, Zenon DEF LiveIn
<1>4. \A p \in h.heap : \E l \in LiveIn(h) : l <= p
  BY <1>1, <1>3, Zenon
<1>5. ASSUME NEW p \in erased, NEW l \in heap \ erased, l < p PROVE l <= p
  BY <1>5
<1>5a. \A p \in h.erased_heap : \E l \in LiveIn(h) : l <= p
  BY <1>1, <1>3, <1>5, Zenon
<1>6. SettledHeap(h)
  BY <1>4, <1>5a, Zenon DEF SettledHeap
<1>7. h.heap \subseteq heap /\ h.erased_heap \subseteq erased
  BY <1>1, Zenon
<1> QED
  BY <1>1, <1>3, <1>6, <1>7, Zenon DEF h

\* The loop of AdvanceMaxEvictedSeq leaves the live entries above the new maximum.
LEMMA PopUpToFacts ==
    ASSUME NEW h \in Heaps, NEW m \in Nat
    PROVE  /\ PopUpTo(h, m) \in Heaps
           /\ \A p \in PopUpTo(h, m).heap : p \in h.heap /\ p > m
           /\ PopUpTo(h, m).erased_heap \subseteq h.erased_heap
           /\ LiveIn(PopUpTo(h, m)) = LiveIn(h) \ UpTo(h, m)
           /\ SettledHeap(PopUpTo(h, m))
<1> DEFINE above == {p \in h.heap : p > m}
<1>1. above \in SUBSET Nat /\ h.erased_heap \in SUBSET Nat
  BY Zenon DEF Heaps
<1>2. above \ h.erased_heap = LiveIn(h) \ UpTo(h, m)
  BY DEF LiveIn, UpTo, Heaps
<1>3. PopUpTo(h, m) = Settle(above, h.erased_heap)
  BY Zenon DEF PopUpTo
<1>4. \A p \in above : p \in h.heap /\ p > m
  BY Zenon
<1> HIDE DEF above
<1> QED
  BY <1>1, <1>2, <1>3, <1>4, SettleFacts, ZenonT(30)

\* The loop of RemovePrepared takes the transaction's numbers out of the live entries.
LEMMA EraseFacts ==
    ASSUME NEW h \in Heaps, NEW seqs \in SUBSET Nat
    PROVE  /\ Erase(h, seqs) \in Heaps
           /\ Erase(h, seqs).heap \subseteq h.heap
           /\ Erase(h, seqs).erased_heap \subseteq h.erased_heap \cup seqs
           /\ LiveIn(Erase(h, seqs)) = LiveIn(h) \ seqs
           /\ SettledHeap(Erase(h, seqs))
<1> DEFINE heap == h.heap
           erased == h.erased_heap \cup {s \in seqs : \E p \in h.heap : p <= s}
<1>1. heap \in SUBSET Nat /\ erased \in SUBSET Nat
  BY Zenon DEF Heaps
<1>2. heap \ erased = LiveIn(h) \ seqs
  BY <1>1 DEF LiveIn
<1>3. Erase(h, seqs) = Settle(heap, erased)
  BY Zenon DEF Erase
<1>4. heap \subseteq h.heap /\ erased \subseteq h.erased_heap \cup seqs
  BY Zenon
<1> HIDE DEF erased, heap
<1>5. /\ Settle(heap, erased) \in Heaps
      /\ Settle(heap, erased).heap \subseteq heap
      /\ Settle(heap, erased).erased_heap \subseteq erased
      /\ LiveIn(Settle(heap, erased)) = heap \ erased
      /\ SettledHeap(Settle(heap, erased))
  BY <1>1, SettleFacts, Zenon
<1> QED
  BY <1>2, <1>3, <1>4, <1>5, Zenon


USE DEF seqVars, txnVars, cacheVars, preparedVars, historyVars, evictVars, handleVars

-----------------------------------------------------------------------------
(* The kinds of step.                                                      *)

\* the calls that commit, whatever they carry
Starts(txn, n) ==
    /\ txn \in Prepared \cup {{}} /\ n \in Nat
    /\ config.two_write_queues => n = 0
    /\ StartCommit(txn, n)

\* what reads and snapshots leave alone
Quiet ==
    UNCHANGED <<config, seqVars, txnVars, cacheVars, preparedVars, max_evicted_seq,
                historyVars, queue>>

\* what reads leave alone
ReaderStep == Quiet /\ UNCHANGED <<walked, snapshots, old_commit_map, handleVars>>

\* the steps of ReleaseSnapshot before the DB forgets the snapshot
Releasing(h) == ReleaseSnapshotInternal(h) \/ FindOldCommits(h) \/ EraseOldCommits(h)

\* the steps of those who hold snapshots
HandleStep(h) ==
    GetMinUncommitted(h) \/ GetSnapshotImpl(h) \/ Releasing(h) \/ ReleaseSnapshot(h)

\* Every step of the reader leaves the rest of the state alone, and the calls that
\* commit differ only in what they carry.
LEMMA NextCases ==
    ASSUME config \in Configs, Next
    PROVE  \/ \E n \in Nat \ {0} : PrepareInternal(n)
           \/ CheckPrepared \/ AddPrepared \/ FinishPrepare \/ PublishGroup
           \/ \E txn, n : Starts(txn, n)
           \/ \E q \in {1, 2} :
                  \/ MovePrepared(q) \/ GetSnapshotListFromDB(q) \/ UpdateSnapshots(q)
                  \/ StoreMaxEvicted(q) \/ CheckAgainstSnapshots(q)
                  \/ ExchangeCommitEntry(q) \/ FinishCommit(q)
           \/ \E r \in returned : RemovePrepared(r[1], r[2])
           \/ \E h \in Handles : HandleStep(h)
           \/ ReaderStep
<1>1. config.batch_cnt \in Nat
  BY ConfigsOK, Zenon DEF IsConfig
<1>2. CASE \E n \in 1 .. config.batch_cnt : PrepareInternal(n)
  BY <1>1, <1>2
<1>3. CASE CommitInternal
  BY <1>3, Zenon DEF CommitInternal, Starts
<1>4. CASE CommitWithData
  BY <1>1, <1>4 DEF CommitWithData, Starts
<1>5. CASE WriteInternal
  BY <1>1, <1>5 DEF WriteInternal, Starts
<1>6. CASE \E h \in Handles, prep \in data : ReadAt(h, prep)
  BY <1>6, Zenon DEF ReadAt, LoadDelayedEmpty, ReaderGoes, ReaderStep, Quiet
<1>6a. CASE \E h \in Handles, prep \in data \cup {0} : ReadInferred(h, prep)
  BY <1>6a, Zenon DEF ReadInferred, ReaderGoes, ReaderStep, Quiet
<1>7. CASE \E prep \in data : ReadLatest(prep)
  BY <1>7, Zenon DEF ReadLatest, ReaderGoes, ReaderStep, Quiet
<1>8. CASE ReadOn \/ FindDelayed \/ GetCommitEntry \/ LoadMaxEvicted
               \/ LoadOldCommitMapEmpty \/ FindOldCommit
  BY <1>8, Zenon DEF ReadOn, LoadDelayedEmpty, FindDelayed, GetCommitEntry, LoadMaxEvicted,
     LoadOldCommitMapEmpty, FindOldCommit, ReaderGoes, ReaderStep, Quiet
<1> QED
  BY <1>2, <1>3, <1>4, <1>5, <1>6, <1>6a, <1>7, <1>8, Zenon DEF Next, HandleStep, Releasing

-----------------------------------------------------------------------------
(* Types.                                                                  *)

\* the steps of a call that commits
InCommit == {"commit", "fetch", "walk", "max", "exchange"}

\* the steps of a prepare
InPrepare == {"prepare", "push"}

\* the call of a queue
Calls == [pc : InCommit \cup InPrepare \cup {"idle", "done", "thrown"},
          todo : SUBSET Nat, txn : SUBSET Nat, seq : Nat]

\* the snapshots of the users
SnapshotObjects ==
    [pc : {"free", "min", "live", "gc", "erase", "releasing"}, seq : Nat,
     min_uncommitted : Nat]

\* what the variables hold
Types ==
    /\ config \in Configs
    /\ last_allocated \in Nat /\ last_sequence \in Nat /\ last_published \in Nat
    /\ prepared_txns \in Heaps
    /\ delayed_prepared \subseteq delayed_once /\ delayed_once \subseteq Nat
    /\ commit_cache \in [0 .. config.commit_cache_size - 1 -> Nat \X Nat]
    /\ max_evicted_seq \in Nat
    /\ walked \subseteq Nat /\ snapshots \subseteq Nat /\ old_commit_map \subseteq Nat \X Nat
    /\ queue \in [{1, 2} -> Calls]
    /\ txns \subseteq SUBSET Nat /\ returned \subseteq (SUBSET Nat) \X Nat
    /\ handle \in [Handles -> SnapshotObjects]
    /\ data \subseteq Nat
    /\ commit \in [1 .. config.max_seq -> Nat]
    /\ ahead \in BOOLEAN

\* The types hold when the DB is opened.
LEMMA InitTypes == Init => Types
<1> SUFFICES ASSUME Init PROVE Types
  BY Zenon
<1>1. config \in Configs /\ IsConfig(config)
  BY ConfigsOK, Zenon DEF Init
<1>2. config.last_seq \in Nat /\ config.recovered \in SUBSET Nat
  BY <1>1 DEF IsConfig
<1>3. commit_cache \in [0 .. config.commit_cache_size - 1 -> Nat \X Nat]
  BY Zenon DEF Init, NoEntry
<1>4. queue \in [{1, 2} -> Calls] /\ handle \in [Handles -> SnapshotObjects]
  BY Zenon DEF Init, Idle, NoSnapshot, Calls, InPrepare, SnapshotObjects
<1>5. commit \in [1 .. config.max_seq -> Nat]
  BY DEF Init
<1>6. /\ prepared_txns \in Heaps
      /\ txns \subseteq SUBSET Nat /\ data \subseteq Nat
  BY <1>2 DEF Init, Heaps
<1> QED
  BY <1>1, <1>2, <1>3, <1>4, <1>5, <1>6, Zenon DEF Init, Types

\* A call that commits goes to its next step and keeps its numbers.
LEMMA GotoFacts ==
    ASSUME queue \in [{1, 2} -> Calls], NEW q \in {1, 2}, NEW pc \in InCommit, Goto(q, pc)
    PROVE  /\ queue' \in [{1, 2} -> Calls]
           /\ queue'[q].pc = pc
           /\ \A r \in {1, 2} : /\ queue'[r].todo = queue[r].todo
                                /\ queue'[r].txn = queue[r].txn
                                /\ queue'[r].seq = queue[r].seq
                                /\ r # q => queue'[r] = queue[r]
  BY Zenon DEF Goto, Calls, InCommit

\* An entry about to be evicted is an entry of the cache, at the index of the number
\* that is being committed.
LEMMA EvictedFacts ==
    ASSUME Types, NEW q \in {1, 2}, queue[q].todo # {}
    PROVE  /\ Min(queue[q].todo) \in queue[q].todo /\ Min(queue[q].todo) \in Nat
           /\ Index(Min(queue[q].todo)) \in 0 .. config.commit_cache_size - 1
           /\ Evicted(q) \in Nat \X Nat
           /\ NewMax(q) \in Nat /\ NewMax(q) > Evicted(q)[2]
<1>1. queue[q].todo \in SUBSET Nat
  BY Zenon DEF Types, Calls
<1>2. Min(queue[q].todo) \in queue[q].todo /\ Min(queue[q].todo) \in Nat
  BY <1>1, NatMin, Zenon
<1>3. Index(Min(queue[q].todo)) \in 0 .. config.commit_cache_size - 1
  BY <1>2, IndexIn, Zenon DEF Types
<1>4. Evicted(q) \in Nat \X Nat
  BY <1>3 DEF Evicted, Types
<1>5. NewMax(q) \in Nat /\ NewMax(q) > Evicted(q)[2]
  BY <1>4, IncStep DEF NewMax, Types
<1> QED
  BY <1>2, <1>3, <1>4, <1>5, Zenon

\* The list of snapshots is a list of sequence numbers.
LEMMA ListedNumbers ==
    ASSUME handle \in [Handles -> SnapshotObjects]
    PROVE  \A m : ListedUpTo(m) \subseteq Nat
  BY Zenon DEF ListedUpTo, Listed, SnapshotObjects

\* ReleaseSnapshot takes nothing out of the map but entries of its own snapshot.
LEMMA ReleasingFacts ==
    ASSUME handle \in [Handles -> SnapshotObjects], NEW h \in Handles, Releasing(h)
    PROVE  /\ Quiet /\ UNCHANGED <<walked, snapshots, shared_once, reader>>
           /\ handle[h].pc \in {"live", "gc", "erase"}
           /\ handle[h].pc = "live" => h \notin reader.by
           /\ handle'[h].pc \in {"gc", "erase", "releasing"}
           /\ handle'[h].seq = handle[h].seq
           /\ handle'[h].min_uncommitted = handle[h].min_uncommitted
           /\ \A g \in Handles : g # h => handle'[g] = handle[g]
           /\ handle' \in [Handles -> SnapshotObjects]
           /\ old_commit_map' \subseteq old_commit_map
           /\ \A e \in old_commit_map : e[1] # handle[h].seq => e \in old_commit_map'
<1>1. PICK pc \in {"gc", "erase", "releasing"} : HandleGoes(h, pc)
  BY Zenon DEF Releasing, ReleaseSnapshotInternal, FindOldCommits, EraseOldCommits
<1>2. handle' = [handle EXCEPT ![h].pc = pc] /\ handle[h] \in SnapshotObjects
  BY <1>1, Zenon DEF HandleGoes
<1>3. /\ handle'[h].pc = pc /\ handle'[h].seq = handle[h].seq
      /\ handle'[h].min_uncommitted = handle[h].min_uncommitted
      /\ \A g \in Handles : g # h => handle'[g] = handle[g]
      /\ handle' \in [Handles -> SnapshotObjects]
  BY <1>2 DEF SnapshotObjects
<1>4. Quiet /\ UNCHANGED <<walked, snapshots, shared_once, reader>>
  BY <1>1, Zenon DEF HandleGoes, Quiet
<1>5. /\ handle[h].pc \in {"live", "gc", "erase"}
      /\ handle[h].pc = "live" => h \notin reader.by
      /\ old_commit_map' \subseteq old_commit_map
      /\ \A e \in old_commit_map : e[1] # handle[h].seq => e \in old_commit_map'
  BY Zenon DEF Releasing, ReleaseSnapshotInternal, FindOldCommits, EraseOldCommits
<1> QED
  BY <1>1, <1>3, <1>4, <1>5, Zenon

\* Every step keeps the types.
LEMMA StepTypes ==
    ASSUME Types, Next
    PROVE  Types'
<1>1. ASSUME NEW n \in Nat, PrepareInternal(n)
      PROVE  Types'
  <2>1. /\ queue' \in [{1, 2} -> Calls]
        /\ data' \subseteq Nat /\ last_allocated' \in Nat
    BY <1>1 DEF PrepareInternal, Types, Taken, Calls, InPrepare
  <2> QED
    BY <1>1, <2>1, Zenon DEF PrepareInternal, Types
<1>2a. CASE CheckPrepared
  <2>1. queue' \in [{1, 2} -> Calls]
    BY <1>2a DEF CheckPrepared, Types, Calls, InPrepare
  <2> QED
    BY <1>2a, <2>1, Zenon DEF CheckPrepared, Types
<1>2. CASE AddPrepared
  <2>1. queue[1].todo \in SUBSET Nat /\ queue[1].todo # {}
    BY <1>2, Zenon DEF AddPrepared, Types, Calls
  <2>2. Min(queue[1].todo) \in Nat
    BY <2>1, NatMin, Zenon
  <2>3. PICK seq \in Nat : /\ prepared_txns' = Push(prepared_txns, seq)
                           /\ queue' = [queue EXCEPT ![1].pc = "prepare",
                                                     ![1].todo = @ \ {seq}]
    BY <1>2, <2>2, Zenon DEF AddPrepared
  <2>4. queue' \in [{1, 2} -> Calls]
    <3>1. queue[1] \in Calls /\ "prepare" \in InPrepare
      BY Zenon DEF Types, InPrepare
    <3>2. [queue[1] EXCEPT !.pc = "prepare", !.todo = @ \ {seq}] \in Calls
      BY <3>1, Zenon DEF Calls
    <3>3. queue' = [queue EXCEPT ![1] = [queue[1] EXCEPT !.pc = "prepare",
                                                         !.todo = @ \ {seq}]]
      BY <2>3, Zenon
    <3> QED
      BY <3>2, <3>3, Zenon DEF Types
  <2>5. prepared_txns' \in Heaps
    BY <2>3 DEF Types, Push, Heaps
  <2> QED
    BY <1>2, <2>4, <2>5, Zenon DEF AddPrepared, Types
<1>3. CASE FinishPrepare
  <2>1. /\ queue' \in [{1, 2} -> Calls] /\ queue[1].txn \in SUBSET Nat
    BY <1>3, Zenon DEF FinishPrepare, Types, Calls, Idle
  <2> QED
    BY <1>3, <2>1, Zenon DEF FinishPrepare, Types
<1>3a. CASE PublishGroup
  <2>1. /\ queue' \in [{1, 2} -> Calls] /\ last_sequence' \in Nat /\ last_published' \in Nat
    BY <1>3a, Zenon DEF PublishGroup, Types, Calls, Idle
  <2> QED
    BY <1>3a, <2>1, Zenon DEF PublishGroup, Types
<1>4. ASSUME NEW txn, NEW n, Starts(txn, n)
      PROVE  Types'
  <2>1. n \in Nat /\ txn \in SUBSET Nat /\ Max({n, 1}) \in Nat
    BY <1>4, MaxOne, Zenon DEF Starts, Prepared, Types
  <2>2. /\ queue' \in [{1, 2} -> Calls]
        /\ data' \subseteq Nat /\ last_allocated' \in Nat
    BY <1>4, <2>1 DEF Starts, StartCommit, CommitQueue, Types, Calls, InCommit, Taken
  <2> QED
    BY <1>4, <2>2, Zenon DEF Starts, StartCommit, Types
<1>5. ASSUME NEW q \in {1, 2}, MovePrepared(q)
      PROVE  Types'
  <2>1. queue' \in [{1, 2} -> Calls]
    BY <1>5, GotoFacts, Zenon DEF MovePrepared, Types, InCommit
  <2>2. NewMax(q) \in Nat
    BY <1>5, EvictedFacts, Zenon DEF MovePrepared, Evicts, Committing
  <2>3. prepared_txns' \in Heaps
    BY <1>5, <2>2, PopUpToFacts, Zenon DEF MovePrepared, Types
  <2>4. delayed_prepared' \subseteq delayed_once' /\ delayed_once' \subseteq Nat
    BY <1>5, Zenon DEF MovePrepared, UpTo, Types, Heaps
  <2>5. ahead' \in BOOLEAN
    BY <1>5, Zenon DEF MovePrepared, Passes
  <2> QED
    BY <1>5, <2>1, <2>3, <2>4, <2>5, Zenon DEF MovePrepared, Types
<1>6a. ASSUME NEW q \in {1, 2}, GetSnapshotListFromDB(q)
       PROVE  Types'
  <2>1. queue' \in [{1, 2} -> Calls]
    BY <1>6a, GotoFacts, Zenon DEF GetSnapshotListFromDB, Types, InCommit
  <2>2. walked' \subseteq Nat
    BY <1>6a, ListedNumbers, Zenon DEF GetSnapshotListFromDB, Types
  <2> QED
    BY <1>6a, <2>1, <2>2, Zenon DEF GetSnapshotListFromDB, Types
<1>6. ASSUME NEW q \in {1, 2}, UpdateSnapshots(q)
      PROVE  Types'
  <2>1. queue' \in [{1, 2} -> Calls]
    BY <1>6, GotoFacts, Zenon DEF UpdateSnapshots, Types, InCommit
  <2>2. snapshots' \subseteq Nat
    BY <1>6, ListedNumbers, Zenon DEF UpdateSnapshots, Types
  <2> QED
    BY <1>6, <2>1, <2>2, Zenon DEF UpdateSnapshots, Types
<1>7. ASSUME NEW q \in {1, 2}, StoreMaxEvicted(q) \/ CheckAgainstSnapshots(q)
                                \/ ExchangeCommitEntry(q)
      PROVE  Types'
  <2>1. queue[q].todo # {} /\ queue[q].seq \in Nat
    BY <1>7, Zenon DEF StoreMaxEvicted, CheckAgainstSnapshots, ExchangeCommitEntry, Evicts,
       Committing, Types, Calls
  <2>2. /\ Min(queue[q].todo) \in Nat /\ Evicted(q) \in Nat \X Nat /\ NewMax(q) \in Nat
    BY <2>1, EvictedFacts, Zenon
  <2>5. CASE StoreMaxEvicted(q)
    <3>1. queue' \in [{1, 2} -> Calls]
      BY <2>5, GotoFacts, Zenon DEF StoreMaxEvicted, Types, InCommit
    <3>2. max_evicted_seq' \in Nat
      BY <2>2, <2>5, Zenon DEF StoreMaxEvicted
    <3> QED
      BY <2>5, <3>1, <3>2, Zenon DEF StoreMaxEvicted, Types
  <2>6. CASE CheckAgainstSnapshots(q)
    <3>1. queue' \in [{1, 2} -> Calls]
      BY <2>6, GotoFacts, Zenon DEF CheckAgainstSnapshots, Types, InCommit
    <3>2. Searched(Evicted(q)) \subseteq Nat
      BY Zenon DEF Searched, Cached, Types
    <3>3. old_commit_map' \subseteq Nat \X Nat
      BY <2>2, <2>6, <3>2 DEF CheckAgainstSnapshots, Types
    <3> QED
      BY <2>6, <3>1, <3>3, Zenon DEF CheckAgainstSnapshots, Types
  <2>7. CASE ExchangeCommitEntry(q)
    <3>1. queue' \in [{1, 2} -> Calls]
      <4>1. PICK seq : queue' = [queue EXCEPT ![q].pc = "commit", ![q].todo = @ \ {seq}]
        BY <2>7, Zenon DEF ExchangeCommitEntry
      <4> QED
        BY <4>1, SMTT(30), SMTT(45) DEF Types, Calls, InCommit
    <3>2. commit_cache' \in [0 .. config.commit_cache_size - 1 -> Nat \X Nat]
      BY <2>1, <2>2, <2>7, Zenon DEF ExchangeCommitEntry, Types
    <3>3. commit' \in [1 .. config.max_seq -> Nat]
      BY <2>1, <2>7, Zenon DEF ExchangeCommitEntry, Types
    <3> QED
      BY <2>7, <3>1, <3>2, <3>3, Zenon DEF ExchangeCommitEntry, Types
  <2> QED
    BY <1>7, <2>5, <2>6, <2>7, Zenon
<1>8. ASSUME NEW q \in {1, 2}, FinishCommit(q)
      PROVE  Types'
  <2>1. /\ queue[q].txn \in SUBSET Nat /\ queue[q].seq \in Nat /\ last_published' \in Nat
        /\ Idle \in Calls
    BY <1>8, Zenon DEF FinishCommit, Types, Calls, Idle
  <2>2. returned' \subseteq (SUBSET Nat) \X Nat
    <3>1. \A r \in returned' : r \in returned \/ r = <<queue[q].txn, queue[q].seq>>
      BY <1>8, Zenon DEF FinishCommit
    <3>2. <<queue[q].txn, queue[q].seq>> \in (SUBSET Nat) \X Nat
      BY <2>1, Zenon
    <3> QED
      BY <3>1, <3>2, Zenon DEF Types
  <2>3. queue' \in [{1, 2} -> Calls]
    BY <1>8, <2>1, Zenon DEF FinishCommit, Types, Calls, Idle
  <2> QED
    BY <1>8, <2>1, <2>2, <2>3, Zenon DEF FinishCommit, Types
<1>9. ASSUME NEW r \in returned, RemovePrepared(r[1], r[2])
      PROVE  Types'
  <2>1. r[1] \in SUBSET Nat
    BY Zenon DEF Types
  <2>2. prepared_txns' \in Heaps
    BY <1>9, <2>1, EraseFacts, Zenon DEF RemovePrepared, Types
  <2> QED
    BY <1>9, <2>2, Zenon DEF RemovePrepared, Types
<1>10. ASSUME NEW h \in Handles, HandleStep(h)
       PROVE  Types'
  <2>1. SmallestUnCommittedSeq \in Nat
    BY NatMin DEF SmallestUnCommittedSeq, Types, Heaps
  <2>2. handle' \in [Handles -> SnapshotObjects]
    <3>1. CASE GetMinUncommitted(h)
      BY <2>1, <3>1, Zenon DEF GetMinUncommitted, Types, SnapshotObjects
    <3>2. CASE GetSnapshotImpl(h)
      <4>1. handle[h] \in SnapshotObjects /\ last_published \in Nat
        BY Zenon DEF Types
      <4>2. [handle[h] EXCEPT !.pc = "live", !.seq = last_published] \in SnapshotObjects
        BY <4>1, Zenon DEF SnapshotObjects
      <4> QED
        BY <3>2, <4>2, Zenon DEF GetSnapshotImpl, Types
    <3>3. CASE Releasing(h)
      BY <3>3, ReleasingFacts, Zenon DEF Types
    <3>4. CASE ReleaseSnapshot(h)
      BY <3>4, Zenon DEF ReleaseSnapshot, Types, SnapshotObjects, NoSnapshot
    <3> QED
      BY <1>10, <3>1, <3>2, <3>3, <3>4, Zenon DEF HandleStep
  <2>3. /\ Quiet /\ UNCHANGED <<walked, snapshots>>
        /\ old_commit_map' \subseteq old_commit_map
    BY <1>10, ReleasingFacts, Zenon DEF Types, HandleStep, GetMinUncommitted, GetSnapshotImpl,
       ReleaseSnapshot, Quiet
  <2> QED
    BY <2>2, <2>3, Zenon DEF Quiet, Types
<1>11. CASE ReaderStep
  BY <1>11, Zenon DEF ReaderStep, Quiet, Types
<1> QED
  BY <1>1, <1>2, <1>2a, <1>3, <1>3a, <1>4, <1>5, <1>6, <1>6a, <1>7, <1>8, <1>9, <1>10, <1>11,
     NextCases, Zenon DEF Types


-----------------------------------------------------------------------------
(* The calls in progress, and the transactions between them.               *)

\* the numbers of the call of a queue
Ours(q) == queue[q].todo \cup queue[q].txn

\* numbers are taken before they are published
Bounds ==
    /\ last_sequence <= last_allocated /\ last_published <= last_allocated
    /\ last_allocated <= config.max_seq
    /\ data \subseteq 1 .. last_allocated

\* which queue makes which call, and with whose numbers
Callers ==
    /\ ~config.two_write_queues => queue[2].pc = "idle"
    /\ queue[2].pc \in InCommit \cup {"idle"}
    /\ config.two_write_queues => queue[1].pc \notin InCommit
    /\ \A q \in {1, 2} : Free(q) => Ours(q) = {}
    /\ \A q \in {1, 2} : Ours(q) \subseteq data

\* a group in the main queue has the largest number taken there, and with one queue the
\* largest of all
Groups ==
    queue[1].pc # "idle" =>
        /\ last_sequence < queue[1].seq /\ queue[1].seq <= last_allocated
        /\ ~config.two_write_queues =>
               last_published < queue[1].seq /\ queue[1].seq = last_allocated

\* a prepare visits its own numbers
Prepares ==
    queue[1].pc \in InPrepare => queue[1].todo \subseteq queue[1].txn

\* a commit is not published, and has written what it has visited
Commits ==
    \A q \in {1, 2} : queue[q].pc \in InCommit =>
        /\ last_published < queue[q].seq /\ queue[q].seq <= last_allocated
        /\ \A p \in Ours(q) : p <= queue[q].seq
        /\ \A p \in queue[q].txn \ queue[q].todo : commit[p] = queue[q].seq

\* who has not committed, and what a commit looks like
Uncommitted ==
    /\ \A t \in txns : t \subseteq data /\ \A p \in t : commit[p] = 0
    /\ \A q \in {1, 2} : \A p \in queue[q].todo : commit[p] = 0
    /\ \A p \in 1 .. config.max_seq : commit[p] # 0 =>
           p \in data /\ p <= commit[p] /\ commit[p] <= last_allocated
    /\ queue[1].pc \in InPrepare \cup {"thrown"} => \A p \in queue[1].txn : commit[p] = 0

\* no number has two owners
Disjoint ==
    /\ \A t, u \in txns : t # u => t \cap u = {}
    /\ \A t \in txns, q \in {1, 2} : t \cap Ours(q) = {}
    /\ Ours(1) \cap Ours(2) = {}

\* what RemovePrepared is called for has committed
Returned ==
    \A r \in returned : \A p \in r[1] : p \in data /\ commit[p] # 0 /\ commit[p] = r[2]

\* with two queues a transaction commits after the group of its prepare
Recent ==
    config.two_write_queues =>
        /\ \A p \in data : p > last_sequence => commit[p] = 0
        /\ \A p \in Ours(2) : p <= last_sequence

\* the rules of the calls
CallInv ==
    /\ Bounds /\ Callers /\ Groups /\ Prepares /\ Commits
    /\ Uncommitted /\ Disjoint /\ Returned /\ Recent

\* Data has a place in the history of commits.
LEMMA DataNumbers ==
    ASSUME Types, Bounds
    PROVE  \A p \in data : p \in 1 .. config.max_seq /\ p \in Nat /\ commit[p] \in Nat
<1>1. /\ config.max_seq \in Nat /\ last_allocated \in Nat /\ last_allocated <= config.max_seq
      /\ data \subseteq 1 .. last_allocated
  BY ConfigsOK, Zenon DEF Types, IsConfig, Bounds
<1>2. \A p \in 1 .. last_allocated : p \in 1 .. config.max_seq /\ p \in Nat
  BY <1>1
<1>3. \A p \in 1 .. config.max_seq : commit[p] \in Nat
  BY Zenon DEF Types
<1> QED
  BY <1>1, <1>2, <1>3, Zenon

\* The rules of the calls hold when the DB is opened.
LEMMA InitCalls == Init => CallInv
<1> SUFFICES ASSUME Init PROVE CallInv
  BY Zenon
<1>1. config.last_seq \in Nat /\ config.recovered \subseteq 1 .. config.last_seq
      /\ config.max_seq \in Nat /\ config.last_seq <= config.max_seq
  BY ConfigsOK, Zenon DEF Init, IsConfig
<1>2. \A q \in {1, 2} : queue[q].pc = "idle" /\ queue[q].todo = {} /\ queue[q].txn = {}
  BY Zenon DEF Init, Idle
<1>3. \A p \in 1 .. config.max_seq :
          commit[p] = IF p \in 1 .. config.last_seq \ config.recovered THEN p ELSE 0
  BY Zenon DEF Init
<1>4. Bounds
  BY <1>1 DEF Init, Bounds
<1>5. Callers /\ Groups /\ Prepares /\ Commits
  BY <1>2, Zenon DEF Callers, Groups, Prepares, Commits, InCommit, InPrepare, Ours
<1>6. \A t \in txns : \E p \in config.recovered : t = {p}
  BY Zenon DEF Init
<1>7. Uncommitted
  BY <1>1, <1>2, <1>3, <1>6 DEF Uncommitted, InPrepare, Init
<1>8. Disjoint
  BY <1>2, <1>6, Zenon DEF Disjoint, Ours
<1>9. Returned /\ Recent
  BY <1>1, <1>2 DEF Init, Returned, Recent, Ours
<1> QED
  BY <1>4, <1>5, <1>7, <1>8, <1>9, Zenon DEF CallInv

\* steps that move a call that commits along without committing anything, and steps of
\* everybody else
KeepsCalls ==
    /\ UNCHANGED <<config, seqVars, txns, data, cacheVars>>
    /\ returned' \subseteq returned
    /\ \A q \in {1, 2} :
           /\ queue'[q].todo = queue[q].todo /\ queue'[q].txn = queue[q].txn
           /\ queue'[q].seq = queue[q].seq
           /\ queue'[q].pc = queue[q].pc \/ {queue'[q].pc, queue[q].pc} \subseteq InCommit

\* A step that keeps the calls keeps their rules.
LEMMA KeepingCalls ==
    ASSUME Types, CallInv, KeepsCalls
    PROVE  CallInv'
<1>1. Bounds'
  BY Zenon DEF CallInv, KeepsCalls, Bounds
<1>2. Callers'
  BY Zenon DEF CallInv, KeepsCalls, Callers, Free, Ours, InCommit
<1>2a. Groups'
  BY Zenon DEF CallInv, KeepsCalls, Groups, InCommit
<1>3. Prepares'
  BY Zenon DEF CallInv, KeepsCalls, Prepares, InCommit, InPrepare
<1>4. Commits'
  BY DEF CallInv, KeepsCalls, Commits, Ours, InCommit
<1>5. Uncommitted'
  BY Zenon DEF CallInv, KeepsCalls, Uncommitted, InCommit, InPrepare
<1>6. Disjoint'
  BY Zenon DEF CallInv, KeepsCalls, Disjoint, Ours
<1>7. Returned'
  BY Zenon DEF CallInv, KeepsCalls, Returned
<1>8. Recent'
  BY Zenon DEF CallInv, KeepsCalls, Recent, Ours
<1> QED
  BY <1>1, <1>2, <1>2a, <1>3, <1>4, <1>5, <1>6, <1>7, <1>8, Zenon DEF CallInv

\* A prepare takes numbers nobody has.
LEMMA PrepareCalls ==
    ASSUME Types, CallInv, NEW n \in Nat \ {0}, PrepareInternal(n)
    PROVE  CallInv'
<1>1. /\ queue'[1].pc = "prepare" /\ queue'[1].todo = Taken(n) /\ queue'[1].txn = Taken(n)
      /\ queue'[1].seq = last_allocated + n /\ queue'[2] = queue[2]
      /\ Free(1)
  BY DEF PrepareInternal, Types
<1>2. /\ UNCHANGED <<config, last_sequence, last_published, txns, returned, cacheVars>>
      /\ last_allocated' = last_allocated + n /\ last_allocated + n <= config.max_seq
      /\ data' = data \cup Taken(n)
  BY Zenon DEF PrepareInternal
<1>3. /\ last_allocated \in Nat /\ last_sequence \in Nat /\ last_published \in Nat
      /\ data \subseteq 1 .. last_allocated /\ config.max_seq \in Nat
  BY ConfigsOK, Zenon DEF Types, IsConfig, CallInv, Bounds
<1>4. \A p \in Taken(n) : p \in Nat /\ p > last_allocated /\ p <= last_allocated + n
  BY <1>3 DEF Taken
<1>5. \A p \in Taken(n) : p \notin data
  BY <1>3, <1>4
<1>6. Bounds'
  <2>1. last_allocated' \in Nat /\ last_allocated <= last_allocated'
    BY <1>2, <1>3
  <2>2. \A p \in data : p \in 1 .. last_allocated'
    BY <1>3, <2>1
  <2>3. \A p \in Taken(n) : p \in 1 .. last_allocated'
    BY <1>2, <1>3, <1>4
  <2>4. data' \subseteq 1 .. last_allocated'
    BY <1>2, <2>2, <2>3, Zenon
  <2>5. /\ last_sequence <= last_allocated' /\ last_published <= last_allocated'
        /\ last_allocated' <= config.max_seq
    BY <1>2, <1>3, <2>1 DEF CallInv, Bounds
  <2> QED
    BY <1>2, <2>4, <2>5, Zenon DEF Bounds
<1>7. Callers'
  BY <1>1, <1>2, Zenon DEF CallInv, Callers, Free, Ours, InCommit
<1>8. Prepares' /\ Groups'
  <2>1. Groups'
    BY <1>1, <1>2, <1>3 DEF CallInv, Bounds, Groups
  <2> QED
    BY <1>1, <2>1, Zenon DEF Prepares
<1>9. Commits'
  BY <1>1, <1>2, <1>3,
       SMTT(30), SMTT(45) DEF CallInv, Commits, Callers, Ours, InCommit, Types, Calls
<1>10. \A p \in 1 .. config.max_seq : p \notin data => commit[p] = 0
  BY Zenon DEF CallInv, Uncommitted
<1>11. \A p \in Taken(n) : commit[p] = 0
  BY <1>2, <1>3, <1>4, <1>5, <1>10
<1>12. Uncommitted'
  <2>1. \A p \in 1 .. config.max_seq : commit[p] # 0 =>
            p \in data' /\ p <= commit[p] /\ commit[p] <= last_allocated'
    BY <1>2, <1>3 DEF CallInv, Uncommitted, Types
  <2>2. \A t \in txns : t \subseteq data' /\ \A p \in t : commit[p] = 0
    BY <1>2, Zenon DEF CallInv, Uncommitted
  <2> QED
    BY <1>1, <1>2, <1>11, <2>1, <2>2 DEF CallInv, Uncommitted
<1>13. Disjoint'
  BY <1>1, <1>2, <1>5 DEF CallInv, Disjoint, Uncommitted, Callers, Ours
<1>14. Returned'
  BY <1>2, Zenon DEF CallInv, Returned
<1>15. Recent'
  BY <1>1, <1>2, <1>11, Zenon DEF CallInv, Recent, Ours
<1> QED
  BY <1>6, <1>7, <1>8, <1>9, <1>12, <1>13, <1>14, <1>15, Zenon DEF CallInv

\* AddPrepared goes on with the number, or to the next one of the batch.
LEMMA AddPreparedCalls ==
    ASSUME Types, CallInv, CheckPrepared \/ AddPrepared
    PROVE  CallInv'
<1>1. /\ queue'[1].todo \subseteq queue[1].todo /\ queue'[1].txn = queue[1].txn
      /\ queue'[1].seq = queue[1].seq /\ queue'[2] = queue[2]
      /\ queue[1].pc \in InPrepare /\ queue'[1].pc \in InPrepare \cup {"thrown"}
  <2>1. CASE CheckPrepared
    BY <2>1 DEF CheckPrepared, Types, Calls, InPrepare
  <2>2. CASE AddPrepared
    BY <2>2 DEF AddPrepared, Types, Calls, InPrepare
  <2> QED
    BY <2>1, <2>2, Zenon
<1>2. UNCHANGED <<config, seqVars, txnVars, cacheVars>>
  BY Zenon DEF CheckPrepared, AddPrepared
<1>3. Bounds' /\ Returned'
  BY <1>2, Zenon DEF CallInv, Bounds, Returned
<1>4. Callers'
  BY <1>1, <1>2, Zenon DEF CallInv, Callers, Free, Ours, InCommit, InPrepare
<1>5. Prepares' /\ Groups'
  BY <1>1, <1>2, Zenon DEF CallInv, Prepares, Groups, InPrepare
<1>6. Commits'
  BY <1>1, <1>2, Zenon DEF CallInv, Commits, Ours, InCommit, InPrepare
<1>7. Uncommitted'
  BY <1>1, <1>2, Zenon DEF CallInv, Uncommitted
<1>8. Disjoint'
  BY <1>1, <1>2 DEF CallInv, Disjoint, Ours
<1>9. Recent'
  BY <1>1, <1>2, Zenon DEF CallInv, Recent, Ours
<1> QED
  BY <1>3, <1>4, <1>5, <1>6, <1>7, <1>8, <1>9, Zenon DEF CallInv

\* The end of a prepare leaves a transaction whose numbers are its own.
LEMMA FinishPrepareCalls ==
    ASSUME Types, CallInv, FinishPrepare
    PROVE  CallInv'
<1>1. /\ queue'[1].todo = {} /\ queue'[1].txn = {} /\ queue'[1].pc = "done"
      /\ queue'[1].seq = queue[1].seq /\ queue'[2] = queue[2] /\ queue[1].pc = "prepare"
  BY DEF FinishPrepare, Types, Idle
<1>2. /\ UNCHANGED <<config, seqVars, returned, data, cacheVars>>
      /\ txns' = txns \cup {queue[1].txn}
  BY Zenon DEF FinishPrepare
<1>3. Bounds' /\ Returned'
  BY <1>2, Zenon DEF CallInv, Bounds, Returned
<1>5. Callers'
  BY <1>1, <1>2, Zenon DEF CallInv, Callers, Free, Ours, InCommit
<1>6. Prepares' /\ Groups'
  BY <1>1, <1>2, Zenon DEF CallInv, Prepares, Groups, InPrepare
<1>7. Commits'
  BY <1>1, <1>2, Zenon DEF CallInv, Commits, Ours, InCommit
<1>8. Uncommitted'
  BY <1>1, <1>2, Zenon DEF CallInv, Uncommitted, Callers, Ours, InPrepare
<1>9. Disjoint'
  BY <1>1, <1>2 DEF CallInv, Disjoint, Ours
<1>12. Recent'
  BY <1>1, <1>2, Zenon DEF CallInv, Recent, Ours
<1> QED
  BY <1>3, <1>5, <1>6, <1>7, <1>8, <1>9, <1>12, Zenon DEF CallInv

\* A group is published when its callbacks have returned.
LEMMA PublishGroupCalls ==
    ASSUME Types, CallInv, PublishGroup
    PROVE  CallInv' /\ last_published <= last_published' /\ last_sequence <= last_sequence'
<1>1. /\ queue'[1].todo = {} /\ queue'[1].txn = {} /\ queue'[1].pc = "idle"
      /\ queue'[2] = queue[2] /\ queue[1].pc = "done" /\ Ours(1) = {} /\ Ours(1)' = {}
  BY DEF PublishGroup, Types, Idle, CallInv, Callers, Free, Ours
<1>2. /\ UNCHANGED <<config, last_allocated, txns, returned, data, cacheVars>>
      /\ last_sequence' = queue[1].seq
      /\ last_published' = IF config.two_write_queues THEN last_published ELSE queue[1].seq
  BY Zenon DEF PublishGroup
<1>3. /\ queue[1].seq \in Nat /\ last_sequence \in Nat /\ last_published \in Nat
      /\ last_sequence < queue[1].seq /\ queue[1].seq <= last_allocated
      /\ ~config.two_write_queues => last_published < queue[1].seq
  BY <1>1, Zenon DEF Types, Calls, CallInv, Groups
<1>4. last_published <= last_published' /\ last_sequence <= last_sequence'
  BY <1>2, <1>3
<1>5. Bounds' /\ Returned'
  BY <1>2, <1>3, Zenon DEF CallInv, Bounds, Returned
<1>6. Callers' /\ Prepares' /\ Groups'
  <2>1. Callers'
    BY <1>1, <1>2, Zenon DEF CallInv, Callers, Free, Ours, InCommit
  <2> QED
    BY <1>1, <2>1, Zenon DEF Prepares, Groups, InPrepare
<1>7. Commits'
  BY <1>1, <1>2, Zenon DEF CallInv, Commits, Callers, Ours, InCommit
<1>8. Uncommitted'
  BY <1>1, <1>2, Zenon DEF CallInv, Uncommitted, InPrepare
<1>9. Disjoint'
  BY <1>1, <1>2 DEF CallInv, Disjoint, Ours
<1>10. \A p \in Nat : /\ p > last_sequence' => p > last_sequence
                      /\ p <= last_sequence => p <= last_sequence'
  BY <1>2, <1>3
<1>11. Recent'
  BY <1>1, <1>2, <1>10, Zenon DEF CallInv, Recent, Callers, Ours, Types
<1> QED
  BY <1>4, <1>5, <1>6, <1>7, <1>8, <1>9, <1>11, Zenon DEF CallInv

\* A commit takes over the numbers of its transaction and a larger one of its own.
LEMMA StartCommitCalls ==
    ASSUME Types, CallInv, NEW txn, NEW n, Starts(txn, n)
    PROVE  CallInv'
<1>a. PICK q \in {1, 2} : q = CommitQueue
  BY Zenon DEF CommitQueue
<1>b. PICK new : new = last_allocated + Max({n, 1})
  BY Zenon
<1>1. /\ q = (IF config.two_write_queues THEN 2 ELSE 1)
      /\ n \in Nat /\ (config.two_write_queues => n = 0)
      /\ txn \in txns \cup {{}} /\ txn \in SUBSET data
  BY <1>a, Zenon DEF Starts, Prepared, CommitQueue, CallInv, Uncommitted
<1>2. /\ last_allocated \in Nat /\ last_sequence \in Nat /\ last_published \in Nat
      /\ new \in Nat /\ last_allocated < new /\ last_allocated + n <= new
      /\ data \subseteq 1 .. last_allocated /\ config.max_seq \in Nat
      /\ commit \in [1 .. config.max_seq -> Nat]
  <2>1. /\ last_allocated \in Nat /\ last_sequence \in Nat /\ last_published \in Nat
        /\ data \subseteq 1 .. last_allocated /\ config.max_seq \in Nat
        /\ commit \in [1 .. config.max_seq -> Nat] /\ n \in Nat
    BY <1>1, ConfigsOK, Zenon DEF Types, IsConfig, CallInv, Bounds
  <2>2. new \in Nat /\ last_allocated < new /\ last_allocated + n <= new
    BY <1>b, <2>1, MaxOne
  <2> QED
    BY <2>1, <2>2, Zenon
<1>3. /\ queue'[q].pc = "commit" /\ queue'[q].todo = txn \cup Taken(n)
      /\ queue'[q].txn = txn /\ queue'[q].seq = new
      /\ \A r \in {1, 2} : r # q => queue'[r] = queue[r]
      /\ Free(q)
  BY <1>a, <1>b, <1>1, Zenon DEF Starts, StartCommit, Types
<1>4. /\ UNCHANGED <<config, last_sequence, last_published, returned, cacheVars>>
      /\ last_allocated' = new /\ new <= config.max_seq
      /\ data' = data \cup Taken(n) /\ txns' = txns \ {txn}
  BY <1>b, Zenon DEF Starts, StartCommit
<1>5. \A p \in Taken(n) : p \in Nat /\ p > last_allocated /\ p <= new
  BY <1>1, <1>2 DEF Taken
<1>6. \A p \in Taken(n) : p \notin data
  BY <1>2, <1>5
<1>7. \A p \in Taken(n) : p \in 1 .. config.max_seq /\ p \in 1 .. new
  <2>1. /\ last_allocated \in Nat /\ new \in Nat /\ config.max_seq \in Nat
        /\ new <= config.max_seq
    BY <1>2, <1>4, Zenon
  <2>2. ASSUME NEW p \in Taken(n) PROVE p \in 1 .. config.max_seq /\ p \in 1 .. new
    <3>1. p \in Nat /\ p > last_allocated /\ p <= new
      BY <1>5, Zenon
    <3> QED
      BY <2>1, <3>1
  <2> QED
    BY <2>2, Zenon
<1>8. \A p \in Taken(n) : commit[p] = 0
  BY <1>6, <1>7, Zenon DEF CallInv, Uncommitted
<1>9. \A p \in data : p \in 1 .. new /\ p <= new
  BY <1>2
<1>10. data' \subseteq 1 .. last_allocated'
  BY <1>4, <1>7, <1>9, Zenon
<1>11. Bounds'
  <2>1. last_sequence <= new /\ last_published <= new
    BY <1>2 DEF CallInv, Bounds
  <2> QED
    BY <1>4, <1>10, <2>1, Zenon DEF Bounds
<1>12. \A p \in Ours(q)' : p \in data' /\ p <= new /\ commit[p] = 0
  <2>1. \A p \in txn : commit[p] = 0 /\ p <= new
    BY <1>1, <1>9, Zenon DEF CallInv, Uncommitted
  <2> QED
    BY <1>1, <1>3, <1>4, <1>5, <1>8, <2>1, Zenon DEF Ours
<1>13. Callers'
  <2>1. \A r \in {1, 2} : r # q => Ours(r)' = Ours(r)
    BY <1>3, Zenon DEF Ours
  <2>2. \A r \in {1, 2} : Ours(r)' \subseteq data'
    BY <1>4, <1>12, <2>1, Zenon DEF CallInv, Callers
  <2> QED
    BY <1>1, <1>3, <1>4, <2>1, <2>2 DEF CallInv, Callers, Free, InCommit
<1>14. Prepares' /\ Groups'
  <2>1. queue'[1].pc \in InPrepare => queue'[1] = queue[1]
    BY <1>1, <1>3, Zenon DEF InPrepare
  <2>2. Prepares'
    BY <2>1, Zenon DEF CallInv, Prepares
  <2>3. CASE config.two_write_queues
    <3>1. queue'[1] = queue[1] /\ UNCHANGED <<config, last_sequence>>
      BY <1>1, <1>3, <1>4, <2>3
    <3>2. queue[1].seq \in Nat
      BY Zenon DEF Types, Calls
    <3>3. Groups'
      BY <1>2, <1>4, <2>3, <3>1, <3>2 DEF CallInv, Groups
    <3> QED
      BY <2>2, <3>3, Zenon
  <2>4. CASE ~config.two_write_queues
    <3>1. queue'[1].seq = new /\ last_allocated' = new
      BY <1>1, <1>3, <1>4, <2>4, Zenon
    <3>2. last_sequence < new /\ last_published < new /\ new <= new
      BY <1>2 DEF CallInv, Bounds
    <3>3. Groups'
      BY <1>4, <3>1, <3>2, Zenon DEF Groups
    <3> QED
      BY <2>2, <3>3, Zenon
  <2> QED
    BY <2>3, <2>4, Zenon
<1>15. Commits'
  <2>1. ASSUME NEW r \in {1, 2}, queue'[r].pc \in InCommit
        PROVE  r = q
    BY <1>1, <1>3, <2>1, Zenon DEF CallInv, Callers, InCommit
  <2>2. /\ last_published < new /\ last_sequence < new
    BY <1>2 DEF CallInv, Bounds
  <2>3. \A p \in queue'[q].txn : p \in queue'[q].todo
    BY <1>3, Zenon
  <2>4. new <= last_allocated' /\ \A p \in Ours(q)' : p <= new
    <3>1. new \in Nat /\ last_allocated' = new
      BY <1>2, <1>4, Zenon
    <3>2. \A p \in Ours(q)' : p <= new
      BY <1>12, Zenon
    <3> QED
      BY <3>1, <3>2
  <2>5. ASSUME NEW r \in {1, 2}, queue'[r].pc \in InCommit
        PROVE  /\ last_published' < queue'[r].seq /\ queue'[r].seq <= last_allocated'
               /\ last_sequence' < queue'[r].seq
               /\ \A p \in Ours(r)' : p <= queue'[r].seq
               /\ \A p \in queue'[r].txn : p \in queue'[r].todo
    <3>1. r = q
      BY <2>1, <2>5, Zenon
    <3>2. /\ last_published' = last_published /\ last_sequence' = last_sequence
          /\ queue'[q].seq = new
      BY <1>3, <1>4, Zenon
    <3> QED
      BY <2>2, <2>3, <2>4, <3>1, <3>2, Zenon
  <2> QED
    BY <2>5, Zenon DEF Commits
<1>16. Uncommitted'
  <2>1. \A t \in txns' : t \subseteq data' /\ \A p \in t : commit[p] = 0
    BY <1>4, Zenon DEF CallInv, Uncommitted
  <2>2. \A p \in 1 .. config.max_seq : commit[p] # 0 =>
            p \in data' /\ p <= commit[p] /\ commit[p] <= new
    BY <1>2, <1>4 DEF CallInv, Uncommitted
  <2>3. \A r \in {1, 2} : \A p \in queue'[r].todo : commit[p] = 0
    BY <1>3, <1>12, Zenon DEF CallInv, Uncommitted, Ours
  <2>4. queue'[1].pc \in InPrepare \cup {"thrown"} => queue'[1] = queue[1]
    BY <1>1, <1>3, Zenon DEF InPrepare
  <2> QED
    BY <1>4, <2>1, <2>2, <2>3, <2>4, Zenon DEF CallInv, Uncommitted
<1>17. Disjoint'
  <2>1. \A t \in txns' : t \cap Ours(q)' = {}
    <3>1. \A t \in txns' : t \cap txn = {}
      BY <1>1, <1>4, Zenon DEF CallInv, Disjoint
    <3>2. \A t \in txns' : t \cap Taken(n) = {}
      BY <1>4, <1>6, Zenon DEF CallInv, Uncommitted
    <3> QED
      BY <1>3, <3>1, <3>2, Zenon DEF Ours
  <2>2. ASSUME NEW r \in {1, 2}, r # q
        PROVE  Ours(r)' = Ours(r) /\ Ours(r)' \cap Ours(q)' = {}
    <3>1. Ours(r)' = Ours(r) /\ Ours(r) \subseteq data
      BY <1>3, <2>2, Zenon DEF Ours, CallInv, Callers
    <3>2. Ours(r) \cap txn = {}
      BY <1>1, <2>2, Zenon DEF CallInv, Disjoint
    <3> QED
      BY <1>3, <1>6, <3>1, <3>2, Zenon DEF Ours
  <2> QED
    BY <1>1, <1>4, <2>1, <2>2 DEF CallInv, Disjoint
<1>18. Returned'
  BY <1>4, Zenon DEF CallInv, Returned
<1>19. Recent'
  <2>1. ASSUME config.two_write_queues
        PROVE  /\ \A p \in data' : p > last_sequence => commit[p] = 0
               /\ \A p \in Ours(2)' : p <= last_sequence
    <3>1. Taken(n) = {} /\ q = 2
      BY <1>1, <1>2, <2>1 DEF Taken
    <3>2. \A p \in txn : p <= last_sequence
      BY Zenon DEF Starts, Prepared
    <3> QED
      BY <1>3, <1>4, <2>1, <3>1, <3>2, Zenon DEF CallInv, Recent, Ours
  <2> QED
    BY <1>4, <2>1, Zenon DEF Recent
<1> QED
  BY <1>11, <1>13, <1>14, <1>15, <1>16, <1>17, <1>18, <1>19, Zenon DEF CallInv

\* ExchangeCommitEntry commits the smallest number that is still to be visited.
LEMMA ExchangeFacts ==
    ASSUME Types, CallInv, NEW q \in {1, 2}, ExchangeCommitEntry(q)
    PROVE  \E seq \in queue[q].todo :
               /\ seq = Min(queue[q].todo)
               /\ queue[q].pc \in InCommit
               /\ seq \in data /\ seq \in Nat /\ seq \in 1 .. config.max_seq /\ commit[seq] = 0
               /\ queue[q].seq \in Nat /\ seq <= queue[q].seq
               /\ queue[q].seq <= last_allocated /\ last_published < queue[q].seq
               /\ queue'[q].pc = "commit" /\ queue'[q].todo = queue[q].todo \ {seq}
               /\ queue'[q].txn = queue[q].txn /\ queue'[q].seq = queue[q].seq
               /\ \A r \in {1, 2} : r # q => queue'[r] = queue[r]
               /\ commit'[seq] = queue[q].seq
               /\ \A p \in 1 .. config.max_seq : p # seq => commit'[p] = commit[p]
               /\ \A p \in data : p # seq => commit'[p] = commit[p]
               /\ Index(seq) \in DOMAIN commit_cache
               /\ commit_cache'[Index(seq)] = <<seq, queue[q].seq>>
               /\ \A i \in DOMAIN commit_cache :
                      i # Index(seq) => commit_cache'[i] = commit_cache[i]
<1>1. PICK seq : seq = Min(queue[q].todo)
  BY Zenon
<1>2. /\ queue[q].pc \in InCommit /\ queue[q].todo # {}
  BY Zenon DEF ExchangeCommitEntry, Committing, InCommit
<1>3. seq \in queue[q].todo /\ seq \in Nat /\ Index(seq) \in DOMAIN commit_cache
  BY <1>1, <1>2, EvictedFacts, Zenon DEF Types
<1>4. /\ queue'[q].pc = "commit" /\ queue'[q].todo = queue[q].todo \ {seq}
      /\ queue'[q].txn = queue[q].txn /\ queue'[q].seq = queue[q].seq
      /\ \A r \in {1, 2} : r # q => queue'[r] = queue[r]
      /\ queue[q].seq \in Nat
  BY <1>1 DEF ExchangeCommitEntry, Types, Calls
<1>5. /\ commit' = [commit EXCEPT ![seq] = queue[q].seq]
      /\ commit_cache' = [commit_cache EXCEPT ![Index(seq)] = <<seq, queue[q].seq>>]
  BY <1>1, Zenon DEF ExchangeCommitEntry
<1>6. /\ seq \in data /\ commit[seq] = 0 /\ seq <= queue[q].seq
      /\ queue[q].seq <= last_allocated /\ last_published < queue[q].seq
  BY <1>2, <1>3, Zenon DEF CallInv, Callers, Commits, Uncommitted, Ours
<1>7. \A p \in data : p \in 1 .. config.max_seq
  BY DataNumbers, Zenon DEF CallInv
<1>8. /\ commit'[seq] = queue[q].seq
      /\ \A p \in 1 .. config.max_seq : p # seq => commit'[p] = commit[p]
  BY <1>5, <1>6, <1>7, Zenon DEF Types
<1>9. \A p \in data : p # seq => commit'[p] = commit[p]
  BY <1>7, <1>8, Zenon
<1>10. /\ commit_cache'[Index(seq)] = <<seq, queue[q].seq>>
       /\ \A i \in DOMAIN commit_cache : i # Index(seq) => commit_cache'[i] = commit_cache[i]
  BY <1>3, <1>5, Zenon DEF Types
<1> QED
  BY <1>1, <1>2, <1>3, <1>4, <1>6, <1>7, <1>8, <1>9, <1>10, Zenon

\* A commit entry is written once, with the number of the commit.
LEMMA ExchangeCalls ==
    ASSUME Types, CallInv, NEW q \in {1, 2}, ExchangeCommitEntry(q)
    PROVE  CallInv'
<1>2. PICK seq \in queue[q].todo :
         /\ queue[q].pc \in InCommit
         /\ seq \in data /\ seq \in 1 .. config.max_seq /\ commit[seq] = 0
         /\ queue[q].seq \in Nat /\ seq <= queue[q].seq
         /\ queue[q].seq <= last_allocated /\ last_published < queue[q].seq
         /\ queue'[q].pc = "commit" /\ queue'[q].todo = queue[q].todo \ {seq}
         /\ queue'[q].txn = queue[q].txn /\ queue'[q].seq = queue[q].seq
         /\ \A r \in {1, 2} : r # q => queue'[r] = queue[r]
         /\ commit'[seq] = queue[q].seq
         /\ \A p \in 1 .. config.max_seq : p # seq => commit'[p] = commit[p]
         /\ \A p \in data : p # seq => commit'[p] = commit[p]
  BY ExchangeFacts, Zenon
<1>1. queue[q].pc \in InCommit
  BY <1>2, Zenon
<1>3. /\ queue'[q].pc = "commit" /\ queue'[q].todo = queue[q].todo \ {seq}
      /\ queue'[q].txn = queue[q].txn /\ queue'[q].seq = queue[q].seq
      /\ \A r \in {1, 2} : r # q => queue'[r] = queue[r]
  BY <1>2, Zenon
<1>4. UNCHANGED <<config, seqVars, txnVars>>
  BY Zenon DEF ExchangeCommitEntry
<1>5. /\ seq \in data /\ seq \in 1 .. config.max_seq /\ commit[seq] = 0
      /\ seq <= queue[q].seq /\ queue[q].seq <= last_allocated /\ queue[q].seq # 0
  BY <1>2 DEF Types
<1>6. /\ commit'[seq] = queue[q].seq
      /\ \A p \in 1 .. config.max_seq : p # seq => commit'[p] = commit[p]
  BY <1>2, Zenon
<1>8. \A p \in data : p # seq => commit'[p] = commit[p]
  BY <1>2, Zenon
<1>9. \A r \in {1, 2} : Ours(r)' \subseteq Ours(r) /\ Ours(r) \subseteq data
  BY <1>3, Zenon DEF Ours, CallInv, Callers
<1>10. Bounds'
  BY <1>4, Zenon DEF CallInv, Bounds
<1>11. Callers'
  BY <1>1, <1>3, <1>4, <1>9, Zenon DEF CallInv, Callers, Free, InCommit
<1>12. Prepares' /\ Groups'
  BY <1>1, <1>3, <1>4, Zenon DEF CallInv, Prepares, Groups, InCommit, InPrepare
<1>13. Commits'
  <2>1. ASSUME NEW r \in {1, 2}, queue'[r].pc \in InCommit
        PROVE  r = q
    BY <1>1, <1>3, <2>1 DEF CallInv, Callers, InCommit
  <2>2. \A p \in queue'[q].txn \ queue'[q].todo : commit'[p] = queue[q].seq
    BY <1>1, <1>3, <1>6, <1>8, <1>9 DEF CallInv, Commits, Ours
  <2>3. \A p \in Ours(q)' : p <= queue[q].seq
    BY <1>1, <1>9, Zenon DEF CallInv, Commits
  <2> QED
    BY <1>1, <1>3, <1>4, <2>1, <2>2, <2>3, Zenon DEF CallInv, Commits
<1>14. Uncommitted'
  <2>1. \A t \in txns : t \subseteq data /\ seq \notin t
    BY <1>2, Zenon DEF CallInv, Uncommitted, Disjoint, Ours
  <2>2. \A r \in {1, 2} : seq \notin queue'[r].todo
    BY <1>2, <1>3 DEF CallInv, Disjoint, Ours
  <2>3. \A p \in 1 .. config.max_seq : commit'[p] # 0 =>
            p \in data /\ p <= commit'[p] /\ commit'[p] <= last_allocated
    BY <1>5, <1>6, Zenon DEF CallInv, Uncommitted
  <2>4. queue'[1].pc \in InPrepare \cup {"thrown"} => seq \notin queue'[1].txn
    BY <1>1, <1>2, <1>3, Zenon DEF CallInv, Disjoint, Ours, InCommit, InPrepare
  <2>5. \A t \in txns' : t \subseteq data' /\ \A p \in t : commit'[p] = 0
    BY <1>4, <1>8, <2>1, Zenon DEF CallInv, Uncommitted
  <2>6. \A r \in {1, 2} : \A p \in queue'[r].todo : commit'[p] = 0
    BY <1>3, <1>8, <1>9, <2>2 DEF CallInv, Uncommitted, Ours
  <2>7. queue'[1].pc \in InPrepare \cup {"thrown"} => \A p \in queue'[1].txn : commit'[p] = 0
    BY <1>3, <1>8, <1>9, <2>4, Zenon DEF CallInv, Uncommitted, Ours, InPrepare
  <2> QED
    BY <1>4, <2>3, <2>5, <2>6, <2>7, Zenon DEF Uncommitted
<1>15. Disjoint'
  BY <1>4, <1>9 DEF CallInv, Disjoint
<1>16. Returned'
  <2>1. ASSUME NEW r \in returned, NEW p \in r[1]
        PROVE  p \in data /\ commit'[p] # 0 /\ commit'[p] = r[2]
    <3>1. p \in data /\ commit[p] # 0 /\ commit[p] = r[2]
      BY Zenon DEF CallInv, Returned
    <3>2. commit'[p] = commit[p]
      BY <1>5, <1>8, <3>1, Zenon
    <3> QED
      BY <3>1, <3>2, Zenon
  <2> QED
    BY <1>4, <2>1, Zenon DEF Returned
<1>17. Recent'
  <2>1. ASSUME config.two_write_queues
        PROVE  /\ \A p \in data : p > last_sequence => commit'[p] = 0
               /\ \A p \in Ours(2)' : p <= last_sequence
    <3>1. q = 2
      BY <1>1, <2>1, Zenon DEF CallInv, Callers
    <3>2. seq <= last_sequence /\ ~(seq > last_sequence)
      <4>1. seq <= last_sequence
        BY <2>1, <3>1, Zenon DEF CallInv, Recent, Ours
      <4> QED
        BY <1>5, <4>1 DEF Types
    <3> QED
      BY <1>8, <1>9, <2>1, <3>2, Zenon DEF CallInv, Recent
  <2> QED
    BY <1>4, <2>1, Zenon DEF Recent
<1> QED
  BY <1>10, <1>11, <1>12, <1>13, <1>14, <1>15, <1>16, <1>17, Zenon DEF CallInv

\* A commit is over when all its entries are written.
LEMMA FinishCommitCalls ==
    ASSUME Types, CallInv, NEW q \in {1, 2}, FinishCommit(q)
    PROVE  CallInv' /\ last_published <= last_published'
<1>1. /\ queue[q].pc = "commit" /\ queue[q].todo = {}
      /\ queue'[q].pc = (IF config.two_write_queues THEN "idle" ELSE "done")
      /\ ~config.two_write_queues => queue'[q].seq = queue[q].seq
      /\ queue'[q].todo = {} /\ queue'[q].txn = {}
      /\ \A r \in {1, 2} : r # q => queue'[r] = queue[r]
  BY Zenon DEF FinishCommit, Idle, Types
<1>2. /\ UNCHANGED <<config, last_allocated, last_sequence, txns, data, cacheVars>>
      /\ last_published' = IF config.two_write_queues THEN queue[q].seq ELSE last_published
      /\ returned' = returned \cup {<<t, queue[q].seq>> : t \in {queue[q].txn} \ {{}}}
  BY Zenon DEF FinishCommit
<1>3. /\ queue[q].seq \in Nat /\ last_sequence \in Nat /\ last_published \in Nat
      /\ last_published < queue[q].seq /\ queue[q].seq <= last_allocated
      /\ \A p \in queue[q].txn : p \in data /\ commit[p] = queue[q].seq
  BY <1>1, Zenon DEF Types, Calls, CallInv, Commits, Callers, Ours, InCommit
<1>3a. queue[q].seq # 0 /\ last_published <= last_published'
  BY <1>2, <1>3
<1>4. /\ \A r \in {1, 2} : queue'[r].pc \notin InCommit
      /\ config.two_write_queues <=> q = 2
  BY <1>1, Zenon DEF CallInv, Callers, InCommit
<1>5. Bounds'
  BY <1>2, <1>3, Zenon DEF CallInv, Bounds
<1>6. Callers'
  BY <1>1, <1>2, <1>4, Zenon DEF CallInv, Callers, Free, Ours, InCommit
<1>7. Prepares' /\ Groups'
  BY <1>1, <1>2, <1>4, Zenon DEF CallInv, Prepares, Groups, InPrepare
<1>8. Commits'
  BY <1>4, Zenon DEF Commits
<1>9. Uncommitted'
  BY <1>1, <1>2, Zenon DEF CallInv, Uncommitted, InPrepare
<1>10. Disjoint'
  BY <1>1, <1>2 DEF CallInv, Disjoint, Ours
<1>11. Returned'
  <2>1. ASSUME NEW r \in returned', NEW p \in r[1]
        PROVE  p \in data /\ commit[p] # 0 /\ commit[p] = r[2]
    <3>1. CASE r \in returned
      BY <3>1, Zenon DEF CallInv, Returned
    <3>2. CASE r = <<queue[q].txn, queue[q].seq>>
      <4>1. r[1] = queue[q].txn /\ r[2] = queue[q].seq
        BY <3>2, Zenon
      <4> QED
        BY <1>3, <1>3a, <4>1, Zenon
    <3> QED
      BY <1>2, <3>1, <3>2, Zenon
  <2> QED
    BY <1>2, <2>1, Zenon DEF Returned
<1>12. Recent'
  BY <1>1, <1>2, <1>4, Zenon DEF CallInv, Recent, Ours
<1> QED
  BY <1>3a, <1>5, <1>6, <1>7, <1>8, <1>9, <1>10, <1>11, <1>12, Zenon DEF CallInv

\* A call that only goes to its next step keeps the calls.
LEMMA GotoKeepsCalls ==
    ASSUME Types, NEW q \in {1, 2}, NEW pc \in InCommit, Goto(q, pc), queue[q].pc \in InCommit,
           UNCHANGED <<config, seqVars, txns, returned, data, cacheVars>>
    PROVE  KeepsCalls
  BY GotoFacts DEF KeepsCalls, Types

\* The steps that leave the calls alone.
LEMMA WhatKeepsCalls ==
    ASSUME Types,
           \/ \E q \in {1, 2} :
                  \/ MovePrepared(q) \/ GetSnapshotListFromDB(q) \/ UpdateSnapshots(q)
                  \/ StoreMaxEvicted(q) \/ CheckAgainstSnapshots(q)
           \/ \E r \in returned : RemovePrepared(r[1], r[2])
           \/ Quiet
    PROVE  KeepsCalls
<1>1. CASE \E q \in {1, 2} : MovePrepared(q)
  BY <1>1, GotoKeepsCalls, Zenon DEF MovePrepared, Evicts, Committing, InCommit
<1>1a. CASE \E q \in {1, 2} : GetSnapshotListFromDB(q)
  BY <1>1a, GotoKeepsCalls, Zenon DEF GetSnapshotListFromDB, Committing, InCommit
<1>2. CASE \E q \in {1, 2} : UpdateSnapshots(q)
  BY <1>2, GotoKeepsCalls, Zenon DEF UpdateSnapshots, Committing, InCommit
<1>3. CASE \E q \in {1, 2} : StoreMaxEvicted(q)
  BY <1>3, GotoKeepsCalls, Zenon DEF StoreMaxEvicted, Committing, InCommit
<1>4. CASE \E q \in {1, 2} : CheckAgainstSnapshots(q)
  BY <1>4, GotoKeepsCalls, Zenon DEF CheckAgainstSnapshots, Evicts, Committing, InCommit
<1>5. CASE \E r \in returned : RemovePrepared(r[1], r[2])
  BY <1>5, Zenon DEF RemovePrepared, KeepsCalls
<1>6. CASE Quiet
  BY <1>6, Zenon DEF Quiet, KeepsCalls
<1> QED
  BY <1>1, <1>1a, <1>2, <1>3, <1>4, <1>5, <1>6, Zenon

\* Taking and releasing snapshots only takes entries out of the map.
LEMMA HandleSteps ==
    ASSUME Types, NEW h \in Handles, HandleStep(h)
    PROVE  /\ Quiet /\ UNCHANGED <<walked, snapshots, reader>>
           /\ old_commit_map' \subseteq old_commit_map
  BY ReleasingFacts, Zenon DEF Types, HandleStep, GetMinUncommitted, GetSnapshotImpl,
     ReleaseSnapshot, Quiet

\* Every step keeps the rules of the calls.
LEMMA StepCalls ==
    ASSUME Types, CallInv, Next
    PROVE  CallInv'
<1>1. config \in Configs
  BY Zenon DEF Types
<1>2. KeepsCalls => CallInv'
  BY KeepingCalls, Zenon
<1>3. ReaderStep => Quiet
  BY Zenon DEF ReaderStep
<1> QED
  BY <1>1, <1>2, <1>3, NextCases, PrepareCalls, AddPreparedCalls, FinishPrepareCalls,
     PublishGroupCalls, StartCommitCalls, ExchangeCalls, FinishCommitCalls, WhatKeepsCalls,
     HandleSteps, Zenon

-----------------------------------------------------------------------------
(* The heap of prepared transactions.                                      *)

\* the prepared transactions AddPrepared has pushed and nobody has removed
Live == LiveIn(prepared_txns)

\* committed, for every snapshot taken from now on
Published(p) == p \in data /\ commit[p] # 0 /\ commit[p] <= last_published

\* an entry that is not erased belongs to a transaction that is prepared, in a call, or
\* about to be removed
Owned ==
    \A p \in Live : \/ \E t \in txns : p \in t
                    \/ \E r \in returned : p \in r[1]
                    \/ p \in queue[1].txn \/ p \in queue[2].txn

\* what is neither live in the heap nor delayed has committed visibly, or belongs to the
\* group in the main queue: to be visited there, or committed
Known ==
    \A p \in data : \/ p \in Live \/ p \in delayed_once \/ Published(p)
                    \/ p > last_sequence /\ (p \in queue[1].todo \/ commit[p] # 0)

\* the rules of the heap
HeapInv ==
    /\ SettledHeap(prepared_txns)
    /\ \A p \in prepared_txns.erased_heap : Published(p)
    /\ Owned /\ Known

\* The rules of the heap hold when the DB is opened.
LEMMA InitHeap == Init => HeapInv
<1> SUFFICES ASSUME Init PROVE HeapInv
  BY Zenon
<1>1. config.last_seq \in Nat /\ config.recovered \subseteq 1 .. config.last_seq
      /\ config.max_seq \in Nat /\ config.last_seq <= config.max_seq
  BY ConfigsOK, Zenon DEF Init, IsConfig
<1>2. prepared_txns.heap = {} /\ prepared_txns.erased_heap = {} /\ Live = {}
  BY Zenon DEF Init, Live, LiveIn
<1>3. SettledHeap(prepared_txns) /\ Owned
  BY <1>2, Zenon DEF SettledHeap, Owned
<1>5. ASSUME NEW p \in data
      PROVE  p \in delayed_once \/ Published(p)
  <2>1. /\ p \in 1 .. config.last_seq /\ p \in 1 .. config.max_seq
        /\ p \notin delayed_once => commit[p] = p
    BY <1>1 DEF Init
  <2> QED
    BY <1>1, <2>1 DEF Published, Init
<1> QED
  BY <1>2, <1>3, <1>5, Zenon DEF HeapInv, Known

\* Publication is for good.
LEMMA StaysPublished ==
    ASSUME Types, Types', CallInv, data \subseteq data', last_published <= last_published',
           \A p \in data : commit[p] # 0 => commit'[p] = commit[p]
    PROVE  \A p : Published(p) => Published(p)'
<1> SUFFICES ASSUME NEW p, Published(p) PROVE Published(p)'
  BY Zenon
<1>1. p \in data /\ commit[p] # 0 /\ commit[p] <= last_published /\ commit'[p] = commit[p]
  BY Zenon DEF Published
<1>2. commit[p] \in Nat /\ last_published \in Nat /\ last_published' \in Nat
  BY <1>1, DataNumbers, Zenon DEF CallInv, Types
<1> QED
  BY <1>1, <1>2 DEF Published

\* Steps that leave prepared_txns_ and delayed_prepared_ alone.
LEMMA KeepingHeap ==
    ASSUME Types, CallInv, HeapInv, KeepsCalls, UNCHANGED <<preparedVars, returned>>
    PROVE  HeapInv'
<1>1. /\ \A p : Published(p) => Published(p)'
      /\ Live' = Live
  BY Zenon DEF Published, Live, KeepsCalls
<1>2. SettledHeap(prepared_txns)' /\ \A p \in prepared_txns'.erased_heap : Published(p)'
  BY <1>1, Zenon DEF HeapInv, SettledHeap, LiveIn
<1>3. Owned'
  BY <1>1, Zenon DEF HeapInv, Owned, KeepsCalls
<1>4. Known'
  BY <1>1, Zenon DEF HeapInv, Known, KeepsCalls
<1> QED
  BY <1>2, <1>3, <1>4, Zenon DEF HeapInv

\* A prepare that has only its numbers has pushed nothing yet.
LEMMA PrepareHeap ==
    ASSUME Types, CallInv, HeapInv, NEW n \in Nat \ {0}, PrepareInternal(n)
    PROVE  HeapInv'
<1>1. /\ queue'[1].todo = Taken(n) /\ queue'[1].txn = Taken(n) /\ queue'[2] = queue[2]
      /\ queue[1].txn = {} /\ queue[1].todo = {}
      /\ UNCHANGED <<last_sequence, last_published, txns, returned, commit, preparedVars>>
      /\ data' = data \cup Taken(n)
  BY DEF PrepareInternal, Types, CallInv, Callers, Ours
<1>2. \A p \in Taken(n) : p > last_sequence
  BY DEF Taken, Types, CallInv, Bounds
<1>3. /\ \A p : Published(p) => Published(p)'
      /\ Live' = Live
  BY <1>1, Zenon DEF Published, Live
<1>4. SettledHeap(prepared_txns)' /\ \A p \in prepared_txns'.erased_heap : Published(p)'
  BY <1>1, <1>3, Zenon DEF HeapInv, SettledHeap, LiveIn
<1>5. Owned'
  BY <1>1, <1>3, Zenon DEF HeapInv, Owned
<1>6. Known'
  BY <1>1, <1>2, <1>3, Zenon DEF HeapInv, Known
<1> QED
  BY <1>4, <1>5, <1>6, Zenon DEF HeapInv

\* AddPrepared pushes the smallest number of the batch that is left.
LEMMA AddPreparedHeap ==
    ASSUME Types, CallInv, HeapInv, AddPrepared
    PROVE  HeapInv'
<1>1. PICK seq : seq = Min(queue[1].todo)
  BY Zenon
<1>2. seq \in queue[1].todo /\ seq \in Nat /\ seq \in queue[1].txn /\ commit[seq] = 0
  BY <1>1, EvictedFacts, Zenon DEF AddPrepared, CallInv, Prepares, InPrepare, Uncommitted
<1>3. /\ UNCHANGED <<data, commit, last_sequence, last_published, txns, returned,
                     delayed_once>>
      /\ \A p : Published(p) => Published(p)'
      /\ queue'[1].txn = queue[1].txn /\ queue'[2] = queue[2]
      /\ queue'[1].todo = queue[1].todo \ {seq}
      /\ prepared_txns' = Push(prepared_txns, seq)
  BY <1>1, SMTT(30), SMTT(45) DEF AddPrepared, Published, Types, Calls
<1>4. /\ prepared_txns'.heap = prepared_txns.heap \cup {seq}
      /\ prepared_txns'.erased_heap = prepared_txns.erased_heap
  BY <1>3, Zenon DEF Push, Types, Heaps
<1>5. seq \notin prepared_txns.erased_heap
  BY <1>2, Zenon DEF HeapInv, Published
<1>6. Live' = Live \cup {seq}
  BY <1>4, <1>5, Zenon DEF Live, LiveIn
<1>7. SettledHeap(prepared_txns)'
  <2>1. \A p \in prepared_txns.heap \cup prepared_txns.erased_heap : \E l \in Live' : l <= p
    BY <1>6, Zenon DEF HeapInv, SettledHeap, Live
  <2>2. seq \in Live' /\ seq <= seq
    BY <1>2, <1>6
  <2> QED
    BY <1>4, <2>1, <2>2, Zenon DEF SettledHeap, Live
<1>8. \A p \in prepared_txns'.erased_heap : Published(p)'
  BY <1>3, <1>4, Zenon DEF HeapInv
<1>9. Owned'
  BY <1>2, <1>3, <1>6, Zenon DEF HeapInv, Owned
<1>10. Known'
  BY <1>3, <1>6, Zenon DEF HeapInv, Known
<1> QED
  BY <1>7, <1>8, <1>9, <1>10, Zenon DEF HeapInv

\* Loading the maximum and the end of a prepare leave the heap alone.
LEMMA FinishPrepareHeap ==
    ASSUME Types, CallInv, HeapInv, CheckPrepared \/ FinishPrepare
    PROVE  HeapInv'
<1>1. /\ UNCHANGED <<data, commit, returned, preparedVars, last_sequence, last_published>>
      /\ queue'[2] = queue[2] /\ queue'[1].todo = queue[1].todo
      /\ \/ txns' = txns /\ queue'[1].txn = queue[1].txn
         \/ txns' = txns \cup {queue[1].txn}
  <2>1. CASE CheckPrepared
    BY <2>1 DEF CheckPrepared, Types, Calls
  <2>2. CASE FinishPrepare
    BY <2>2 DEF FinishPrepare, Types, Idle
  <2> QED
    BY <2>1, <2>2, Zenon
<1>2. /\ \A p : Published(p) => Published(p)'
      /\ Live' = Live
  BY <1>1, Zenon DEF Published, Live
<1>3. SettledHeap(prepared_txns)' /\ \A p \in prepared_txns'.erased_heap : Published(p)'
  BY <1>1, <1>2, Zenon DEF HeapInv, SettledHeap, LiveIn
<1>4. Owned'
  BY <1>1, <1>2, Zenon DEF HeapInv, Owned
<1>5. Known'
  BY <1>1, <1>2, Zenon DEF HeapInv, Known
<1> QED
  BY <1>3, <1>4, <1>5, Zenon DEF HeapInv

\* A group is published after all its numbers were pushed or committed.
LEMMA PublishGroupHeap ==
    ASSUME Types, Types', CallInv, HeapInv, PublishGroup
    PROVE  HeapInv'
<1>1. /\ queue[1].pc = "done" /\ queue[1].todo = {} /\ queue[1].txn = {}
      /\ queue'[2] = queue[2]
      /\ UNCHANGED <<config, data, commit, txns, returned, preparedVars>>
      /\ last_sequence' = queue[1].seq
      /\ last_published' = IF config.two_write_queues THEN last_published ELSE queue[1].seq
  BY DEF PublishGroup, Types, CallInv, Callers, Free, Ours
<1>2. last_published <= last_published'
  BY PublishGroupCalls, Zenon
<1>3. /\ \A p : Published(p) => Published(p)'
      /\ Live' = Live
  BY <1>1, <1>2, StaysPublished, Zenon DEF Live
<1>4. SettledHeap(prepared_txns)' /\ \A p \in prepared_txns'.erased_heap : Published(p)'
  BY <1>1, <1>3, Zenon DEF HeapInv, SettledHeap, LiveIn
<1>5. Owned'
  BY <1>1, <1>3, Zenon DEF HeapInv, Owned
<1>6. ASSUME NEW p \in data, p > last_sequence, commit[p] # 0
      PROVE  Published(p)'
  <2>1. ~config.two_write_queues
    BY <1>6, Zenon DEF CallInv, Recent
  <2>2. last_published' = last_allocated
    BY <1>1, <2>1, Zenon DEF CallInv, Groups
  <2>3. commit[p] <= last_allocated
    BY <1>6, DataNumbers, Zenon DEF CallInv, Uncommitted
  <2> QED
    BY <1>1, <1>6, <2>2, <2>3, Zenon DEF Published
<1>7. Known'
  BY <1>1, <1>3, <1>6, Zenon DEF HeapInv, Known
<1> QED
  BY <1>4, <1>5, <1>7, Zenon DEF HeapInv

\* A commit that starts leaves its transaction in the heap.
LEMMA StartCommitHeap ==
    ASSUME Types, CallInv, HeapInv, NEW txn, NEW n, Starts(txn, n)
    PROVE  HeapInv'
<1>1. PICK q \in {1, 2} : q = CommitQueue
  BY Zenon DEF CommitQueue
<1>2. /\ queue'[q].txn = txn /\ queue[q].txn = {} /\ queue[q].todo = {}
      /\ \A r \in {1, 2} : r # q => queue'[r] = queue[r]
      /\ UNCHANGED <<last_sequence, last_published, returned, commit, preparedVars>>
      /\ data' = data \cup Taken(n) /\ txns' = txns \ {txn}
      /\ queue'[q].todo = txn \cup Taken(n)
  BY <1>1, Zenon DEF Starts, StartCommit, Types, CallInv, Callers, Ours
<1>3. \A p \in Taken(n) : p > last_sequence
  BY DEF Taken, Starts, Types, CallInv, Bounds
<1>3a. q = 1 \/ Taken(n) = {}
  BY <1>1 DEF CommitQueue, Starts, Taken, Types
<1>4. /\ \A p : Published(p) => Published(p)'
      /\ Live' = Live
  BY <1>2, Zenon DEF Published, Live
<1>5. SettledHeap(prepared_txns)' /\ \A p \in prepared_txns'.erased_heap : Published(p)'
  BY <1>2, <1>4, Zenon DEF HeapInv, SettledHeap, LiveIn
<1>6. Owned'
  BY <1>2, <1>4, Zenon DEF HeapInv, Owned
<1>7. queue[1].todo \subseteq queue'[1].todo /\ Taken(n) \subseteq queue'[1].todo
  BY <1>2, <1>3a
<1>8. Known'
  BY <1>2, <1>3, <1>4, <1>7, Zenon DEF HeapInv, Known
<1> QED
  BY <1>5, <1>6, <1>8, Zenon DEF HeapInv

\* What leaves the heap before its commit is in delayed_prepared_.
LEMMA MovePreparedHeap ==
    ASSUME Types, CallInv, HeapInv, NEW q \in {1, 2}, MovePrepared(q)
    PROVE  HeapInv'
<1>1. KeepsCalls /\ UNCHANGED <<txns, returned, data, commit, last_sequence, last_published>>
  BY WhatKeepsCalls, Zenon DEF MovePrepared
<1>2. NewMax(q) \in Nat /\ prepared_txns \in Heaps
  BY EvictedFacts, Zenon DEF MovePrepared, Evicts, Committing, Types
<1>3. /\ prepared_txns'.erased_heap \subseteq prepared_txns.erased_heap
      /\ Live' = Live \ UpTo(prepared_txns, NewMax(q))
      /\ SettledHeap(prepared_txns')
      /\ delayed_once' = delayed_once \cup UpTo(prepared_txns, NewMax(q))
  BY <1>2, PopUpToFacts, Zenon DEF MovePrepared, Live
<1>4. \A p : Published(p) => Published(p)'
  BY <1>1, Zenon DEF Published
<1>5. SettledHeap(prepared_txns)' /\ \A p \in prepared_txns'.erased_heap : Published(p)'
  BY <1>3, <1>4, Zenon DEF HeapInv, SettledHeap, LiveIn
<1>6. Owned'
  BY <1>1, <1>3, Zenon DEF HeapInv, Owned, KeepsCalls
<1>7. Known'
  BY <1>1, <1>3, <1>4, Zenon DEF HeapInv, Known, KeepsCalls
<1> QED
  BY <1>5, <1>6, <1>7, Zenon DEF HeapInv

\* Writing a commit entry leaves the heap alone.
LEMMA ExchangeHeap ==
    ASSUME Types, Types', CallInv, HeapInv, NEW q \in {1, 2}, ExchangeCommitEntry(q)
    PROVE  HeapInv'
<1>1. /\ \A r \in {1, 2} : queue'[r].txn = queue[r].txn
      /\ \A p \in data : commit[p] # 0 => commit'[p] = commit[p]
  BY ExchangeFacts, Zenon
<1>1a. \A p \in queue[1].todo : p \in queue'[1].todo \/ commit'[p] # 0
  <2>1. PICK seq \in queue[q].todo :
            /\ queue'[q].todo = queue[q].todo \ {seq} /\ commit'[seq] = queue[q].seq
            /\ \A r \in {1, 2} : r # q => queue'[r] = queue[r]
            /\ last_published < queue[q].seq
    BY ExchangeFacts, Zenon
  <2>2. commit'[seq] # 0
    BY <2>1 DEF Types
  <2> QED
    BY <2>1, <2>2, Zenon
<1>2. UNCHANGED <<seqVars, txnVars, preparedVars>>
  BY Zenon DEF ExchangeCommitEntry
<1>3. last_published <= last_published'
  BY <1>2 DEF Types
<1>4. /\ \A p : Published(p) => Published(p)'
      /\ Live' = Live
  BY <1>1, <1>2, <1>3, StaysPublished, Zenon DEF Live
<1>5. SettledHeap(prepared_txns)' /\ \A p \in prepared_txns'.erased_heap : Published(p)'
  BY <1>2, <1>4, Zenon DEF HeapInv, SettledHeap, LiveIn
<1>6. Owned'
  BY <1>1, <1>2, <1>4, Zenon DEF HeapInv, Owned
<1>7. Known'
  BY <1>1, <1>1a, <1>2, <1>4, Zenon DEF HeapInv, Known
<1> QED
  BY <1>5, <1>6, <1>7, Zenon DEF HeapInv

\* A commit that is over leaves its transaction in the heap.
LEMMA FinishCommitHeap ==
    ASSUME Types, Types', CallInv, HeapInv, NEW q \in {1, 2}, FinishCommit(q)
    PROVE  HeapInv'
<1>1. /\ queue[q].todo = {} /\ queue'[q].todo = {} /\ queue'[q].txn = {}
      /\ \A r \in {1, 2} : r # q => queue'[r] = queue[r]
      /\ UNCHANGED <<data, commit, txns, preparedVars, last_sequence>>
      /\ returned' = returned \cup {<<t, queue[q].seq>> : t \in {queue[q].txn} \ {{}}}
  BY Zenon DEF FinishCommit, Idle, Types
<1>2. last_published <= last_published'
  BY FinishCommitCalls, Zenon
<1>3. /\ \A p : Published(p) => Published(p)'
      /\ Live' = Live
  BY <1>1, <1>2, StaysPublished, Zenon DEF Live
<1>4. SettledHeap(prepared_txns)' /\ \A p \in prepared_txns'.erased_heap : Published(p)'
  BY <1>1, <1>3, Zenon DEF HeapInv, SettledHeap, LiveIn
<1>5. Owned'
  <2>1. ASSUME NEW p \in queue[q].txn PROVE \E r \in returned' : p \in r[1]
    <3>1. <<queue[q].txn, queue[q].seq>> \in returned'
      BY <1>1, <2>1, Zenon
    <3>2. <<queue[q].txn, queue[q].seq>>[1] = queue[q].txn
      BY Zenon
    <3> QED
      BY <3>1, <3>2, Zenon
  <2>2. returned \subseteq returned'
    BY <1>1, Zenon
  <2> QED
    BY <1>1, <1>3, <2>1, <2>2, Zenon DEF HeapInv, Owned
<1>6. queue'[1].todo = queue[1].todo
  BY <1>1
<1>7. Known'
  BY <1>1, <1>3, <1>6, Zenon DEF HeapInv, Known
<1> QED
  BY <1>4, <1>5, <1>7, Zenon DEF HeapInv

\* RemovePrepared erases numbers whose commit is published.
LEMMA RemoveHeap ==
    ASSUME Types, CallInv, HeapInv, NEW r \in returned, RemovePrepared(r[1], r[2])
    PROVE  HeapInv'
<1>1. /\ UNCHANGED <<data, commit, last_sequence, last_published, txns, delayed_once, queue>>
      /\ returned' = returned \ {<<r[1], r[2]>>} /\ r[2] <= last_published
  BY Zenon DEF RemovePrepared
<1>2. r[1] \in SUBSET Nat /\ r = <<r[1], r[2]>>
  <2>1. r \in (SUBSET Nat) \X Nat
    BY Zenon DEF Types
  <2> QED
    BY <2>1
<1>2a. \A p \in r[1] : Published(p)
  BY <1>1, Zenon DEF CallInv, Returned, Published
<1>3. /\ prepared_txns'.erased_heap \subseteq prepared_txns.erased_heap \cup r[1]
      /\ Live' = Live \ r[1]
      /\ SettledHeap(prepared_txns')
  BY <1>2, EraseFacts, Zenon DEF RemovePrepared, Types, Live
<1>4. \A p : Published(p) => Published(p)'
  BY <1>1, Zenon DEF Published
<1>5. SettledHeap(prepared_txns)' /\ \A p \in prepared_txns'.erased_heap : Published(p)'
  BY <1>2a, <1>3, <1>4, Zenon DEF HeapInv, SettledHeap, LiveIn
<1>6. \A u \in returned : u \in returned' \/ u[1] = r[1]
  BY <1>1, <1>2, Zenon
<1>7. Owned'
  BY <1>1, <1>3, <1>6, Zenon DEF HeapInv, Owned
<1>8. Known'
  BY <1>1, <1>2a, <1>3, <1>4, Zenon DEF HeapInv, Known
<1> QED
  BY <1>5, <1>7, <1>8, Zenon DEF HeapInv

\* Every step keeps the rules of the heap.
LEMMA StepHeap ==
    ASSUME Types, Types', CallInv, HeapInv, Next
    PROVE  HeapInv'
<1>1. config \in Configs
  BY Zenon DEF Types
<1>2. ASSUME Quiet PROVE HeapInv'
  BY <1>2, WhatKeepsCalls, KeepingHeap, Zenon DEF Quiet
<1>3. ASSUME NEW q \in {1, 2},
             \/ GetSnapshotListFromDB(q) \/ UpdateSnapshots(q)
             \/ StoreMaxEvicted(q) \/ CheckAgainstSnapshots(q)
      PROVE  HeapInv'
  <2>1. UNCHANGED <<preparedVars, returned>>
    BY <1>3, Zenon DEF GetSnapshotListFromDB, UpdateSnapshots, StoreMaxEvicted,
       CheckAgainstSnapshots
  <2> QED
    BY <1>3, <2>1, WhatKeepsCalls, KeepingHeap, Zenon
<1>4. ReaderStep => Quiet
  BY Zenon DEF ReaderStep
<1> QED
  BY <1>1, <1>2, <1>3, <1>4, NextCases, PrepareHeap, AddPreparedHeap, FinishPrepareHeap,
     PublishGroupHeap, StartCommitHeap, MovePreparedHeap, ExchangeHeap, FinishCommitHeap,
     RemoveHeap, HandleSteps, Zenon

\* The rules of the heap empty it when nobody is left.
LEMMA HeapInvDrains == CallInv /\ HeapInv => HeapDrains
<1> SUFFICES ASSUME CallInv, HeapInv, txns = {}, returned = {},
                    \A q \in {1, 2} : queue[q].pc = "idle"
             PROVE  prepared_txns.heap = {} /\ prepared_txns.erased_heap = {}
  BY Zenon DEF HeapDrains
<1>1. Live = {}
  BY Zenon DEF CallInv, Callers, Free, Ours, HeapInv, Owned
<1> QED
  BY <1>1, Zenon DEF HeapInv, SettledHeap, Live

-----------------------------------------------------------------------------
(* The maximum evicted sequence number.                                    *)

\* what AdvanceMaxEvictedSeq must not pass
InHeapOrPreparing == prepared_txns.heap \cup Preparing

\* the steps of a call that is advancing the maximum
Advancing == {"fetch", "walk", "max"}

\* the entry a call has chosen to evict, and where the maximum is
Evicting ==
    \A q \in {1, 2} :
        /\ queue[q].pc \in Advancing \cup {"exchange"} =>
               queue[q].todo # {} /\ Evicted(q) # NoEntry
        /\ queue[q].pc = "exchange" => Evicted(q)[2] <= max_evicted_seq
        /\ queue[q].pc \in Advancing => max_evicted_seq < Evicted(q)[2]

\* the maximum is behind everything not published and everything prepared, except what
\* it has overtaken
AboveMax ==
    ~ahead => /\ max_evicted_seq <= last_published
              /\ \A p \in InHeapOrPreparing : p > max_evicted_seq \/ p \in overtaken

\* already while AdvanceMaxEvictedSeq has not stored the new maximum
AboveNewMax ==
    ~ahead => \A q \in {1, 2} : queue[q].pc \in Advancing =>
        /\ NewMax(q) <= last_published
        /\ \A p \in InHeapOrPreparing : p > NewMax(q) \/ p \in overtaken

\* with one queue nothing is prepared beside an eviction
Alone ==
    ~config.two_write_queues =>
        overtaken = {} /\ (~ahead => queue[1].pc # "thrown")

\* the rules of the maximum
MaxInv == Evicting /\ AboveMax /\ AboveNewMax /\ Alone

\* The rules of the maximum hold when the DB is opened.
LEMMA InitMax == Init => MaxInv
<1> SUFFICES ASSUME Init PROVE MaxInv
  BY Zenon
<1>1. \A q \in {1, 2} : queue[q].pc = "idle"
  BY Zenon DEF Init, Idle
<1>2. InHeapOrPreparing = {}
  BY <1>1, Zenon DEF InHeapOrPreparing, Preparing, Init
<1>3. max_evicted_seq <= last_published
  BY ConfigsOK DEF Init, IsConfig
<1>4. overtaken = {}
  BY Zenon DEF Init
<1> QED
  BY <1>1, <1>2, <1>3, <1>4, Zenon DEF MaxInv, Evicting, AboveMax, AboveNewMax, Alone, Advancing

\* The entry that is evicted stays while the cache and the numbers do.
LEMMA EvictedSame ==
    ASSUME NEW q \in {1, 2}, UNCHANGED <<config, commit_cache>>,
           queue'[q].todo = queue[q].todo
    PROVE  Evicted(q)' = Evicted(q) /\ NewMax(q)' = NewMax(q)
  BY Zenon DEF Evicted, Index, NewMax, INC_STEP_FOR_MAX_EVICTED

\* Steps that do not evict, and prepare nothing new.
LEMMA KeepingMax ==
    ASSUME Types, Types', MaxInv,
           UNCHANGED <<config, commit_cache, max_evicted_seq, ahead, overtaken>>,
           last_published <= last_published',
           InHeapOrPreparing' \subseteq InHeapOrPreparing,
           queue'[1].pc = "thrown" => queue[1].pc = "thrown",
           \A q \in {1, 2} :
               /\ queue'[q].pc \in Advancing \cup {"exchange"} =>
                      queue'[q].todo = queue[q].todo
               /\ queue'[q].pc = "exchange" => queue[q].pc = "exchange"
               /\ queue'[q].pc \in Advancing => queue[q].pc \in Advancing
    PROVE  MaxInv'
<1>1. \A q \in {1, 2} : queue'[q].pc \in Advancing \cup {"exchange"} =>
          Evicted(q)' = Evicted(q) /\ NewMax(q)' = NewMax(q)
  BY EvictedSame, Zenon
<1>2. Evicting'
  BY <1>1, Zenon DEF MaxInv, Evicting, NoEntry
<1>3. AboveMax'
  <2>1. max_evicted_seq <= last_published => max_evicted_seq <= last_published'
    BY DEF Types
  <2> QED
    BY <2>1, Zenon DEF MaxInv, AboveMax
<1>4. ASSUME ~ahead, NEW q \in {1, 2}, queue'[q].pc \in Advancing
      PROVE  /\ NewMax(q)' <= last_published'
             /\ \A p \in InHeapOrPreparing' : p > NewMax(q)' \/ p \in overtaken
  <2>1. /\ NewMax(q)' = NewMax(q) /\ queue[q].todo # {}
        /\ NewMax(q) <= last_published
        /\ \A p \in InHeapOrPreparing : p > NewMax(q) \/ p \in overtaken
    BY <1>1, <1>4, Zenon DEF MaxInv, AboveNewMax, Evicting
  <2>2. NewMax(q) \in Nat
    BY <2>1, EvictedFacts, Zenon
  <2>3. NewMax(q)' <= last_published'
    BY <2>1, <2>2 DEF Types
  <2> QED
    BY <2>1, <2>3, Zenon
<1>5. AboveNewMax'
  BY <1>4, Zenon DEF AboveNewMax
<1>6. Alone'
  BY Zenon DEF MaxInv, Alone
<1> QED
  BY <1>2, <1>3, <1>5, <1>6, Zenon DEF MaxInv

\* A prepare takes numbers above everything that is published.
LEMMA PrepareMax ==
    ASSUME Types, Types', CallInv, MaxInv, NEW n \in Nat \ {0}, PrepareInternal(n)
    PROVE  MaxInv'
<1>1. /\ queue'[1].pc = "prepare" /\ queue'[1].txn = Taken(n) /\ queue'[2] = queue[2]
      /\ Free(1)
      /\ UNCHANGED <<config, last_published, commit_cache, prepared_txns, max_evicted_seq,
                     ahead, overtaken>>
  BY DEF PrepareInternal, Types
<1>2. InHeapOrPreparing' = InHeapOrPreparing \cup Taken(n)
  BY <1>1, Zenon DEF InHeapOrPreparing, Preparing, Free
<1>3. \A p \in Taken(n) : p \in Nat /\ p > last_published
  BY DEF Taken, Types, CallInv, Bounds
<1>4. /\ queue'[2].pc \in Advancing \cup {"exchange"} =>
             Evicted(2)' = Evicted(2) /\ NewMax(2)' = NewMax(2)
  BY <1>1, EvictedSame, Zenon
<1>5. Evicting'
  BY <1>1, <1>4, Zenon DEF MaxInv, Evicting, NoEntry, Advancing
<1>6. AboveMax'
  <2>1. max_evicted_seq <= last_published => \A p \in Taken(n) : p > max_evicted_seq
    BY <1>3 DEF Types
  <2> QED
    BY <1>1, <1>2, <2>1, Zenon DEF MaxInv, AboveMax
<1>7. AboveNewMax'
  <2>1. ASSUME ~ahead, queue[2].pc \in Advancing
        PROVE  /\ NewMax(2) <= last_published
               /\ \A p \in InHeapOrPreparing' : p > NewMax(2) \/ p \in overtaken
    <3>1. /\ NewMax(2) <= last_published
          /\ \A p \in InHeapOrPreparing : p > NewMax(2) \/ p \in overtaken
      BY <2>1, Zenon DEF MaxInv, AboveNewMax
    <3>2. NewMax(2) \in Nat
      BY <2>1, EvictedFacts, Zenon DEF MaxInv, Evicting
    <3>3. \A p \in Taken(n) : p > NewMax(2)
      BY <1>3, <3>1, <3>2 DEF Types
    <3> QED
      BY <1>2, <3>1, <3>3, Zenon
  <2> QED
    BY <1>1, <1>4, <2>1, Zenon DEF AboveNewMax, Advancing
<1>8. Alone'
  BY <1>1, Zenon DEF MaxInv, Alone
<1> QED
  BY <1>5, <1>6, <1>7, <1>8, Zenon DEF MaxInv

\* With one queue AddPrepared finds the maximum below its number.
LEMMA CheckPreparedMax ==
    ASSUME Types, Types', CallInv, MaxInv, CheckPrepared
    PROVE  MaxInv'
<1>1. PICK seq : seq = Min(queue[1].todo)
  BY Zenon
<1>2. /\ queue[1].pc = "prepare" /\ seq \in Nat /\ seq \in Preparing
  BY <1>1, EvictedFacts, Zenon DEF CheckPrepared, CallInv, Prepares, InPrepare, Preparing
<1>3. UNCHANGED <<config, commit_cache, max_evicted_seq, ahead, overtaken, last_published,
                  prepared_txns>>
  BY Zenon DEF CheckPrepared
<1>4. /\ queue'[2] = queue[2] /\ queue'[1].txn = queue[1].txn
      /\ queue'[1].pc = (IF seq <= max_evicted_seq THEN "thrown" ELSE "push")
  BY <1>1 DEF CheckPrepared, Types, Calls
<1>5. InHeapOrPreparing' \subseteq InHeapOrPreparing /\ last_published <= last_published'
  BY <1>2, <1>3, <1>4 DEF InHeapOrPreparing, Preparing, Types
<1>6. ASSUME ~config.two_write_queues, ~ahead
      PROVE  queue'[1].pc # "thrown"
  <2>1. seq > max_evicted_seq
    BY <1>2, <1>6, Zenon DEF MaxInv, AboveMax, Alone, InHeapOrPreparing
  <2> QED
    BY <1>2, <1>4, <2>1 DEF Types
<1>7. Alone'
  BY <1>3, <1>6, Zenon DEF MaxInv, Alone
<1>8. queue'[2].pc \in Advancing \cup {"exchange"} =>
          Evicted(2)' = Evicted(2) /\ NewMax(2)' = NewMax(2)
  BY <1>3, <1>4, EvictedSame, Zenon
<1>9. queue'[1].pc \notin Advancing \cup {"exchange"}
  BY <1>4, Zenon DEF Advancing
<1>10. Evicting'
  BY <1>3, <1>4, <1>8, <1>9, Zenon DEF MaxInv, Evicting, NoEntry
<1>11. AboveMax' /\ AboveNewMax'
  BY <1>3, <1>4, <1>5, <1>8, <1>9, Zenon DEF MaxInv, AboveMax, AboveNewMax
<1> QED
  BY <1>7, <1>10, <1>11, Zenon DEF MaxInv

\* AddPrepared moves a number from the call to the heap.
LEMMA AddPreparedMax ==
    ASSUME Types, Types', CallInv, MaxInv, AddPrepared
    PROVE  MaxInv'
<1>1. PICK seq : seq = Min(queue[1].todo)
  BY Zenon
<1>2. /\ queue[1].pc = "push" /\ seq \in Preparing
  BY <1>1, EvictedFacts, Zenon DEF AddPrepared, CallInv, Prepares, InPrepare, Preparing
<1>3. UNCHANGED <<config, commit_cache, max_evicted_seq, ahead, overtaken, last_published>>
  BY Zenon DEF AddPrepared
<1>4. /\ queue'[2] = queue[2] /\ queue'[1].txn = queue[1].txn /\ queue'[1].pc = "prepare"
  BY DEF AddPrepared, Types, Calls
<1>5. InHeapOrPreparing' \subseteq InHeapOrPreparing
  <2>1. prepared_txns'.heap \subseteq prepared_txns.heap \cup {seq}
    BY <1>1, Zenon DEF AddPrepared, Push, Types, Heaps
  <2> QED
    BY <1>2, <1>4, <2>1, Zenon DEF InHeapOrPreparing, Preparing
<1>6. last_published <= last_published'
  BY <1>3 DEF Types
<1>7. queue'[1].pc \notin Advancing \cup {"exchange", "thrown"}
  BY <1>4, Zenon DEF Advancing
<1> QED
  BY <1>3, <1>4, <1>5, <1>6, <1>7, KeepingMax, Zenon

\* AdvanceMaxEvictedSeq clears the heap up to the new maximum before it stores it.
LEMMA MovePreparedMax ==
    ASSUME Types, Types', CallInv, MaxInv, NEW q \in {1, 2}, MovePrepared(q)
    PROVE  MaxInv'
<1>1. /\ queue[q].pc = "commit" /\ queue[q].todo # {} /\ Evicted(q) # NoEntry
      /\ max_evicted_seq < Evicted(q)[2]
      /\ UNCHANGED <<config, commit_cache, max_evicted_seq, last_published>>
      /\ queue'[q].pc = "fetch" /\ queue'[q].todo = queue[q].todo
      /\ \A r \in {1, 2} : r # q => queue'[r] = queue[r]
      /\ queue'[1].txn = queue[1].txn
  BY GotoFacts, Zenon DEF MovePrepared, Evicts, Committing, Types, InCommit
<1>2. \A r \in {1, 2} : r # q => queue[r].pc \notin InCommit
  BY <1>1, Zenon DEF CallInv, Callers, InCommit
<1>3. /\ Evicted(q)' = Evicted(q) /\ NewMax(q)' = NewMax(q) /\ NewMax(q) \in Nat
  BY <1>1, EvictedSame, EvictedFacts, Zenon
<1>4. Preparing' = Preparing
  BY <1>1, Zenon DEF Preparing
<1>5. \A p \in prepared_txns'.heap : p \in prepared_txns.heap /\ p > NewMax(q)
  BY <1>3, PopUpToFacts, Zenon DEF MovePrepared, Types
<1>6. /\ ~ahead' => ~ahead /\ ~(NewMax(q) > last_published)
      /\ overtaken' = overtaken \cup {p \in Preparing : p <= NewMax(q)}
  BY Zenon DEF MovePrepared, Passes
<1>7. Evicting'
  BY <1>1, <1>2, <1>3, Zenon DEF Evicting, InCommit, Advancing, NoEntry
<1>8. AboveMax'
  BY <1>1, <1>4, <1>5, <1>6, Zenon DEF MaxInv, AboveMax, InHeapOrPreparing
<1>9. \A p \in Preparing : p \in Nat
  BY Zenon DEF Preparing, Types, Calls
<1>10. ASSUME ~ahead'
       PROVE  /\ NewMax(q) <= last_published
              /\ \A p \in InHeapOrPreparing' : p > NewMax(q) \/ p \in overtaken'
  <2>1. NewMax(q) <= last_published
    BY <1>3, <1>6, <1>10 DEF Types
  <2>2. \A p \in Preparing : p > NewMax(q) \/ p <= NewMax(q)
    BY <1>3, <1>9
  <2> QED
    BY <1>4, <1>5, <1>6, <2>1, <2>2, Zenon DEF InHeapOrPreparing
<1>11. AboveNewMax'
  BY <1>1, <1>2, <1>3, <1>10, Zenon DEF AboveNewMax, InCommit, Advancing
<1>12. ASSUME ~config.two_write_queues
       PROVE  overtaken' = overtaken /\ queue'[1].pc # "thrown"
  <2>1. q = 1
    BY <1>1, <1>12, Zenon DEF CallInv, Callers
  <2> QED
    BY <1>1, <1>6, <2>1, Zenon DEF Preparing
<1>13. Alone'
  BY <1>1, <1>12, Zenon DEF MaxInv, Alone
<1> QED
  BY <1>7, <1>8, <1>11, <1>13, Zenon DEF MaxInv

\* The maximum that is stored is the one the heap was cleared up to.
LEMMA StoreMaxEvictedMax ==
    ASSUME Types, Types', CallInv, MaxInv, NEW q \in {1, 2}, StoreMaxEvicted(q)
    PROVE  MaxInv'
<1>1. /\ queue[q].pc = "max"
      /\ UNCHANGED <<config, ahead, overtaken, last_published, prepared_txns>>
      /\ queue'[q].pc = "commit" /\ max_evicted_seq' = NewMax(q)
      /\ \A r \in {1, 2} : r # q => queue'[r] = queue[r]
      /\ queue'[1].txn = queue[1].txn
  BY GotoFacts, Zenon DEF StoreMaxEvicted, Committing, Types, InCommit
<1>2. \A r \in {1, 2} : queue'[r].pc \notin Advancing \cup {"exchange"}
  BY <1>1, Zenon DEF CallInv, Callers, InCommit, Advancing
<1>3. InHeapOrPreparing' = InHeapOrPreparing /\ (queue'[1].pc = "thrown" => queue[1].pc = "thrown")
  BY <1>1, Zenon DEF InHeapOrPreparing, Preparing
<1> QED
  BY <1>1, <1>2, <1>3, Zenon DEF MaxInv, Evicting, AboveMax, AboveNewMax, Alone, Advancing

\* CheckAgainstSnapshots only compares.
LEMMA CheckMax ==
    ASSUME Types, Types', CallInv, MaxInv, NEW q \in {1, 2}, CheckAgainstSnapshots(q)
    PROVE  MaxInv'
<1>1. /\ queue[q].pc = "commit" /\ queue[q].todo # {} /\ Evicted(q) # NoEntry
      /\ max_evicted_seq >= Evicted(q)[2]
      /\ UNCHANGED <<config, commit_cache, max_evicted_seq, ahead, overtaken, last_published,
                     prepared_txns>>
      /\ queue'[q].pc = "exchange" /\ queue'[q].todo = queue[q].todo
      /\ \A r \in {1, 2} : r # q => queue'[r] = queue[r]
      /\ queue'[1].txn = queue[1].txn
  BY GotoFacts, Zenon DEF CheckAgainstSnapshots, Evicts, Committing, Types, InCommit
<1>2. \A r \in {1, 2} : r # q => queue[r].pc \notin InCommit
  BY <1>1, Zenon DEF CallInv, Callers, InCommit
<1>3. Evicted(q)' = Evicted(q) /\ Evicted(q)[2] \in Nat
  BY <1>1, EvictedSame, EvictedFacts, Zenon
<1>4. InHeapOrPreparing' = InHeapOrPreparing
  BY <1>1, Zenon DEF InHeapOrPreparing, Preparing
<1>5. Evicting'
  BY <1>1, <1>2, <1>3, Zenon DEF Evicting, InCommit, Advancing, NoEntry, Types
<1> QED
  BY <1>1, <1>2, <1>4, <1>5, Zenon DEF MaxInv, AboveMax, AboveNewMax, Alone, InCommit, Advancing

\* Writing a commit entry ends the eviction.
LEMMA ExchangeMax ==
    ASSUME Types, Types', CallInv, MaxInv, NEW q \in {1, 2}, ExchangeCommitEntry(q)
    PROVE  MaxInv'
<1>1. /\ queue[q].pc \in InCommit /\ queue'[q].pc = "commit"
      /\ \A r \in {1, 2} : r # q => queue'[r] = queue[r]
  BY ExchangeFacts, Zenon
<1>2. \A r \in {1, 2} : queue'[r].pc \notin Advancing \cup {"exchange"}
  BY <1>1, Zenon DEF CallInv, Callers, InCommit, Advancing
<1>3. UNCHANGED <<config, ahead, overtaken, last_published, prepared_txns, max_evicted_seq>>
  BY Zenon DEF ExchangeCommitEntry
<1>4. InHeapOrPreparing' = InHeapOrPreparing /\ (queue'[1].pc = "thrown" => queue[1].pc = "thrown")
  BY <1>1, <1>3, Zenon DEF InHeapOrPreparing, Preparing, InCommit
<1> QED
  BY <1>1, <1>2, <1>3, <1>4, Zenon DEF MaxInv, Evicting, AboveMax, AboveNewMax, Alone

\* Every step keeps the rules of the maximum.
LEMMA StepMax ==
    ASSUME Types, Types', CallInv, MaxInv, Next
    PROVE  MaxInv'
<1>1. config \in Configs
  BY Zenon DEF Types
<1>2. CASE FinishPrepare \/ PublishGroup
  <2>1. /\ queue'[1].pc \in {"done", "idle"} /\ queue'[2] = queue[2]
        /\ UNCHANGED <<config, commit_cache, max_evicted_seq, ahead, overtaken, prepared_txns>>
    <3>1. CASE FinishPrepare
      <4>1. queue'[1] = [Idle EXCEPT !.pc = "done", !.seq = queue[1].seq] /\ queue'[2] = queue[2]
        BY <3>1 DEF FinishPrepare, Types
      <4>2. queue'[1].pc = "done"
        BY <4>1 DEF Idle
      <4> QED
        BY <3>1, <4>1, <4>2, Zenon DEF FinishPrepare
    <3>2. CASE PublishGroup
      <4>1. queue'[1].pc = "idle" /\ queue'[2] = queue[2]
        BY <3>2 DEF PublishGroup, Types, Idle
      <4> QED
        BY <3>2, <4>1, Zenon DEF PublishGroup
    <3> QED
      BY <1>2, <3>1, <3>2, Zenon
  <2>2. last_published <= last_published'
    <3>1. CASE FinishPrepare
      BY <3>1 DEF FinishPrepare, Types
    <3>2. CASE PublishGroup
      BY <3>2, PublishGroupCalls, Zenon
    <3> QED
      BY <1>2, <3>1, <3>2, Zenon
  <2>3. InHeapOrPreparing' \subseteq InHeapOrPreparing
    BY <2>1, Zenon DEF InHeapOrPreparing, Preparing
  <2>4. queue'[1].pc \notin Advancing \cup {"exchange", "thrown"}
    BY <2>1, Zenon DEF Advancing
  <2> QED
    BY <2>1, <2>2, <2>3, <2>4, KeepingMax, Zenon
<1>3. CASE \E txn, n : Starts(txn, n)
  <2>1. PICK txn, n : Starts(txn, n)
    BY <1>3, Zenon
  <2>2. PICK q \in {1, 2} : q = CommitQueue
    BY Zenon DEF CommitQueue
  <2>3. /\ queue'[q].pc = "commit"
        /\ \A r \in {1, 2} : r # q => queue'[r] = queue[r]
        /\ UNCHANGED <<config, commit_cache, max_evicted_seq, ahead, overtaken, prepared_txns,
                       last_published>>
    BY <2>1, <2>2, Zenon DEF Starts, StartCommit, Types
  <2>4. InHeapOrPreparing' \subseteq InHeapOrPreparing /\ last_published <= last_published'
    BY <2>3 DEF InHeapOrPreparing, Preparing, Types
  <2>5. queue'[q].pc \notin Advancing \cup {"exchange", "thrown"}
    BY <2>3, Zenon DEF Advancing
  <2> QED
    BY <2>3, <2>4, <2>5, KeepingMax, Zenon
<1>4. ASSUME NEW q \in {1, 2}, GetSnapshotListFromDB(q) \/ UpdateSnapshots(q)
      PROVE  MaxInv'
  <2>1. /\ {queue[q].pc, queue'[q].pc} \subseteq Advancing /\ queue'[q].todo = queue[q].todo
        /\ \A r \in {1, 2} : r # q => queue'[r] = queue[r]
        /\ queue'[q].pc # "exchange" /\ queue'[q].pc # "thrown"
    BY <1>4, GotoFacts, Zenon DEF GetSnapshotListFromDB, UpdateSnapshots, Committing, Types,
       InCommit, Advancing
  <2>2. UNCHANGED <<config, commit_cache, max_evicted_seq, ahead, overtaken, prepared_txns,
                    last_published>>
    BY <1>4, Zenon DEF GetSnapshotListFromDB, UpdateSnapshots
  <2>3. InHeapOrPreparing' \subseteq InHeapOrPreparing /\ last_published <= last_published'
    BY <2>1, <2>2 DEF InHeapOrPreparing, Preparing, Advancing, Types
  <2> QED
    BY <2>1, <2>2, <2>3, KeepingMax, Zenon
<1>5. ASSUME NEW q \in {1, 2}, FinishCommit(q)
      PROVE  MaxInv'
  <2>1. /\ queue'[q].pc \in {"idle", "done"}
        /\ \A r \in {1, 2} : r # q => queue'[r] = queue[r]
        /\ UNCHANGED <<config, commit_cache, max_evicted_seq, ahead, overtaken, prepared_txns>>
    BY <1>5, Zenon DEF FinishCommit, Types, Idle
  <2>2. last_published <= last_published'
    BY <1>5, FinishCommitCalls, Zenon
  <2>3. InHeapOrPreparing' \subseteq InHeapOrPreparing
    BY <2>1, Zenon DEF InHeapOrPreparing, Preparing
  <2>4. queue'[q].pc \notin Advancing \cup {"exchange", "thrown"}
    BY <2>1, Zenon DEF Advancing
  <2> QED
    BY <2>1, <2>2, <2>3, <2>4, KeepingMax, Zenon
<1>6. ASSUME NEW r \in returned, RemovePrepared(r[1], r[2])
      PROVE  MaxInv'
  <2>1. r[1] \in SUBSET Nat
    BY Zenon DEF Types
  <2>2. prepared_txns'.heap \subseteq prepared_txns.heap
    BY <1>6, <2>1, EraseFacts, Zenon DEF RemovePrepared, Types
  <2>3. /\ UNCHANGED <<config, commit_cache, max_evicted_seq, ahead, overtaken, queue,
                       last_published>>
        /\ last_published <= last_published'
    BY <1>6 DEF RemovePrepared, Types
  <2>4. InHeapOrPreparing' \subseteq InHeapOrPreparing
    BY <2>2, <2>3, Zenon DEF InHeapOrPreparing, Preparing
  <2> QED
    BY <2>3, <2>4, KeepingMax, Zenon
<1>7. ASSUME Quiet PROVE MaxInv'
  <2>1. /\ UNCHANGED <<config, commit_cache, max_evicted_seq, ahead, overtaken, queue,
                       prepared_txns, last_published>>
        /\ last_published <= last_published'
    BY <1>7 DEF Quiet, Types
  <2>2. InHeapOrPreparing' \subseteq InHeapOrPreparing
    BY <2>1, Zenon DEF InHeapOrPreparing, Preparing
  <2> QED
    BY <2>1, <2>2, KeepingMax, Zenon
<1>8. ReaderStep => Quiet
  BY Zenon DEF ReaderStep
<1> QED
  BY <1>1, <1>2, <1>3, <1>4, <1>5, <1>6, <1>7, <1>8, NextCases, PrepareMax, CheckPreparedMax,
     AddPreparedMax, MovePreparedMax, StoreMaxEvictedMax, CheckMax, ExchangeMax, HandleSteps,
     ZenonT(30)

\* The rules of the maximum imply PreparedAboveMax.
LEMMA MaxInvGivesAboveMax == MaxInv => PreparedAboveMax
  BY Zenon DEF MaxInv, AboveMax, Alone, InHeapOrPreparing, PreparedAboveMax

-----------------------------------------------------------------------------
(* What no step takes back.                                                *)

\* what only grows, and that a new commit is above what is published
Grows ==
    /\ config' = config
    /\ last_allocated <= last_allocated' /\ last_published <= last_published'
    /\ max_evicted_seq <= max_evicted_seq'
    /\ data \subseteq data' /\ delayed_once \subseteq delayed_once'
    /\ ahead => ahead'
    /\ overtaken \subseteq overtaken' /\ shared_once \subseteq shared_once'
    /\ \A p \in data : commit[p] # 0 => commit'[p] = commit[p]
    /\ \A p \in data : commit'[p] # commit[p] => commit'[p] > last_published
    /\ \A p \in data' \ data : p > last_allocated /\ commit'[p] = 0

\* Steps that take no number, commit nothing and evict nothing.
LEMMA NothingNew ==
    ASSUME Types, UNCHANGED <<config, last_allocated, max_evicted_seq, data, commit>>,
           last_published <= last_published', delayed_once \subseteq delayed_once',
           ahead => ahead', overtaken \subseteq overtaken', shared_once \subseteq shared_once'
    PROVE  Grows
  BY DEF Grows, Types

\* The numbers a call takes are above all that were taken.
LEMMA NewData ==
    ASSUME Types, CallInv, Bounds', NEW n \in Nat, NEW m \in Nat, n <= m,
           data' = data \cup Taken(n), last_allocated' = last_allocated + m,
           UNCHANGED <<config, last_published, max_evicted_seq, delayed_once, historyVars,
                       shared_once, commit>>
    PROVE  Grows
<1>1. \A p \in Taken(n) : p > last_allocated
  BY DEF Taken, Types
<1>2. \A p \in Taken(n) : p \in 1 .. config.max_seq
  <2>1. /\ last_allocated \in Nat /\ config.max_seq \in Nat
        /\ last_allocated + m <= config.max_seq
    BY ConfigsOK, Zenon DEF Types, IsConfig, Bounds
  <2> QED
    BY <2>1 DEF Taken
<1>3. \A p \in Taken(n) : p \notin data => commit[p] = 0
  BY <1>2, Zenon DEF CallInv, Uncommitted
<1> QED
  BY <1>1, <1>3 DEF Grows, Types

\* No step takes back a number, a commit, a publication or an eviction.
LEMMA StepGrows ==
    ASSUME Types, CallInv, CallInv', MaxInv, Next
    PROVE  Grows
<1>1. config \in Configs /\ Bounds'
  BY Zenon DEF Types, CallInv
<1>2. ASSUME NEW n \in Nat \ {0}, PrepareInternal(n)
      PROVE  Grows
  <2>1. n \in Nat /\ n <= n
    BY <1>2
  <2> QED
    BY <1>1, <1>2, <2>1, NewData, Zenon DEF PrepareInternal
<1>3. CASE CheckPrepared \/ AddPrepared \/ FinishPrepare
  <2>1. UNCHANGED <<config, last_allocated, last_published, max_evicted_seq, data, commit,
                    delayed_once, ahead, overtaken, shared_once>>
    BY <1>3, Zenon DEF CheckPrepared, AddPrepared, FinishPrepare
  <2> QED
    BY <2>1, NothingNew DEF Types
<1>4. CASE PublishGroup
  <2>1. last_published <= last_published'
    BY <1>4, PublishGroupCalls, Zenon
  <2> QED
    BY <1>4, <2>1, NothingNew, Zenon DEF PublishGroup
<1>5. ASSUME NEW txn, NEW n, Starts(txn, n)
      PROVE  Grows
  <2>1. n \in Nat /\ Max({n, 1}) \in Nat /\ n <= Max({n, 1})
    BY <1>5, MaxOne, Zenon DEF Starts
  <2> QED
    BY <1>1, <1>5, <2>1, NewData, Zenon DEF Starts, StartCommit
<1>6. ASSUME NEW q \in {1, 2}, MovePrepared(q)
      PROVE  Grows
  <2>1. UNCHANGED <<config, last_allocated, last_published, max_evicted_seq, data, commit>>
        /\ delayed_once \subseteq delayed_once' /\ (ahead => ahead')
        /\ overtaken \subseteq overtaken' /\ shared_once' = shared_once
    BY <1>6, Zenon DEF MovePrepared, Passes
  <2> QED
    BY <2>1, NothingNew DEF Types
<1>7. ASSUME NEW q \in {1, 2},
             GetSnapshotListFromDB(q) \/ UpdateSnapshots(q) \/ CheckAgainstSnapshots(q)
      PROVE  Grows
  <2>1. UNCHANGED <<config, last_allocated, last_published, max_evicted_seq, data, commit,
                    delayed_once, ahead, overtaken, shared_once>>
    BY <1>7, Zenon DEF GetSnapshotListFromDB, UpdateSnapshots, CheckAgainstSnapshots
  <2> QED
    BY <2>1, NothingNew DEF Types
<1>8. ASSUME NEW q \in {1, 2}, StoreMaxEvicted(q)
      PROVE  Grows
  <2>1. /\ max_evicted_seq < Evicted(q)[2] /\ queue[q].todo # {}
        /\ max_evicted_seq' = NewMax(q)
    BY <1>8, Zenon DEF StoreMaxEvicted, Committing, MaxInv, Evicting, Advancing
  <2>2. max_evicted_seq <= max_evicted_seq'
    BY <2>1, EvictedFacts, SMTT(30), SMTT(45) DEF Types
  <2>3. UNCHANGED <<config, last_allocated, last_published, data, commit, delayed_once,
                    ahead, overtaken, shared_once>>
    BY <1>8, Zenon DEF StoreMaxEvicted
  <2> QED
    BY <2>2, <2>3 DEF Grows, Types
<1>9. ASSUME NEW q \in {1, 2}, ExchangeCommitEntry(q)
      PROVE  Grows
  <2>1. PICK seq \in queue[q].todo :
            /\ seq \in data /\ commit[seq] = 0 /\ queue[q].seq \in Nat
            /\ last_published < queue[q].seq /\ commit'[seq] = queue[q].seq
            /\ \A p \in data : p # seq => commit'[p] = commit[p]
    BY <1>9, ExchangeFacts, ZenonT(30)
  <2>2. UNCHANGED <<config, last_allocated, last_published, data, max_evicted_seq, delayed_once,
                    ahead, overtaken, shared_once>>
    BY <1>9, Zenon DEF ExchangeCommitEntry
  <2> QED
    BY <2>1, <2>2 DEF Grows, Types
<1>10. ASSUME NEW q \in {1, 2}, FinishCommit(q)
       PROVE  Grows
  <2>1. last_published <= last_published'
    BY <1>10, FinishCommitCalls, Zenon
  <2> QED
    BY <1>10, <2>1, NothingNew, Zenon DEF FinishCommit
<1>11. ASSUME NEW r \in returned, RemovePrepared(r[1], r[2])
       PROVE  Grows
  <2>1. UNCHANGED <<config, last_allocated, last_published, data, commit, max_evicted_seq,
                    delayed_once, ahead, overtaken, shared_once>>
    BY <1>11, Zenon DEF RemovePrepared
  <2> QED
    BY <2>1, NothingNew DEF Types
<1>12. ASSUME Quiet, shared_once \subseteq shared_once'
       PROVE  Grows
  BY <1>12, NothingNew DEF Quiet, Types
<1>13. ReaderStep => Quiet /\ shared_once \subseteq shared_once'
  BY Zenon DEF ReaderStep
<1>14. ASSUME NEW h \in Handles, HandleStep(h)
       PROVE  shared_once \subseteq shared_once'
  BY <1>14, Zenon DEF HandleStep, Releasing, GetMinUncommitted, GetSnapshotImpl, HandleGoes,
     ReleaseSnapshotInternal, FindOldCommits, EraseOldCommits, ReleaseSnapshot
<1> QED
  BY <1>1, <1>2, <1>3, <1>4, <1>5, <1>6, <1>7, <1>8, <1>9, <1>10, <1>11, <1>12, <1>13, <1>14,
     NextCases, HandleSteps, Zenon

-----------------------------------------------------------------------------
(* Snapshots.                                                              *)

\* The steps that change a snapshot.
LEMMA HandleCases ==
    ASSUME config \in Configs, Next
    PROVE  UNCHANGED handleVars \/ \E h \in Handles : HandleStep(h)
  BY NextCases, Zenon DEF PrepareInternal, CheckPrepared, AddPrepared, FinishPrepare, PublishGroup,
     Starts, StartCommit, MovePrepared, GetSnapshotListFromDB, UpdateSnapshots, StoreMaxEvicted,
     CheckAgainstSnapshots, ExchangeCommitEntry, FinishCommit, RemovePrepared, ReaderStep

\* min_uncommitted_, read before the sequence number of the snapshot
MinsOK ==
    \A h \in Handles :
        /\ handle[h].pc # "free" => handle[h].min_uncommitted <= last_allocated + 1
        /\ handle[h].pc = "min" =>
               \A p \in data : \/ p \in delayed_once \/ Published(p)
                               \/ handle[h].min_uncommitted <= p
        /\ h \in Listed => handle[h].seq <= last_published

\* the rules of the snapshots
SnapInv == MinsOK /\ SnapshotMinIsSafe

\* The rules of the snapshots hold when the DB is opened.
LEMMA InitSnap == Init => SnapInv
  BY DEF Init, NoSnapshot, SnapInv, MinsOK, SnapshotMinIsSafe, Listed

\* The number GetSnapshot reads first is at most every number that is not published.
LEMMA SmallestIsSafe ==
    ASSUME Types, CallInv, HeapInv
    PROVE  /\ SmallestUnCommittedSeq \in Nat /\ SmallestUnCommittedSeq <= last_allocated + 1
           /\ \A p \in data : \/ p \in delayed_once \/ Published(p)
                              \/ SmallestUnCommittedSeq <= p
<1> DEFINE S == prepared_txns.heap \cup {last_sequence + 1}
<1>1. /\ SmallestUnCommittedSeq \in S /\ S \subseteq Nat
      /\ \A y \in S : SmallestUnCommittedSeq <= y
  <2>1. prepared_txns.heap \subseteq Nat /\ last_sequence + 1 \in Nat
    BY DEF Types, Heaps
  <2> QED
    BY <2>1, NatMin, Zenon DEF SmallestUnCommittedSeq
<1>2. SmallestUnCommittedSeq <= last_sequence + 1 /\ last_sequence + 1 \in Nat
  BY <1>1, Zenon DEF Types
<1>3. SmallestUnCommittedSeq \in Nat /\ SmallestUnCommittedSeq <= last_allocated + 1
  BY <1>1, <1>2 DEF CallInv, Bounds, Types
<1>4. ASSUME NEW p \in data, p \notin delayed_once, ~Published(p)
      PROVE  SmallestUnCommittedSeq <= p
  <2>1. p \in Live \/ p > last_sequence
    BY <1>4, Zenon DEF HeapInv, Known
  <2>2. CASE p \in Live
    BY <1>1, <2>2, Zenon DEF Live, LiveIn
  <2>3. CASE p > last_sequence
    <3>1. SmallestUnCommittedSeq \in Nat /\ SmallestUnCommittedSeq <= last_sequence + 1
          /\ p \in Nat /\ last_sequence \in Nat
      BY <1>2, <1>3, Zenon DEF Types
    <3> QED
      BY <2>3, <3>1
  <2> QED
    BY <2>1, <2>2, <2>3, Zenon
<1> QED
  BY <1>3, <1>4, Zenon

\* Steps of everybody but the holders of snapshots.
LEMMA KeepingSnap ==
    ASSUME Types, Types', CallInv, SnapInv, Grows, UNCHANGED handle
    PROVE  SnapInv'
<1>1. Listed' = Listed
  BY Zenon DEF Listed
<1>2. \A p : Published(p) => Published(p)'
  BY StaysPublished, Zenon DEF Grows
<1>3. ASSUME NEW h \in Handles, handle[h].pc # "free", NEW p \in data' \ data
      PROVE  handle[h].min_uncommitted <= p
  <2>1. /\ handle[h].min_uncommitted <= last_allocated + 1 /\ p > last_allocated
        /\ handle[h].min_uncommitted \in Nat /\ last_allocated \in Nat /\ p \in Nat
    BY <1>3, Zenon DEF SnapInv, MinsOK, Grows, Types, SnapshotObjects
  <2> QED
    BY <2>1
<1>4. ASSUME NEW h \in Handles, handle[h].pc # "free"
      PROVE  handle[h].min_uncommitted <= last_allocated' + 1
  <2>1. /\ handle[h].min_uncommitted <= last_allocated + 1 /\ last_allocated <= last_allocated'
        /\ handle[h].min_uncommitted \in Nat /\ last_allocated \in Nat /\ last_allocated' \in Nat
    BY <1>4, Zenon DEF SnapInv, MinsOK, Grows, Types, SnapshotObjects
  <2> QED
    BY <2>1
<1>5. ASSUME NEW h \in Listed
      PROVE  handle[h].seq <= last_published'
  <2>1. handle[h].seq <= last_published /\ handle[h].seq \in Nat
    BY Zenon DEF SnapInv, MinsOK, Listed, Types, SnapshotObjects
  <2> QED
    BY <2>1 DEF Grows, Types
<1>6. ASSUME NEW h \in Handles, handle[h].pc = "min", NEW p \in data'
      PROVE  p \in delayed_once' \/ Published(p)' \/ handle[h].min_uncommitted <= p
  <2>1. CASE p \in data
    BY <1>2, <1>6, <2>1, Zenon DEF SnapInv, MinsOK, Grows
  <2>2. CASE p \notin data
    BY <1>3, <1>6, <2>2, Zenon
  <2> QED
    BY <2>1, <2>2, Zenon
<1>7. MinsOK'
  BY <1>1, <1>4, <1>5, <1>6, Zenon DEF MinsOK
<1>8. ASSUME NEW h \in Listed, NEW p \in data', p \notin delayed_once',
             commit'[p] \notin 1 .. handle[h].seq
      PROVE  handle[h].min_uncommitted <= p
  <2>1. CASE p \in data
    <3>1. commit[p] = 0 \/ commit'[p] = commit[p]
      BY <2>1, Zenon DEF Grows
    <3>2. commit[p] \notin 1 .. handle[h].seq
      BY <1>8, <3>1
    <3> QED
      BY <1>8, <2>1, <3>2, Zenon DEF SnapInv, SnapshotMinIsSafe, Grows
  <2>2. CASE p \notin data
    BY <1>3, <1>8, <2>2, Zenon DEF Listed
  <2> QED
    BY <2>1, <2>2, Zenon
<1>9. SnapshotMinIsSafe'
  BY <1>1, <1>8, Zenon DEF SnapshotMinIsSafe
<1> QED
  BY <1>7, <1>9, Zenon DEF SnapInv

\* Every step keeps the rules of the snapshots.
LEMMA StepSnap ==
    ASSUME Types, Types', CallInv, HeapInv, SnapInv, Grows, Next
    PROVE  SnapInv'
<1>1. CASE UNCHANGED handleVars
  BY <1>1, KeepingSnap, Zenon
<1>2. ASSUME NEW h \in Handles, HandleStep(h)
      PROVE  SnapInv'
  <2>1. UNCHANGED <<last_allocated, last_published, data, commit, delayed_once>>
    BY <1>2, HandleSteps, Zenon DEF Quiet
  <2>2. \A p : Published(p) <=> Published(p)'
    BY <2>1, Zenon DEF Published
  <2>3. \A g \in Handles : g # h => handle'[g] = handle[g]
    BY <1>2, ReleasingFacts, Zenon DEF HandleStep, GetMinUncommitted, GetSnapshotImpl,
       ReleaseSnapshot, Types
  <2>4. SUFFICES
            /\ handle'[h].pc # "free" => handle'[h].min_uncommitted <= last_allocated + 1
            /\ handle'[h].pc = "min" =>
                   \A p \in data : \/ p \in delayed_once \/ Published(p)
                                   \/ handle'[h].min_uncommitted <= p
            /\ h \in Listed' =>
                   /\ handle'[h].seq <= last_published
                   /\ \A p \in data \ delayed_once :
                          commit[p] \notin 1 .. handle'[h].seq =>
                              handle'[h].min_uncommitted <= p
    BY <2>1, <2>2, <2>3, Zenon DEF SnapInv, MinsOK, SnapshotMinIsSafe, Listed
  <2>5. CASE GetMinUncommitted(h)
    <3>1. handle'[h].pc = "min" /\ handle'[h].min_uncommitted = SmallestUnCommittedSeq
      BY <2>5, Zenon DEF GetMinUncommitted, Types
    <3> QED
      BY <3>1, SmallestIsSafe, Zenon DEF Listed
  <2>6. CASE GetSnapshotImpl(h)
    <3>1. /\ handle'[h].pc = "live" /\ handle'[h].min_uncommitted = handle[h].min_uncommitted
          /\ handle'[h].seq = last_published /\ handle[h].pc = "min"
      BY <2>6 DEF GetSnapshotImpl, Types, SnapshotObjects
    <3>2. \A p \in data : commit[p] \notin 1 .. last_published => ~Published(p)
      BY DataNumbers, SMTT(30), SMTT(45) DEF Published, CallInv, Types
    <3>3. last_published <= last_published
      BY DEF Types
    <3> QED
      BY <3>1, <3>2, <3>3, Zenon DEF SnapInv, MinsOK
  <2>7. CASE Releasing(h)
    <3>1. /\ handle'[h].pc \in {"gc", "erase", "releasing"} /\ handle[h].pc \in {"live", "gc", "erase"}
          /\ handle'[h].min_uncommitted = handle[h].min_uncommitted
          /\ handle'[h].seq = handle[h].seq
      BY <2>7, ReleasingFacts, Zenon DEF Types
    <3>2. handle[h].pc # "free" /\ handle'[h].pc # "min" /\ h \in Listed
      BY <3>1, Zenon DEF Listed
    <3> QED
      BY <3>1, <3>2, Zenon DEF SnapInv, MinsOK, SnapshotMinIsSafe
  <2>8. CASE ReleaseSnapshot(h)
    BY <2>8, Zenon DEF ReleaseSnapshot, NoSnapshot, Types, Listed
  <2> QED
    BY <1>2, <2>5, <2>6, <2>7, <2>8, Zenon DEF HandleStep
<1>3. config \in Configs
  BY Zenon DEF Types
<1> QED
  BY <1>1, <1>2, <1>3, HandleCases, Zenon

=============================================================================
