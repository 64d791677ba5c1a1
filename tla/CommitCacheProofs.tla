------------------------- MODULE CommitCacheProofs -------------------------
(***************************************************************************)
(* The invariant of CommitCache, second part: the transactions that have   *)
(* committed, and where IsInSnapshot finds them.  It adds to what          *)
(* CommitCachePrepared.tla has                                             *)
(*                                                                         *)
(*   CacheInv  commit_cache_, and what was evicted from it;                *)
(*   ListInv   the list of snapshots the evicting call has fetched;        *)
(*   MapInv    old_commit_map_;                                            *)
(*   ReadInv   the reader in the middle of IsInSnapshot;                   *)
(*                                                                         *)
(* and Inv, all of them together, is inductive.                            *)
(***************************************************************************)
EXTENDS CommitCachePrepared, FiniteSetTheorems

USE DEF seqVars, txnVars, cacheVars, preparedVars, historyVars, evictVars, handleVars

-----------------------------------------------------------------------------
(* The commit cache, and what was evicted from it.                         *)

\* the commit entry of p is in the cache
InCache(p) == commit_cache[Index(p)] = <<p, commit[p]>>

\* the cache has true entries only, and every commit above the maximum
CacheInv ==
    /\ \A i \in DOMAIN commit_cache : commit_cache[i] # NoEntry =>
           /\ commit_cache[i][1] \in data /\ Index(commit_cache[i][1]) = i
           /\ commit_cache[i][2] = commit[commit_cache[i][1]]
           /\ commit[commit_cache[i][1]] # 0
    /\ \A p \in data : commit[p] # 0 => InCache(p) \/ commit[p] <= max_evicted_seq

\* a step that leaves the cache, the map and the list of snapshots alone
Elsewhere ==
    /\ UNCHANGED <<config, max_evicted_seq, walked, snapshots, old_commit_map, handleVars, cacheVars>>
    /\ \A q \in {1, 2} :
           queue'[q].pc \in {"walk", "max", "exchange"} => queue'[q] = queue[q]

\* What a step does to the cache, the map and the list of snapshots.
LEMMA CacheCases ==
    ASSUME Types, CallInv, Next
    PROVE  \/ Elsewhere
           \/ \E q \in {1, 2} :
                  \/ GetSnapshotListFromDB(q) \/ UpdateSnapshots(q) \/ StoreMaxEvicted(q)
                  \/ CheckAgainstSnapshots(q) \/ ExchangeCommitEntry(q)
           \/ \E h \in Handles : HandleStep(h)
<1>1. (\E n \in Nat \ {0} : PrepareInternal(n)) => Elsewhere
  BY DEF PrepareInternal, Types, Elsewhere
<1>2. CheckPrepared \/ AddPrepared => Elsewhere
  BY DEF CheckPrepared, AddPrepared, Types, Calls, Elsewhere
<1>3. ASSUME FinishPrepare \/ PublishGroup
      PROVE  Elsewhere
  <2>1. CASE FinishPrepare
    <3>1. queue'[1] = [Idle EXCEPT !.pc = "done", !.seq = queue[1].seq] /\ queue'[2] = queue[2]
      BY <2>1 DEF FinishPrepare, Types
    <3>2. queue'[1].pc = "done"
      BY <3>1 DEF Idle
    <3> QED
      BY <2>1, <3>1, <3>2, Zenon DEF FinishPrepare, Elsewhere
  <2>2. CASE PublishGroup
    <3>1. queue'[1].pc = "idle" /\ queue'[2] = queue[2]
      BY <2>2 DEF PublishGroup, Types, Idle
    <3> QED
      BY <2>2, <3>1, Zenon DEF PublishGroup, Elsewhere
  <2> QED
    BY <1>3, <2>1, <2>2, Zenon
<1>4. (\E txn, n : Starts(txn, n)) => Elsewhere
  BY DEF Starts, StartCommit, CommitQueue, Types, Elsewhere
<1>5. (\E q \in {1, 2} : MovePrepared(q)) => Elsewhere
  BY GotoFacts, Zenon DEF MovePrepared, Types, InCommit, Elsewhere
<1>6. (\E q \in {1, 2} : FinishCommit(q)) => Elsewhere
  BY DEF FinishCommit, Types, Idle, Elsewhere
<1>7. (\E r \in returned : RemovePrepared(r[1], r[2])) => Elsewhere
  BY Zenon DEF RemovePrepared, Elsewhere
<1>8. ReaderStep => Elsewhere
  BY Zenon DEF ReaderStep, Quiet, Elsewhere
<1>9. config \in Configs
  BY Zenon DEF Types
<1> QED
  BY <1>1, <1>2, <1>3, <1>4, <1>5, <1>6, <1>7, <1>8, <1>9, NextCases, Zenon

\* The rules of the cache hold when the DB is opened.
LEMMA InitCache == Init => CacheInv
<1> SUFFICES ASSUME Init PROVE CacheInv
  BY Zenon
<1>1. config.last_seq \in Nat /\ config.max_seq \in Nat /\ config.last_seq <= config.max_seq
  BY ConfigsOK, Zenon DEF Init, IsConfig
<1>2. \A i \in DOMAIN commit_cache : commit_cache[i] = NoEntry
  BY Zenon DEF Init
<1>3. \A p \in data : commit[p] # 0 => commit[p] <= max_evicted_seq
  BY <1>1 DEF Init
<1> QED
  BY <1>2, <1>3, Zenon DEF CacheInv

\* Steps that leave the cache and the commits alone.
LEMMA KeepingCache ==
    ASSUME Types, Types', CallInv, CacheInv, Grows, UNCHANGED cacheVars
    PROVE  CacheInv'
<1>1. \A p : Index(p)' = Index(p)
  BY Zenon DEF Index, Grows
<1>2. \A p \in data : commit[p] # 0 => InCache(p)' \/ commit[p] <= max_evicted_seq'
  <2>1. \A p \in data : commit[p] \in Nat
    BY DataNumbers, Zenon DEF CallInv
  <2>2. /\ max_evicted_seq <= max_evicted_seq' /\ max_evicted_seq \in Nat /\ max_evicted_seq' \in Nat
    BY Zenon DEF Grows, Types
  <2>3. \A p \in data : commit[p] <= max_evicted_seq => commit[p] <= max_evicted_seq'
    BY <2>1, <2>2
  <2> QED
    BY <1>1, <2>3, Zenon DEF CacheInv, InCache
<1>3. \A p \in data' : commit[p] # 0 => p \in data
  BY Zenon DEF Grows
<1>4. \A i \in DOMAIN commit_cache : commit_cache[i] # NoEntry =>
           /\ commit_cache[i][1] \in data' /\ Index(commit_cache[i][1])' = i
           /\ commit_cache[i][2] = commit[commit_cache[i][1]]
           /\ commit[commit_cache[i][1]] # 0
  BY <1>1, Zenon DEF CacheInv, Grows
<1> QED
  BY <1>2, <1>3, <1>4, Zenon DEF CacheInv, NoEntry

\* The entry that makes room is at or below the maximum.
LEMMA ExchangeCache ==
    ASSUME Types, Types', CallInv, MaxInv, CacheInv, NEW q \in {1, 2}, ExchangeCommitEntry(q)
    PROVE  CacheInv'
<1>1. PICK seq \in queue[q].todo :
         /\ seq = Min(queue[q].todo)
         /\ seq \in data /\ seq \in Nat /\ commit[seq] = 0
         /\ queue[q].seq \in Nat /\ last_published < queue[q].seq
         /\ commit'[seq] = queue[q].seq
         /\ \A p \in data : p # seq => commit'[p] = commit[p]
         /\ Index(seq) \in DOMAIN commit_cache
         /\ commit_cache'[Index(seq)] = <<seq, queue[q].seq>>
         /\ \A i \in DOMAIN commit_cache :
                i # Index(seq) => commit_cache'[i] = commit_cache[i]
  BY ExchangeFacts, Zenon
<1>2. UNCHANGED <<config, data, max_evicted_seq>> /\ DOMAIN commit_cache' = DOMAIN commit_cache
  BY Zenon DEF ExchangeCommitEntry, Types
<1>3. \A p : Index(p)' = Index(p)
  BY <1>2, Zenon DEF Index
<1>4. commit_cache[Index(seq)] = Evicted(q)
  BY <1>1, Zenon DEF Evicted
<1>5. ASSUME NEW i \in DOMAIN commit_cache, commit_cache'[i] # NoEntry
      PROVE  /\ commit_cache'[i][1] \in data /\ Index(commit_cache'[i][1]) = i
             /\ commit_cache'[i][2] = commit'[commit_cache'[i][1]]
             /\ commit'[commit_cache'[i][1]] # 0
  <2>1. CASE i = Index(seq)
    <3>1. commit_cache'[i][1] = seq /\ commit_cache'[i][2] = queue[q].seq /\ queue[q].seq # 0
      BY <1>1, <2>1, SMTT(30), SMTT(45) DEF Types
    <3> QED
      BY <1>1, <2>1, <3>1, Zenon
  <2>2. CASE i # Index(seq)
    <3>1. commit_cache'[i] = commit_cache[i]
      BY <1>1, <2>2, Zenon
    <3>2. /\ commit_cache[i][1] \in data /\ Index(commit_cache[i][1]) = i
          /\ commit_cache[i][2] = commit[commit_cache[i][1]]
          /\ commit[commit_cache[i][1]] # 0
      BY <1>5, <3>1, Zenon DEF CacheInv
    <3>3. commit'[commit_cache[i][1]] = commit[commit_cache[i][1]]
      BY <1>1, <3>2, Zenon
    <3> QED
      BY <3>1, <3>2, <3>3, Zenon
  <2> QED
    BY <2>1, <2>2, Zenon
<1>6. ASSUME NEW p \in data, commit'[p] # 0
      PROVE  InCache(p)' \/ commit'[p] <= max_evicted_seq
  <2>1. CASE p = seq
    BY <1>1, <1>3, <2>1, Zenon DEF InCache
  <2>2. CASE p # seq
    <3>1. commit'[p] = commit[p] /\ commit[p] # 0
      BY <1>1, <1>6, <2>2, Zenon
    <3>2. CASE ~InCache(p)
      BY <3>1, <3>2, Zenon DEF CacheInv
    <3>3. CASE InCache(p) /\ Index(p) = Index(seq)
      <4>1. Evicted(q) = <<p, commit[p]>>
        BY <1>4, <3>3, Zenon DEF InCache
      <4>2. Evicted(q) # NoEntry /\ Evicted(q)[2] = commit[p]
        BY <3>1, <4>1 DEF NoEntry
      <4>3. queue[q].pc = "exchange"
        BY <4>2, Zenon DEF ExchangeCommitEntry, Committing
      <4> QED
        BY <3>1, <4>2, <4>3, Zenon DEF MaxInv, Evicting
    <3>4. CASE InCache(p) /\ Index(p) # Index(seq)
      <4>1. Index(p) \in DOMAIN commit_cache
        BY IndexIn, Zenon DEF Types
      <4>2. commit_cache'[Index(p)] = commit_cache[Index(p)]
        BY <1>1, <3>4, <4>1, Zenon
      <4> QED
        BY <1>3, <3>1, <3>4, <4>2, Zenon DEF InCache
    <3> QED
      BY <3>2, <3>3, <3>4, Zenon
  <2> QED
    BY <2>1, <2>2, Zenon
<1> QED
  BY <1>2, <1>3, <1>5, <1>6, Zenon DEF CacheInv, NoEntry

\* Every step keeps the rules of the cache.
LEMMA StepCache ==
    ASSUME Types, Types', CallInv, MaxInv, CacheInv, Grows, Next
    PROVE  CacheInv'
<1>1. (\E q \in {1, 2} : \/ GetSnapshotListFromDB(q) \/ UpdateSnapshots(q) \/ StoreMaxEvicted(q)
                         \/ CheckAgainstSnapshots(q))
          => UNCHANGED cacheVars
  BY Zenon DEF GetSnapshotListFromDB, UpdateSnapshots, StoreMaxEvicted, CheckAgainstSnapshots
<1>2. Quiet \/ Elsewhere => UNCHANGED cacheVars
  BY Zenon DEF Quiet, Elsewhere
<1> QED
  BY <1>1, <1>2, CacheCases, KeepingCache, ExchangeCache, HandleSteps, Zenon

-----------------------------------------------------------------------------
(* Snapshots the evicting call knows of.                                   *)

\* the snapshots that are taken or being taken
Held == {h \in Handles : handle[h].pc # "free"}

\* the list that was fetched has every snapshot older than the maximum, and older than
\* the one about to be stored
Fetched ==
    ~ahead => \A h \in Listed :
        /\ handle[h].seq < max_evicted_seq => handle[h].seq \in snapshots
        /\ \A q \in {1, 2} : queue[q].pc = "max" /\ handle[h].seq < NewMax(q) =>
               handle[h].seq \in snapshots

\* no snapshot so old is taken while GetAll walks the list
Walk ==
    ~ahead => \A h \in Listed, q \in {1, 2} :
        queue[q].pc = "walk" /\ handle[h].seq < NewMax(q) => handle[h].seq \in walked

\* what the list has below the maximum
Older ==
    {s \in snapshots : \/ s < max_evicted_seq
                       \/ \E q \in {1, 2} : queue[q].pc = "max" /\ s < NewMax(q)}

\* no more snapshots than the bound, in the list too
Few ==
    /\ Cardinality(Held) <= config.max_snapshots
    /\ IsFiniteSet(walked) /\ Cardinality(walked) <= config.max_snapshots
    /\ ~ahead => IsFiniteSet(Older) /\ Cardinality(Older) <= config.max_snapshots

\* snapshots do not share a number, unless the history says so
OwnNumbers ==
    \A g, h \in Listed :
        handle[g].seq = handle[h].seq => g = h \/ handle[g].seq \in shared_once

\* the rules of the list of snapshots
ListInv == Fetched /\ Walk /\ Few /\ OwnNumbers

\* The rules of the list of snapshots hold when the DB is opened.
LEMMA InitList == Init => ListInv
<1> SUFFICES ASSUME Init PROVE ListInv
  BY Zenon
<1>1. config.max_snapshots \in Nat
  BY ConfigsOK, Zenon DEF Init, IsConfig
<1>2. Held = {} /\ Listed = {} /\ walked = {} /\ Older = {}
  BY Zenon DEF Init, Held, Listed, Older, NoSnapshot
<1>3. IsFiniteSet({}) /\ Cardinality({}) <= config.max_snapshots
  BY <1>1, FS_EmptySet
<1> QED
  BY <1>2, <1>3, Zenon DEF ListInv, Fetched, Walk, Few, OwnNumbers

\* There are finitely many snapshots.
LEMMA HeldFinite == IsFiniteSet(Held) /\ Cardinality(Held) \in Nat
  BY HandlesFinite, FS_Subset, FS_CardinalityType, Zenon DEF Held

\* A subset of a small set is small.
LEMMA FewerOlder ==
    ASSUME NEW S, NEW T \in SUBSET S, NEW n \in Nat, IsFiniteSet(S), Cardinality(S) <= n
    PROVE  IsFiniteSet(T) /\ Cardinality(T) <= n
<1>1. IsFiniteSet(T) /\ Cardinality(T) <= Cardinality(S)
  BY FS_Subset, Zenon
<1>2. Cardinality(S) \in Nat /\ Cardinality(T) \in Nat
  BY <1>1, FS_CardinalityType, Zenon
<1> QED
  BY <1>1, <1>2

\* The list that is fetched is no longer than the list of the snapshots held.
LEMMA FetchedFew ==
    ASSUME NEW max, NEW S, S = ListedUpTo(max)
    PROVE  IsFiniteSet(S) /\ Cardinality(S) <= Cardinality(Held)
<1> DEFINE T == {handle[h].seq : h \in Listed}
           f == [h \in Listed |-> handle[h].seq]
<1>1. Listed \in SUBSET Held
  BY Zenon DEF Listed, Held
<1>2. IsFiniteSet(Listed) /\ Cardinality(Listed) <= Cardinality(Held)
      /\ Cardinality(Listed) \in Nat
  BY <1>1, HeldFinite, FS_Subset, FS_CardinalityType, Zenon
<1>3. f \in Surjection(Listed, T)
  BY Zenon DEF Surjection
<1> HIDE DEF f
<1>4. IsFiniteSet(T) /\ Cardinality(T) <= Cardinality(Listed) /\ Cardinality(T) \in Nat
  BY <1>2, <1>3, FS_Surjection, FS_CardinalityType, Zenon
<1>5. S \in SUBSET T
  BY Zenon DEF ListedUpTo
<1> HIDE DEF T
<1>6. IsFiniteSet(S) /\ Cardinality(S) <= Cardinality(T) /\ Cardinality(S) \in Nat
  BY <1>4, <1>5, FS_Subset, FS_CardinalityType, Zenon
<1> QED
  BY <1>2, <1>4, <1>6, HeldFinite

\* The new maximum is a number above the old one.
LEMMA NewMaxFacts ==
    ASSUME Types, MaxInv, NEW q \in {1, 2}, queue[q].pc \in Advancing
    PROVE  /\ NewMax(q) \in Nat /\ max_evicted_seq < NewMax(q)
           /\ ~ahead => NewMax(q) <= last_published
<1>1. max_evicted_seq < Evicted(q)[2] /\ max_evicted_seq \in Nat /\ queue[q].todo # {}
  BY Zenon DEF MaxInv, Evicting, Types
<1>2. NewMax(q) \in Nat /\ NewMax(q) > Evicted(q)[2] /\ Evicted(q)[2] \in Nat
  BY <1>1, EvictedFacts, Zenon
<1>3. max_evicted_seq < NewMax(q)
  BY <1>1, <1>2
<1>4. ~ahead => NewMax(q) <= last_published
  BY Zenon DEF MaxInv, AboveNewMax
<1> QED
  BY <1>2, <1>3, <1>4, Zenon

\* No two calls commit at once.
LEMMA OneCaller ==
    ASSUME CallInv, NEW q \in {1, 2}, queue[q].pc \in InCommit, NEW r \in {1, 2}, r # q
    PROVE  queue[r].pc \notin InCommit
<1>1. "idle" \notin InCommit
  BY Zenon DEF InCommit
<1>2. queue[1].pc \in InCommit => queue[2].pc \notin InCommit
  BY <1>1, Zenon DEF CallInv, Callers
<1>3. (q = 1 /\ r = 2) \/ (q = 2 /\ r = 1)
  OBVIOUS
<1> QED
  BY <1>2, <1>3, Zenon

\* Every snapshot up to the new maximum is there when GetAll begins to walk.
LEMMA WalkList ==
    ASSUME Types, CallInv, MaxInv, ListInv, NEW q \in {1, 2}, GetSnapshotListFromDB(q)
    PROVE  ListInv'
<1>1. /\ queue[q].pc = "fetch" /\ queue'[q].pc = "walk" /\ queue[q].todo # {}
      /\ queue'[q].todo = queue[q].todo
      /\ \A r \in {1, 2} : r # q => queue'[r] = queue[r]
      /\ UNCHANGED <<config, commit_cache, handleVars, max_evicted_seq, snapshots, ahead>>
      /\ walked' = ListedUpTo(NewMax(q))
  BY GotoFacts, Zenon DEF GetSnapshotListFromDB, Committing, Types, InCommit
<1>2. Listed' = Listed /\ Held' = Held
  BY <1>1, Zenon DEF Listed, Held
<1>3. NewMax(q) \in Nat /\ NewMax(q)' = NewMax(q)
  BY <1>1, NewMaxFacts, EvictedSame, Zenon DEF Advancing
<1>4. \A r \in {1, 2} : r # q => queue'[r].pc \notin {"walk", "max"}
  <2>1. queue[q].pc \in InCommit
    BY <1>1, Zenon DEF InCommit
  <2>2. \A r \in {1, 2} : r # q => queue[r].pc \notin InCommit
    BY <2>1, OneCaller, Zenon
  <2> QED
    BY <1>1, <2>2, Zenon DEF InCommit
<1>5. \A h \in Listed : handle[h].seq < NewMax(q) => handle[h].seq \in walked'
  <2>1. \A h \in Listed : handle[h].seq \in Nat
    BY Zenon DEF Listed, Types, SnapshotObjects
  <2>2. \A h \in Listed : handle[h].seq < NewMax(q) => handle[h].seq <= NewMax(q)
    BY <1>3, <2>1
  <2> QED
    BY <1>1, <2>2, Zenon DEF ListedUpTo
<1>6. Walk'
  BY <1>1, <1>2, <1>3, <1>4, <1>5, Zenon DEF Walk
<1>7. Fetched'
  BY <1>1, <1>2, <1>4, Zenon DEF ListInv, Fetched
<1>8. Few'
  <2>1. Older' \in SUBSET Older
    BY <1>1, <1>4, Zenon DEF Older
  <2>2. IsFiniteSet(walked') /\ Cardinality(walked') <= Cardinality(Held)
    BY <1>1, FetchedFew, Zenon
  <2>3. Cardinality(walked') \in Nat /\ config.max_snapshots \in Nat
    BY <2>2, FS_CardinalityType, ConfigsOK, Zenon DEF Types, IsConfig
  <2>4. Cardinality(walked') <= config.max_snapshots
    BY <2>2, <2>3, HeldFinite DEF ListInv, Few
  <2>5. ~ahead => IsFiniteSet(Older') /\ Cardinality(Older') <= config.max_snapshots
    BY <2>1, <2>3, FewerOlder, Zenon DEF ListInv, Few
  <2> QED
    BY <1>1, <1>2, <2>2, <2>4, <2>5, Zenon DEF ListInv, Few
<1>9. OwnNumbers'
  BY <1>1, <1>2, Zenon DEF ListInv, OwnNumbers
<1> QED
  BY <1>6, <1>7, <1>8, <1>9, Zenon DEF ListInv

\* Whatever GetAll has missed, it has seen every snapshot below the new maximum.
LEMMA UpdateList ==
    ASSUME Types, CallInv, MaxInv, ListInv, NEW q \in {1, 2}, UpdateSnapshots(q)
    PROVE  ListInv'
<1>1. /\ queue[q].pc = "walk" /\ queue'[q].pc = "max" /\ queue[q].todo # {}
      /\ queue'[q].todo = queue[q].todo
      /\ \A r \in {1, 2} : r # q => queue'[r] = queue[r]
      /\ UNCHANGED <<config, commit_cache, handleVars, max_evicted_seq, ahead>>
      /\ walked' = {}
      /\ snapshots' \subseteq walked \cup ListedUpTo(NewMax(q))
      /\ walked \cap ListedUpTo(NewMax(q)) \subseteq snapshots'
  BY GotoFacts, Zenon DEF UpdateSnapshots, Committing, Types, InCommit
<1>2. Listed' = Listed /\ Held' = Held
  BY <1>1, Zenon DEF Listed, Held
<1>3. /\ NewMax(q) \in Nat /\ NewMax(q)' = NewMax(q) /\ max_evicted_seq < NewMax(q)
      /\ max_evicted_seq \in Nat
  BY <1>1, NewMaxFacts, EvictedSame, Zenon DEF Advancing, Types
<1>4. \A r \in {1, 2} : r # q => queue'[r].pc \notin {"walk", "max"}
  <2>1. queue[q].pc \in InCommit
    BY <1>1, Zenon DEF InCommit
  <2>2. \A r \in {1, 2} : r # q => queue[r].pc \notin InCommit
    BY <2>1, OneCaller, Zenon
  <2> QED
    BY <1>1, <2>2, Zenon DEF InCommit
<1>5. ASSUME ~ahead, NEW h \in Listed, handle[h].seq < NewMax(q)
      PROVE  handle[h].seq \in walked /\ handle[h].seq \in snapshots'
  <2>1. handle[h].seq \in walked
    BY <1>1, <1>5, Zenon DEF ListInv, Walk
  <2>2. handle[h].seq <= NewMax(q)
    BY <1>3, <1>5 DEF Listed, Types, SnapshotObjects
  <2> QED
    BY <1>1, <2>1, <2>2, Zenon DEF ListedUpTo
<1>6. \A h \in Listed : handle[h].seq < max_evicted_seq => handle[h].seq < NewMax(q)
  BY <1>3 DEF Listed, Types, SnapshotObjects
<1>7. Fetched' /\ Walk'
  BY <1>1, <1>2, <1>3, <1>4, <1>5, <1>6, Zenon DEF Fetched, Walk
<1>8. ASSUME ~ahead
      PROVE  Older' \in SUBSET walked
  <2>1. ASSUME NEW s \in Older'
        PROVE  s \in walked
    <3>1. s \in snapshots' /\ (s < max_evicted_seq \/ s < NewMax(q))
      BY <1>1, <1>3, <1>4, <2>1, Zenon DEF Older
    <3>2. s \in walked \/ \E h \in Listed : s = handle[h].seq
      BY <1>1, <3>1, Zenon DEF ListedUpTo
    <3> QED
      BY <1>5, <1>6, <1>8, <3>1, <3>2, Zenon
  <2> QED
    BY <2>1, Zenon
<1>9. Few'
  <2>1. config.max_snapshots \in Nat
    BY ConfigsOK, Zenon DEF Types, IsConfig
  <2>2. IsFiniteSet({}) /\ Cardinality({}) <= config.max_snapshots
    BY <2>1, FS_EmptySet
  <2>3. ASSUME ~ahead
        PROVE  IsFiniteSet(Older') /\ Cardinality(Older') <= config.max_snapshots
    BY <1>8, <2>1, <2>3, FewerOlder, Zenon DEF ListInv, Few
  <2> QED
    BY <1>1, <1>2, <2>2, <2>3, Zenon DEF ListInv, Few
<1>10. OwnNumbers'
  BY <1>1, <1>2, Zenon DEF ListInv, OwnNumbers
<1> QED
  BY <1>7, <1>9, <1>10, Zenon DEF ListInv

\* Steps that neither fetch the list nor change it.
LEMMA KeepingList ==
    ASSUME Types, ListInv, UNCHANGED <<config, walked, snapshots, handleVars>>, ahead => ahead',
           \/ UNCHANGED max_evicted_seq
           \/ \E q \in {1, 2} : queue[q].pc = "max" /\ max_evicted_seq' = NewMax(q),
           \A q \in {1, 2} : queue'[q].pc \in {"walk", "max"} =>
               queue[q].pc = queue'[q].pc /\ NewMax(q)' = NewMax(q)
    PROVE  ListInv'
<1>1. Listed' = Listed /\ Held' = Held
  BY Zenon DEF Listed, Held
<1>2. Fetched'
  BY <1>1, Zenon DEF ListInv, Fetched
<1>3. Walk'
  BY <1>1, Zenon DEF ListInv, Walk
<1>4. Older' \in SUBSET Older
  BY Zenon DEF Older
<1>5. config.max_snapshots \in Nat
  BY ConfigsOK, Zenon DEF Types, IsConfig
<1>6. Few'
  BY <1>1, <1>4, <1>5, FewerOlder, Zenon DEF ListInv, Few
<1> QED
  BY <1>1, <1>2, <1>3, <1>6, Zenon DEF ListInv, OwnNumbers

\* A new snapshot is not older than the maximum, stored or about to be.
LEMMA HandleList ==
    ASSUME Types, MaxInv, ListInv, NEW h \in Handles, HandleStep(h)
    PROVE  ListInv'
<1>1. UNCHANGED <<config, walked, snapshots, max_evicted_seq, ahead, queue, commit_cache,
                  last_published>>
  BY HandleSteps, Zenon DEF Quiet
<1>2. \A g \in Handles : g # h => handle'[g] = handle[g]
  BY ReleasingFacts, Zenon DEF HandleStep, GetMinUncommitted, GetSnapshotImpl, ReleaseSnapshot, Types
<1>3. /\ \A q \in {1, 2} : NewMax(q)' = NewMax(q)
      /\ Older' = Older
  <2>1. \A q \in {1, 2} : NewMax(q)' = NewMax(q)
    BY <1>1, EvictedSame, Zenon
  <2> QED
    BY <1>1, <2>1, Zenon DEF Older
<1>4. config.max_snapshots \in Nat
  BY ConfigsOK, Zenon DEF Types, IsConfig
<1>5. Few'
  <2>1. CASE GetMinUncommitted(h)
    <3>1. Cardinality(Held) < config.max_snapshots /\ Held' = Held \cup {h}
      BY <1>2, <2>1, Zenon DEF GetMinUncommitted, Held, Types
    <3>2. Cardinality(Held \cup {h}) \in {Cardinality(Held), Cardinality(Held) + 1}
      BY HeldFinite, FS_AddElement, Zenon
    <3>3. Cardinality(Held') <= config.max_snapshots
      BY <1>4, <3>1, <3>2, HeldFinite
    <3> QED
      BY <1>1, <1>3, <3>3, Zenon DEF ListInv, Few
  <2>2. CASE GetSnapshotImpl(h) \/ Releasing(h) \/ ReleaseSnapshot(h)
    <3>1. Held' \in SUBSET Held
      <4>1. handle'[h].pc # "free" => handle[h].pc # "free"
        BY <2>2, ReleasingFacts, Zenon DEF GetSnapshotImpl, ReleaseSnapshot, Types, NoSnapshot
      <4> QED
        BY <1>2, <4>1, Zenon DEF Held
    <3>2. Cardinality(Held') <= Cardinality(Held) /\ Cardinality(Held') \in Nat
      BY <3>1, HeldFinite, FS_Subset, FS_CardinalityType, Zenon
    <3>3. Cardinality(Held') <= config.max_snapshots
      BY <1>4, <3>2, HeldFinite DEF ListInv, Few
    <3> QED
      BY <1>1, <1>3, <3>3, Zenon DEF ListInv, Few
  <2> QED
    BY <2>1, <2>2, Zenon DEF HandleStep
<1>6. CASE GetSnapshotImpl(h)
  <2>1. /\ handle'[h].pc = "live" /\ handle'[h].seq = last_published
        /\ Listed' = Listed \cup {h}
        /\ shared_once \subseteq shared_once'
        /\ \A g \in Listed : handle[g].seq = last_published => last_published \in shared_once'
        /\ h \notin Listed
    BY <1>2, <1>6 DEF GetSnapshotImpl, Types, SnapshotObjects, Listed
  <2>2. \A g \in Listed : handle'[g] = handle[g]
    BY <1>2, <2>1, Zenon DEF Listed
  <2>3. OwnNumbers'
    <3>1. ASSUME NEW g \in Listed', NEW k \in Listed', handle'[g].seq = handle'[k].seq, g # k
          PROVE  handle'[g].seq \in shared_once'
      <4>1. CASE g = h
        BY <2>1, <2>2, <3>1, <4>1, Zenon
      <4>2. CASE k = h
        BY <2>1, <2>2, <3>1, <4>2, Zenon
      <4>3. CASE g # h /\ k # h
        <5>1. g \in Listed /\ k \in Listed
          BY <2>1, <3>1, <4>3, Zenon
        <5> QED
          BY <2>1, <2>2, <3>1, <5>1, Zenon DEF ListInv, OwnNumbers
      <4> QED
        BY <4>1, <4>2, <4>3, Zenon
    <3> QED
      BY <3>1, Zenon DEF OwnNumbers
  <2>4. ASSUME ~ahead PROVE ~(last_published < max_evicted_seq)
    BY <2>4 DEF MaxInv, AboveMax, Types
  <2>5. ASSUME ~ahead, NEW q \in {1, 2}, queue[q].pc \in {"walk", "max"}
        PROVE  ~(last_published < NewMax(q))
    <3>1. NewMax(q) <= last_published /\ NewMax(q) \in Nat
      BY <2>5, NewMaxFacts, Zenon DEF Advancing
    <3> QED
      BY <3>1 DEF Types
  <2>6. Fetched'
    BY <1>1, <1>3, <2>1, <2>2, <2>4, <2>5, ZenonT(30) DEF ListInv, Fetched
  <2>7. Walk'
    BY <1>1, <1>3, <2>1, <2>2, <2>5, ZenonT(30) DEF ListInv, Walk
  <2> QED
    BY <1>5, <2>3, <2>6, <2>7, Zenon DEF ListInv
<1>7. CASE GetMinUncommitted(h) \/ Releasing(h) \/ ReleaseSnapshot(h)
  <2>1. h \in Listed' => h \in Listed /\ handle'[h].seq = handle[h].seq
    <3>1. CASE GetMinUncommitted(h)
      <4>1. handle'[h].pc = "min"
        BY <3>1, Zenon DEF GetMinUncommitted, Types
      <4> QED
        BY <4>1, Zenon DEF Listed
    <3>2. CASE Releasing(h)
      BY <3>2, ReleasingFacts, Zenon DEF Types, Listed
    <3>3. CASE ReleaseSnapshot(h)
      <4>1. handle'[h].pc = "free"
        BY <3>3, Zenon DEF ReleaseSnapshot, NoSnapshot, Types
      <4> QED
        BY <4>1, Zenon DEF Listed
    <3> QED
      BY <1>7, <3>1, <3>2, <3>3, Zenon
  <2>2. \A g \in Listed' : g \in Listed /\ handle'[g].seq = handle[g].seq
    BY <1>2, <2>1, Zenon DEF Listed
  <2>3. shared_once' = shared_once
    BY <1>7, ReleasingFacts, Zenon DEF GetMinUncommitted, ReleaseSnapshot, Types
  <2>4. OwnNumbers'
    BY <2>2, <2>3, Zenon DEF ListInv, OwnNumbers
  <2>5. Fetched' /\ Walk'
    BY <1>1, <1>3, <2>2, Zenon DEF ListInv, Fetched, Walk
  <2> QED
    BY <1>5, <2>4, <2>5, Zenon DEF ListInv
<1> QED
  BY <1>6, <1>7, Zenon DEF HandleStep

\* Every step keeps the rules of the list of snapshots.
LEMMA StepList ==
    ASSUME Types, Types', CallInv, MaxInv, ListInv, Grows, Next
    PROVE  ListInv'
<1>1. ASSUME Elsewhere
      PROVE  ListInv'
  <2>1. \A q \in {1, 2} : queue'[q].pc \in {"walk", "max"} =>
            queue[q].pc = queue'[q].pc /\ NewMax(q)' = NewMax(q)
    BY <1>1, EvictedSame, Zenon DEF Elsewhere
  <2> QED
    BY <1>1, <2>1, KeepingList, Zenon DEF Grows, Elsewhere
<1>2. ASSUME NEW q \in {1, 2}, StoreMaxEvicted(q)
      PROVE  ListInv'
  <2>1. /\ queue[q].pc = "max" /\ max_evicted_seq' = NewMax(q)
        /\ UNCHANGED <<config, walked, snapshots, handleVars>>
        /\ queue'[q].pc = "commit" /\ \A r \in {1, 2} : r # q => queue'[r] = queue[r]
    BY <1>2, GotoFacts, Zenon DEF StoreMaxEvicted, Committing, Types, InCommit
  <2>2. \A r \in {1, 2} : queue'[r].pc \notin {"walk", "max"}
    BY <2>1, Zenon DEF CallInv, Callers, InCommit
  <2> QED
    BY <2>1, <2>2, KeepingList, Zenon DEF Grows
<1>3. ASSUME NEW q \in {1, 2}, CheckAgainstSnapshots(q) \/ ExchangeCommitEntry(q)
      PROVE  ListInv'
  <2>1. /\ queue[q].pc \in InCommit /\ queue'[q].pc \in {"commit", "exchange"}
        /\ \A r \in {1, 2} : r # q => queue'[r] = queue[r]
    BY <1>3, GotoFacts, ExchangeFacts, Zenon
       DEF CheckAgainstSnapshots, Evicts, Committing, Types, InCommit
  <2>2. UNCHANGED <<config, walked, snapshots, handleVars, max_evicted_seq>>
    BY <1>3, Zenon DEF CheckAgainstSnapshots, ExchangeCommitEntry
  <2>3. \A r \in {1, 2} : queue'[r].pc \notin {"walk", "max"}
    BY <2>1, Zenon DEF CallInv, Callers, InCommit
  <2> QED
    BY <2>2, <2>3, KeepingList, Zenon DEF Grows
<1> QED
  BY <1>1, <1>2, <1>3, CacheCases, WalkList, UpdateList, HandleList, Zenon

-----------------------------------------------------------------------------
(* The map of old commits.                                                 *)

\* an entry of the map is of a commit that is not in the snapshot
MapOK ==
    \A e \in old_commit_map :
        e[2] \in data /\ commit[e[2]] # 0 /\ e[2] <= e[1] /\ e[1] < commit[e[2]]

\* the snapshots fit into snapshot_cache_
Fits == config.max_snapshots <= config.snapshot_cache_size

\* a live snapshot that never shared its number
Alive(h) == handle[h].pc = "live" /\ handle[h].seq \notin shared_once

\* an entry that overlaps a live snapshot is in the cache or in the map
Remembered ==
    ~ahead /\ Fits => \A h \in Handles : Alive(h) =>
        /\ \A p \in data :
               commit[p] # 0 /\ p <= handle[h].seq /\ handle[h].seq < commit[p] =>
                   InCache(p) \/ <<handle[h].seq, p>> \in old_commit_map
        /\ \A q \in {1, 2} :
               queue[q].pc = "exchange" /\ Overlaps(handle[h].seq, Evicted(q)) =>
                   <<handle[h].seq, Evicted(q)[1]>> \in old_commit_map

\* the rules of the map
MapInv == MapOK /\ Remembered

\* The rules of the map hold when the DB is opened.
LEMMA InitMap == Init => MapInv
  BY DEF Init, MapInv, MapOK, Remembered, Alive, NoSnapshot

\* When the snapshots fit, the evicted entry is compared with each that is older than
\* the maximum.
LEMMA AllAreCached ==
    ASSUME Types, ListInv, Fits, ~ahead, NEW entry, NEW s \in snapshots, s < max_evicted_seq
    PROVE  s \in Searched(entry)
<1> DEFINE T == {t \in snapshots : t <= s}
<1>1. /\ config.max_snapshots \in Nat /\ config.snapshot_cache_size \in Nat
      /\ config.max_snapshots <= config.snapshot_cache_size
  BY ConfigsOK, Zenon DEF Types, IsConfig, Fits
<1>2. \A t \in snapshots : t <= s => t < max_evicted_seq
  BY DEF Types
<1>3. T \in SUBSET Older
  BY <1>2, Zenon DEF Older
<1>4. IsFiniteSet(T) /\ Cardinality(T) <= config.max_snapshots
  BY <1>1, <1>3, FewerOlder, Zenon DEF ListInv, Few
<1>5. Cardinality(T) \in Nat
  BY <1>4, FS_CardinalityType, Zenon
<1>6. Cardinality(T) <= config.snapshot_cache_size
  BY <1>1, <1>4, <1>5
<1>7. s \in Cached
  BY <1>6, Zenon DEF Cached
<1> QED
  BY <1>7, Zenon DEF Searched

\* Steps that leave the map and the cache alone.
LEMMA KeepingMap ==
    ASSUME Types, Types', CallInv, MapInv, Grows,
           UNCHANGED <<old_commit_map, handleVars, cacheVars>>,
           \A q \in {1, 2} : queue'[q].pc = "exchange" =>
               queue[q].pc = "exchange" /\ Evicted(q)' = Evicted(q)
    PROVE  MapInv'
<1>1. \A p : InCache(p)' = InCache(p)
  BY Zenon DEF InCache, Index, Grows
<1>2. Fits' = Fits
  BY Zenon DEF Fits, Grows
<1>3. MapOK'
  BY Zenon DEF MapInv, MapOK, Grows
<1>4. \A p \in data' : commit[p] # 0 => p \in data
  BY Zenon DEF Grows
<1>5. Remembered'
  BY <1>1, <1>2, <1>4, Zenon DEF MapInv, Remembered, Alive, Overlaps, Grows
<1> QED
  BY <1>3, <1>5, Zenon DEF MapInv

\* CheckAgainstSnapshots notes the evicted entry for each snapshot it overlaps.
LEMMA CheckMap ==
    ASSUME Types, Types', CallInv, MaxInv, CacheInv, ListInv, MapInv, NEW q \in {1, 2},
           CheckAgainstSnapshots(q)
    PROVE  MapInv'
<1>1. /\ queue[q].pc = "commit" /\ queue[q].todo # {} /\ Evicted(q) # NoEntry
      /\ max_evicted_seq >= Evicted(q)[2]
      /\ UNCHANGED <<config, cacheVars, data, handleVars, ahead>>
      /\ queue'[q].pc = "exchange" /\ queue'[q].todo = queue[q].todo
      /\ \A r \in {1, 2} : r # q => queue'[r] = queue[r]
      /\ old_commit_map' = old_commit_map \cup
             {<<s, Evicted(q)[1]>> :
                  s \in {t \in Searched(Evicted(q)) : Overlaps(t, Evicted(q))}}
  BY GotoFacts, Zenon DEF CheckAgainstSnapshots, Evicts, Committing, Types, InCommit
<1>2. Evicted(q)' = Evicted(q)
  BY <1>1, EvictedSame, Zenon
<1>3. /\ Evicted(q)[1] \in data /\ Evicted(q)[2] = commit[Evicted(q)[1]]
      /\ commit[Evicted(q)[1]] # 0 /\ Evicted(q)[2] \in Nat
  BY <1>1, EvictedFacts, Zenon DEF CacheInv, Evicted, Types
<1>4. MapOK'
  <2>1. \A e \in old_commit_map' : \/ e \in old_commit_map
                                   \/ \E s : e = <<s, Evicted(q)[1]>> /\ Overlaps(s, Evicted(q))
    BY <1>1, Zenon
  <2>2. \A s : Overlaps(s, Evicted(q)) => /\ <<s, Evicted(q)[1]>>[2] <= <<s, Evicted(q)[1]>>[1]
                                          /\ <<s, Evicted(q)[1]>>[1] < Evicted(q)[2]
    BY Zenon DEF Overlaps
  <2> QED
    BY <1>1, <1>3, <2>1, <2>2 DEF MapInv, MapOK
<1>5. \A p : InCache(p)' = InCache(p)
  BY <1>1, Zenon DEF InCache, Index
<1>6. \A r \in {1, 2} : r # q => queue'[r].pc # "exchange"
  BY <1>1 DEF CallInv, Callers, InCommit
<1>7. ASSUME ~ahead, Fits, NEW h \in Handles, Alive(h),
             Overlaps(handle[h].seq, Evicted(q))
      PROVE  <<handle[h].seq, Evicted(q)[1]>> \in old_commit_map'
  <2>1. handle[h].seq \in Nat /\ handle[h].seq < Evicted(q)[2]
    BY <1>7, Zenon DEF Overlaps, Types, SnapshotObjects
  <2>2. handle[h].seq < max_evicted_seq
    BY <1>1, <1>3, <2>1 DEF Types
  <2>3. handle[h].seq \in snapshots
    BY <1>7, <2>2, Zenon DEF ListInv, Fetched, Listed, Alive
  <2>4. handle[h].seq \in Searched(Evicted(q))
    BY <1>7, <2>2, <2>3, AllAreCached, Zenon
  <2> QED
    BY <1>1, <1>7, <2>4, Zenon
<1>8. Fits' = Fits /\ old_commit_map \subseteq old_commit_map'
  BY <1>1, Zenon DEF Fits
<1>9. Remembered'
  BY <1>1, <1>2, <1>5, <1>6, <1>7, <1>8, Zenon DEF MapInv, Remembered, Alive, Overlaps
<1> QED
  BY <1>4, <1>9, Zenon DEF MapInv

\* An entry is overwritten after it was noted, and a new one overlaps nothing old.
LEMMA ExchangeMap ==
    ASSUME Types, Types', CallInv, MaxInv, MapInv, NEW q \in {1, 2}, ExchangeCommitEntry(q)
    PROVE  MapInv'
<1>1. PICK seq \in queue[q].todo :
         /\ seq = Min(queue[q].todo)
         /\ queue[q].pc \in InCommit /\ queue'[q].pc = "commit"
         /\ \A r \in {1, 2} : r # q => queue'[r] = queue[r]
         /\ seq \in data /\ seq \in Nat /\ commit[seq] = 0
         /\ commit'[seq] = queue[q].seq
         /\ \A p \in data : p # seq => commit'[p] = commit[p]
         /\ Index(seq) \in DOMAIN commit_cache
         /\ commit_cache'[Index(seq)] = <<seq, queue[q].seq>>
         /\ \A i \in DOMAIN commit_cache :
                i # Index(seq) => commit_cache'[i] = commit_cache[i]
  BY ExchangeFacts, Zenon
<1>2. UNCHANGED <<config, data, old_commit_map, handleVars, ahead>>
  BY Zenon DEF ExchangeCommitEntry
<1>3. \A p : Index(p)' = Index(p)
  BY <1>2, Zenon DEF Index
<1>4. MapOK'
  <2>1. \A e \in old_commit_map : commit'[e[2]] = commit[e[2]]
    BY <1>1, Zenon DEF MapInv, MapOK
  <2> QED
    BY <1>2, <2>1, Zenon DEF MapInv, MapOK
<1>5. \A r \in {1, 2} : queue'[r].pc # "exchange"
  BY <1>1 DEF CallInv, Callers, InCommit
<1>6. ASSUME ~ahead, Fits, NEW h \in Handles, Alive(h), NEW p \in data,
             commit'[p] # 0, p <= handle[h].seq, handle[h].seq < commit'[p]
      PROVE  InCache(p)' \/ <<handle[h].seq, p>> \in old_commit_map
  <2>1. CASE p = seq
    BY <1>1, <1>3, <2>1, Zenon DEF InCache
  <2>2. CASE p # seq
    <3>1. commit'[p] = commit[p] /\ commit[p] # 0
      BY <1>1, <1>6, <2>2, Zenon
    <3>2. CASE ~InCache(p)
      BY <1>6, <3>1, <3>2, Zenon DEF MapInv, Remembered
    <3>3. CASE InCache(p) /\ Index(p) = Index(seq)
      <4>1. Evicted(q) = <<p, commit[p]>>
        BY <1>1, <3>3, Zenon DEF InCache, Evicted
      <4>2. /\ Evicted(q) # NoEntry /\ Evicted(q)[1] = p
            /\ Overlaps(handle[h].seq, Evicted(q))
        BY <1>6, <3>1, <4>1 DEF NoEntry, Overlaps
      <4>3. queue[q].pc = "exchange"
        BY <4>2, Zenon DEF ExchangeCommitEntry, Committing
      <4> QED
        BY <1>6, <4>2, <4>3, Zenon DEF MapInv, Remembered
    <3>4. CASE InCache(p) /\ Index(p) # Index(seq)
      <4>1. Index(p) \in DOMAIN commit_cache
        BY IndexIn, Zenon DEF Types
      <4>2. commit_cache'[Index(p)] = commit_cache[Index(p)]
        BY <1>1, <3>4, <4>1, Zenon
      <4> QED
        BY <1>3, <3>1, <3>4, <4>2, Zenon DEF InCache
    <3> QED
      BY <3>2, <3>3, <3>4, Zenon
  <2> QED
    BY <2>1, <2>2, Zenon
<1>7. Fits' = Fits
  BY <1>2, Zenon DEF Fits
<1>8. Remembered'
  BY <1>2, <1>5, <1>6, <1>7, Zenon DEF Remembered, Alive
<1> QED
  BY <1>4, <1>8, Zenon DEF MapInv

\* A snapshot that is taken overlaps nothing that was evicted, and a release takes
\* only the entries of its own number from the map.
LEMMA HandleMap ==
    ASSUME Types, Types', CallInv, MaxInv, CacheInv, ListInv, MapInv, NEW h \in Handles,
           HandleStep(h)
    PROVE  MapInv'
<1>1. /\ UNCHANGED <<config, cacheVars, data, queue, ahead>>
      /\ old_commit_map' \subseteq old_commit_map
  BY HandleSteps, Zenon DEF Quiet
<1>2. \A g \in Handles : g # h => handle'[g] = handle[g]
  BY ReleasingFacts, Zenon DEF HandleStep, GetMinUncommitted, GetSnapshotImpl, ReleaseSnapshot, Types
<1>3. MapOK'
  BY <1>1, Zenon DEF MapInv, MapOK
<1>4. /\ \A p : InCache(p)' = InCache(p)
      /\ \A q \in {1, 2} : Evicted(q)' = Evicted(q)
      /\ Fits' = Fits
  BY <1>1, Zenon DEF InCache, Index, Evicted, Fits
<1>5. CASE GetSnapshotImpl(h)
  <2>1. /\ handle'[h].seq = last_published /\ old_commit_map' = old_commit_map
        /\ shared_once \subseteq shared_once'
    BY <1>5 DEF GetSnapshotImpl, Types, SnapshotObjects
  <2>2. ASSUME ~ahead, NEW p \in data, commit[p] # 0, last_published < commit[p]
        PROVE  InCache(p)
    <3>1. commit[p] \in Nat /\ max_evicted_seq <= last_published
      BY <2>2, DataNumbers, Zenon DEF CallInv, MaxInv, AboveMax
    <3>2. ~(commit[p] <= max_evicted_seq)
      BY <2>2, <3>1, SMTT(30), SMTT(45) DEF Types
    <3> QED
      BY <2>2, <3>2, Zenon DEF CacheInv
  <2>3. ASSUME ~ahead, NEW q \in {1, 2}, queue[q].pc = "exchange",
               Overlaps(last_published, Evicted(q))
        PROVE  FALSE
    <3>1. /\ Evicted(q)[2] <= max_evicted_seq /\ max_evicted_seq <= last_published
          /\ queue[q].todo # {} /\ last_published < Evicted(q)[2]
      BY <2>3, Zenon DEF MaxInv, Evicting, AboveMax, Overlaps
    <3>2. Evicted(q)[2] \in Nat
      BY <3>1, EvictedFacts, Zenon
    <3> QED
      BY <3>1, <3>2 DEF Types
  <2>4. ASSUME ~ahead, Fits, NEW g \in Handles, Alive(g)'
        PROVE  /\ \A p \in data :
                      commit[p] # 0 /\ p <= handle'[g].seq /\ handle'[g].seq < commit[p] =>
                          InCache(p) \/ <<handle'[g].seq, p>> \in old_commit_map
               /\ \A q \in {1, 2} :
                      queue[q].pc = "exchange" /\ Overlaps(handle'[g].seq, Evicted(q)) =>
                          <<handle'[g].seq, Evicted(q)[1]>> \in old_commit_map
    <3>1. CASE g = h
      BY <2>1, <2>2, <2>3, <2>4, <3>1, Zenon
    <3>2. CASE g # h
      <4>1. handle'[g] = handle[g] /\ Alive(g)
        BY <1>2, <2>1, <2>4, <3>2, Zenon DEF Alive
      <4> QED
        BY <2>4, <4>1, Zenon DEF MapInv, Remembered
    <3> QED
      BY <3>1, <3>2, Zenon
  <2>5. Remembered'
    BY <1>1, <1>4, <2>1, <2>4, Zenon DEF Remembered, Overlaps
  <2> QED
    BY <1>3, <2>5, Zenon DEF MapInv
<1>6. CASE GetMinUncommitted(h) \/ Releasing(h) \/ ReleaseSnapshot(h)
  <2>1. handle'[h].pc # "live" /\ shared_once' = shared_once
    <3>1. CASE GetMinUncommitted(h)
      BY <3>1, Zenon DEF GetMinUncommitted, Types
    <3>2. CASE Releasing(h)
      BY <3>2, ReleasingFacts, Zenon DEF Types
    <3>3. CASE ReleaseSnapshot(h)
      BY <3>3, Zenon DEF ReleaseSnapshot, NoSnapshot, Types
    <3> QED
      BY <1>6, <3>1, <3>2, <3>3, Zenon
  <2>2. ASSUME NEW g \in Handles, g # h, Alive(g), NEW p,
               <<handle[g].seq, p>> \in old_commit_map
        PROVE  <<handle[g].seq, p>> \in old_commit_map'
    <3>1. CASE GetMinUncommitted(h) \/ ReleaseSnapshot(h)
      BY <2>2, <3>1, Zenon DEF GetMinUncommitted, ReleaseSnapshot
    <3>2. CASE Releasing(h)
      <4>1. g \in Listed /\ h \in Listed
        BY <2>2, <3>2, ReleasingFacts, Zenon DEF Types, Listed, Alive
      <4>2. handle[g].seq # handle[h].seq
        BY <2>2, <4>1, Zenon DEF ListInv, OwnNumbers, Alive
      <4>3. <<handle[g].seq, p>>[1] # handle[h].seq
        BY <4>2, Zenon
      <4> QED
        BY <2>2, <3>2, <4>3, ReleasingFacts, Zenon DEF Types
    <3> QED
      BY <1>6, <3>1, <3>2, Zenon
  <2>3. ASSUME ~ahead, Fits, NEW g \in Handles, Alive(g)'
        PROVE  /\ \A p \in data :
                      commit[p] # 0 /\ p <= handle'[g].seq /\ handle'[g].seq < commit[p] =>
                          InCache(p) \/ <<handle'[g].seq, p>> \in old_commit_map'
               /\ \A q \in {1, 2} :
                      queue[q].pc = "exchange" /\ Overlaps(handle'[g].seq, Evicted(q)) =>
                          <<handle'[g].seq, Evicted(q)[1]>> \in old_commit_map'
    <3>1. g # h /\ handle'[g] = handle[g] /\ Alive(g)
      BY <1>2, <2>1, <2>3, Zenon DEF Alive
    <3> QED
      BY <2>2, <2>3, <3>1, Zenon DEF MapInv, Remembered
  <2>4. Remembered'
    BY <1>1, <1>4, <2>3, Zenon DEF Remembered, Overlaps
  <2> QED
    BY <1>3, <2>4, Zenon DEF MapInv
<1> QED
  BY <1>5, <1>6, Zenon DEF HandleStep

\* Every step keeps the rules of the map.
LEMMA StepMap ==
    ASSUME Types, Types', CallInv, MaxInv, CacheInv, ListInv, MapInv, Grows, Next
    PROVE  MapInv'
<1>1. ASSUME Elsewhere
      PROVE  MapInv'
  <2>1. \A q \in {1, 2} : queue'[q].pc = "exchange" =>
            queue[q].pc = "exchange" /\ Evicted(q)' = Evicted(q)
    BY <1>1, EvictedSame, Zenon DEF Elsewhere
  <2> QED
    BY <1>1, <2>1, KeepingMap, Zenon DEF Elsewhere
<1>2. ASSUME NEW q \in {1, 2},
             GetSnapshotListFromDB(q) \/ UpdateSnapshots(q) \/ StoreMaxEvicted(q)
      PROVE  MapInv'
  <2>1. /\ queue[q].pc \in InCommit /\ queue'[q].pc \in {"walk", "max", "commit"}
        /\ \A r \in {1, 2} : r # q => queue'[r] = queue[r]
    BY <1>2, GotoFacts, Zenon DEF GetSnapshotListFromDB, UpdateSnapshots, StoreMaxEvicted,
       Committing, Types, InCommit
  <2>2. UNCHANGED <<old_commit_map, handleVars, cacheVars, data, config>>
    BY <1>2, Zenon DEF GetSnapshotListFromDB, UpdateSnapshots, StoreMaxEvicted
  <2>3. \A r \in {1, 2} : queue'[r].pc # "exchange"
    BY <2>1, Zenon DEF CallInv, Callers, InCommit
  <2>4. (\A p : InCache(p)' = InCache(p)) /\ Fits' = Fits /\ MapOK'
    BY <2>2, Zenon DEF InCache, Index, Fits, MapInv, MapOK
  <2>5. Remembered'
    BY <2>2, <2>3, <2>4, Zenon DEF MapInv, Remembered, Alive, Grows
  <2> QED
    BY <2>4, <2>5, Zenon DEF MapInv
<1> QED
  BY <1>1, <1>2, CacheCases, CheckMap, ExchangeMap, HandleMap, Zenon

-----------------------------------------------------------------------------
(* The reader.                                                             *)

\* the state of the reader
Readers ==
    [pc : Answered \cup {"begin", "lookup", "cache", "max", "old", "find"},
     prep : Nat, snap : Nat, min_uncommitted : Nat, by : SUBSET Handles, known : BOOLEAN]

\* what the call asked for, and what it knew when it began
Reading ==
    reader.pc \notin Answered =>
        /\ reader.prep \in data
        /\ reader.known => commit[reader.prep] # 0
        /\ \A h \in reader.by :
               /\ handle[h].pc = "live" /\ handle[h].seq = reader.snap
               /\ reader.min_uncommitted \in {0, handle[h].min_uncommitted}
               /\ reader.prep <= reader.snap
        /\ reader.by = {} =>
               /\ reader.snap = kMaxSequenceNumber
               /\ \/ reader.prep \in delayed_once \/ commit[reader.prep] # 0
                  \/ reader.min_uncommitted <= reader.prep

\* it did not find the entry in the cache, and will not be able to
PastCache ==
    reader.pc \in {"max", "old", "find"} =>
        /\ reader.known => ~InCache(reader.prep)
        /\ reader.by # {} => \/ commit[reader.prep] = 0
                             \/ commit[reader.prep] <= max_evicted_seq
                             \/ commit[reader.prep] > reader.snap
        /\ reader.pc # "max" =>
               reader.prep <= max_evicted_seq /\ reader.snap <= max_evicted_seq

\* the rules of the reader
ReadInv == reader \in Readers /\ Reading /\ PastCache

\* Nobody reads when the DB is opened.
LEMMA InitRead == Init => ReadInv
  BY SMTT(30), SMTT(45) DEF Init, NotReading, ReadInv, Readers, Reading, PastCache, Answered

\* The steps that change the reader.
LEMMA ReaderCases ==
    ASSUME config \in Configs, Next
    PROVE  \/ UNCHANGED reader
           \/ \E h \in Handles, prep \in data \cup {0} : ReadInferred(h, prep)
           \/ \E h \in Handles, prep \in data : ReadAt(h, prep)
           \/ \E prep \in data : ReadLatest(prep)
           \/ ReadOn \/ FindDelayed \/ GetCommitEntry \/ LoadMaxEvicted
           \/ LoadOldCommitMapEmpty \/ FindOldCommit
  BY Zenon DEF Next, PrepareInternal, CheckPrepared, AddPrepared, FinishPrepare, PublishGroup,
     CommitInternal, CommitWithData, WriteInternal, StartCommit, MovePrepared,
     GetSnapshotListFromDB, UpdateSnapshots, StoreMaxEvicted, CheckAgainstSnapshots,
     ExchangeCommitEntry, FinishCommit, RemovePrepared, GetMinUncommitted, GetSnapshotImpl,
     HandleGoes, ReleaseSnapshotInternal, FindOldCommits, EraseOldCommits, ReleaseSnapshot

\* An entry that left the cache does not come back: the cache gains only what was not
\* committed before.
LEMMA StaysOut ==
    ASSUME Types, CallInv, CallInv', Next, NEW p \in data, commit[p] # 0, ~InCache(p)
    PROVE  ~InCache(p)'
<1>1. CASE UNCHANGED <<config, cacheVars>>
  BY <1>1, Zenon DEF InCache, Index
<1>2. ASSUME NEW q \in {1, 2}, ExchangeCommitEntry(q)
      PROVE  ~InCache(p)'
  <2>1. PICK seq \in queue[q].todo :
            /\ seq \in Nat /\ commit[seq] = 0
            /\ \A r \in data : r # seq => commit'[r] = commit[r]
            /\ commit_cache'[Index(seq)] = <<seq, queue[q].seq>>
            /\ \A i \in DOMAIN commit_cache :
                   i # Index(seq) => commit_cache'[i] = commit_cache[i]
    BY <1>2, ExchangeFacts, Zenon
  <2>2. Index(p)' = Index(p) /\ Index(p) \in DOMAIN commit_cache
    BY <1>2, IndexIn, Zenon DEF ExchangeCommitEntry, Index, Types
  <2>3. p # seq /\ commit'[p] = commit[p]
    BY <2>1, Zenon
  <2>4. CASE Index(p) = Index(seq)
    BY <2>1, <2>2, <2>3, <2>4 DEF InCache
  <2>5. CASE Index(p) # Index(seq)
    BY <2>1, <2>2, <2>3, <2>5, Zenon DEF InCache
  <2> QED
    BY <2>4, <2>5, Zenon
<1>3. (\E q \in {1, 2} : \/ GetSnapshotListFromDB(q) \/ UpdateSnapshots(q) \/ StoreMaxEvicted(q)
                         \/ CheckAgainstSnapshots(q))
          => UNCHANGED <<config, cacheVars>>
  BY Zenon DEF GetSnapshotListFromDB, UpdateSnapshots, StoreMaxEvicted, CheckAgainstSnapshots
<1>4. Quiet \/ Elsewhere => UNCHANGED <<config, cacheVars>>
  BY Zenon DEF Quiet, Elsewhere
<1> QED
  BY <1>1, <1>2, <1>3, <1>4, CacheCases, HandleSteps, Zenon

\* Steps of everybody else.
LEMMA KeepingRead ==
    ASSUME Types, Types', CallInv, CallInv', SnapInv, ReadInv, Grows, Next, UNCHANGED reader
    PROVE  ReadInv'
<1>1. ASSUME reader.pc \notin Answered, NEW h \in reader.by
      PROVE  handle'[h] = handle[h] /\ h \in Handles
  <2>1. handle[h].pc = "live" /\ h \in Handles
    BY <1>1, Zenon DEF ReadInv, Reading, Readers
  <2>2. ASSUME NEW g \in Handles, HandleStep(g)
        PROVE  g # h /\ (g # h => handle'[h] = handle[h])
    BY <1>1, <2>1, <2>2, ReleasingFacts, Zenon DEF HandleStep, GetMinUncommitted, GetSnapshotImpl,
       ReleaseSnapshot, Types
  <2>3. config \in Configs
    BY Zenon DEF Types
  <2> QED
    BY <2>1, <2>2, <2>3, HandleCases, Zenon
<1>2. Reading'
  <2>1. kMaxSequenceNumber' = kMaxSequenceNumber
    BY Zenon DEF kMaxSequenceNumber, Grows
  <2>2. ASSUME reader.pc \notin Answered
        PROVE  /\ reader.prep \in data'
               /\ commit[reader.prep] # 0 => commit'[reader.prep] # 0
               /\ reader.prep \in delayed_once => reader.prep \in delayed_once'
    BY <2>2, Zenon DEF ReadInv, Reading, Grows
  <2>3. ASSUME reader.pc \notin Answered, NEW h \in reader.by
        PROVE  /\ handle'[h].pc = "live" /\ handle'[h].seq = reader.snap
               /\ reader.min_uncommitted \in {0, handle'[h].min_uncommitted}
               /\ reader.prep <= reader.snap
    BY <1>1, <2>3, Zenon DEF ReadInv, Reading
  <2>4. reader.pc \notin Answered /\ reader.by = {} =>
               /\ reader.snap = kMaxSequenceNumber
               /\ \/ reader.prep \in delayed_once \/ commit[reader.prep] # 0
                  \/ reader.min_uncommitted <= reader.prep
    BY Zenon DEF ReadInv, Reading
  <2>5. reader.pc \notin Answered /\ reader.known => commit[reader.prep] # 0
    BY Zenon DEF ReadInv, Reading
  <2> QED
    BY <2>1, <2>2, <2>3, <2>4, <2>5, Zenon DEF Reading
<1>3. PastCache'
  <2>1. SUFFICES ASSUME reader.pc \in {"max", "old", "find"}
                 PROVE  /\ reader.known => ~InCache(reader.prep)'
                        /\ reader.by # {} => \/ commit'[reader.prep] = 0
                                             \/ commit'[reader.prep] <= max_evicted_seq'
                                             \/ commit'[reader.prep] > reader.snap
                        /\ reader.pc # "max" => /\ reader.prep <= max_evicted_seq'
                                                /\ reader.snap <= max_evicted_seq'
    BY Zenon DEF PastCache, InCache, Index
  <2>2. /\ reader.pc \notin Answered /\ reader.prep \in data /\ reader.prep \in Nat
        /\ reader.snap \in Nat /\ max_evicted_seq \in Nat /\ max_evicted_seq' \in Nat
        /\ max_evicted_seq <= max_evicted_seq'
        /\ reader.known => commit[reader.prep] # 0
    BY <2>1, Zenon DEF ReadInv, Reading, Readers, Answered, Types, Grows
  <2>3. reader.known => ~InCache(reader.prep)'
    BY <2>1, <2>2, StaysOut, Zenon DEF ReadInv, PastCache
  <2>4. ASSUME reader.by # {}
        PROVE  \/ commit'[reader.prep] = 0
               \/ commit'[reader.prep] <= max_evicted_seq'
               \/ commit'[reader.prep] > reader.snap
    <3>1. CASE commit'[reader.prep] = commit[reader.prep]
      <4>1. commit[reader.prep] \in Nat
        BY <2>2, DataNumbers, Zenon DEF CallInv
      <4> QED
        BY <2>1, <2>2, <2>4, <3>1, <4>1, SMTT(30), SMTT(45) DEF ReadInv, PastCache
    <3>2. CASE commit'[reader.prep] # commit[reader.prep]
      <4>1. commit'[reader.prep] > last_published
        BY <2>2, <3>2, Zenon DEF Grows
      <4>2. PICK h \in reader.by : TRUE
        BY <2>4, Zenon
      <4>3. handle[h].pc = "live" /\ handle[h].seq = reader.snap /\ h \in Handles
        BY <2>2, <4>2, Zenon DEF ReadInv, Reading, Readers
      <4>4. reader.snap <= last_published
        BY <4>3, Zenon DEF SnapInv, MinsOK, Listed
      <4>5. commit'[reader.prep] \in Nat /\ last_published \in Nat
        BY <2>2, DataNumbers, Zenon DEF CallInv, Bounds, Types, Grows
      <4> QED
        BY <2>2, <4>1, <4>4, <4>5, SMTT(30), SMTT(45)
    <3> QED
      BY <3>1, <3>2, Zenon
  <2>5. reader.pc # "max" => reader.prep <= max_evicted_seq' /\ reader.snap <= max_evicted_seq'
    BY <2>1, <2>2 DEF ReadInv, PastCache
  <2> QED
    BY <2>3, <2>4, <2>5, Zenon
<1> QED
  BY <1>2, <1>3, Zenon DEF ReadInv

\* What a step of the reader does to the reader.
LEMMA GoesFacts ==
    ASSUME NEW r \in Readers,
           NEW pc \in Answered \cup {"begin", "lookup", "cache", "max", "old", "find"},
           ReaderGoes(r, pc)
    PROVE  /\ reader' \in Readers /\ reader'.pc = pc
           /\ pc \notin Answered =>
                  /\ reader'.prep = r.prep /\ reader'.snap = r.snap
                  /\ reader'.min_uncommitted = r.min_uncommitted
                  /\ reader'.by = r.by /\ reader'.known = r.known
           /\ ReaderStep
<1>1. ReaderStep
  BY Zenon DEF ReaderGoes, ReaderStep, Quiet
<1>2. CASE pc \in Answered
  BY <1>1, <1>2, Zenon DEF ReaderGoes, NotReading, Readers
<1>3. CASE pc \notin Answered
  BY <1>1, <1>3, Zenon DEF ReaderGoes, Readers
<1> QED
  BY <1>2, <1>3, Zenon

\* The state the reader leaves alone.
LEMMA ReaderFrame ==
    ASSUME ReaderStep
    PROVE  /\ UNCHANGED <<config, data, commit, handle, delayed_once, max_evicted_seq>>
           /\ kMaxSequenceNumber' = kMaxSequenceNumber
           /\ \A p : InCache(p)' <=> commit_cache[Index(p)] = <<p, commit[p]>>
  BY Zenon DEF ReaderStep, Quiet, kMaxSequenceNumber, InCache, Index

\* A call that has answered has no rules to keep.
LEMMA AnsweredRead ==
    ASSUME reader' \in Readers, reader'.pc \in Answered
    PROVE  ReadInv'
  BY Zenon DEF ReadInv, Reading, PastCache, Answered

\* A call that goes on asks for what it asked before.
LEMMA GoingOnRead ==
    ASSUME ReadInv, reader.pc \notin Answered,
           NEW pc \in {"lookup", "cache", "max", "old", "find"}, ReaderGoes(reader, pc),
           pc \in {"max", "old", "find"} =>
               /\ reader.known => ~InCache(reader.prep)
               /\ reader.by # {} => \/ commit[reader.prep] = 0
                                    \/ commit[reader.prep] <= max_evicted_seq
                                    \/ commit[reader.prep] > reader.snap
               /\ pc # "max" =>
                      reader.prep <= max_evicted_seq /\ reader.snap <= max_evicted_seq
    PROVE  ReadInv'
<1>1. /\ reader' \in Readers /\ reader'.pc = pc
      /\ reader'.prep = reader.prep /\ reader'.snap = reader.snap
      /\ reader'.min_uncommitted = reader.min_uncommitted
      /\ reader'.by = reader.by /\ reader'.known = reader.known
      /\ ReaderStep
  BY GoesFacts, Zenon DEF ReadInv, Answered
<1>2. /\ UNCHANGED <<data, commit, handle, delayed_once, max_evicted_seq>>
      /\ kMaxSequenceNumber' = kMaxSequenceNumber
      /\ \A p : InCache(p)' <=> InCache(p)
  BY <1>1, ReaderFrame, Zenon DEF InCache
<1>3. Reading'
  BY <1>1, <1>2, Zenon DEF ReadInv, Reading
<1>4. UNCHANGED <<config, commit_cache>>
  BY <1>1, Zenon DEF ReaderStep, Quiet
<1>5. PastCache'
  <2>1. pc \in {"max", "old", "find"} /\ reader'.known =>
            commit_cache'[reader'.prep % config'.commit_cache_size]
                # <<reader'.prep, commit'[reader'.prep]>>
    BY <1>1, <1>2, <1>4, Zenon DEF InCache, Index
  <2>2. reader'.pc # "max" /\ pc \in {"max", "old", "find"} =>
            reader'.prep <= max_evicted_seq' /\ reader'.snap <= max_evicted_seq'
    BY <1>1, <1>2, Zenon
  <2>3. reader'.by # {} /\ pc \in {"max", "old", "find"} =>
            \/ commit'[reader'.prep] = 0
            \/ commit'[reader'.prep] <= max_evicted_seq'
            \/ commit'[reader'.prep] > reader'.snap
    BY <1>1, <1>2, Zenon
  <2> QED
    BY <1>1, <2>1, <2>2, <2>3, Zenon DEF PastCache, InCache, Index
<1> QED
  BY <1>1, <1>3, <1>5, Zenon DEF ReadInv

\* A call for a snapshot begins with the number and min_uncommitted_ of the snapshot.
LEMMA ReadAtRead ==
    ASSUME Types, CallInv, NEW h \in Handles, NEW prep \in data, ReadAt(h, prep)
    PROVE  ReadInv'
<1>1. PICK min \in {0, handle[h].min_uncommitted} :
          LoadDelayedEmpty([pc |-> "begin", prep |-> prep, snap |-> handle[h].seq,
               min_uncommitted |-> min, by |-> {h}, known |-> commit[prep] # 0])
  BY Zenon DEF ReadAt
<1> DEFINE r == [pc |-> "begin", prep |-> prep, snap |-> handle[h].seq,
                 min_uncommitted |-> min, by |-> {h}, known |-> commit[prep] # 0]
<1>2. PICK pc \in {"cache", "lookup"} : ReaderGoes(r, pc)
  BY <1>1, Zenon DEF LoadDelayedEmpty
<1>3. /\ handle[h].seq \in Nat /\ handle[h].min_uncommitted \in Nat /\ prep \in Nat
      /\ handle[h].pc = "live" /\ prep <= handle[h].seq
  BY Zenon DEF ReadAt, Types, SnapshotObjects
<1>4. r \in Readers
  BY <1>3 DEF Readers
<1>5. /\ r.prep = prep /\ r.snap = handle[h].seq /\ r.min_uncommitted = min /\ r.by = {h}
      /\ r.known = (commit[prep] # 0)
  BY Zenon
<1> HIDE DEF r
<1>6. /\ reader' \in Readers /\ reader'.pc = pc
      /\ reader'.prep = prep /\ reader'.snap = handle[h].seq
      /\ reader'.min_uncommitted = min
      /\ reader'.by = {h} /\ reader'.known = (commit[prep] # 0)
      /\ ReaderStep
  BY <1>2, <1>4, <1>5, GoesFacts, Zenon DEF Answered
<1>7. UNCHANGED <<data, commit, handle>>
  BY <1>6, ReaderFrame, Zenon
<1>8. Reading'
  BY <1>3, <1>6, <1>7, Zenon DEF Reading
<1>9. PastCache'
  BY <1>6, Zenon DEF PastCache
<1> QED
  BY <1>6, <1>8, <1>9, Zenon DEF ReadInv

\* A call for the latest data begins with the smallest number that is not committed.
LEMMA ReadLatestRead ==
    ASSUME Types, CallInv, HeapInv, NEW prep \in data, ReadLatest(prep)
    PROVE  ReadInv'
<1> DEFINE r == [pc |-> "begin", prep |-> prep, snap |-> kMaxSequenceNumber,
                 min_uncommitted |-> SmallestUnCommittedSeq, by |-> {},
                 known |-> commit[prep] # 0]
<1>1. ReaderGoes(r, "begin")
  BY Zenon DEF ReadLatest
<1>2. /\ SmallestUnCommittedSeq \in Nat /\ prep \in Nat /\ kMaxSequenceNumber \in Nat
  BY SmallestIsSafe, ConfigsOK, SMTT(30), SMTT(45) DEF Types, IsConfig, kMaxSequenceNumber
<1>3. r \in Readers
  BY <1>2, Zenon DEF Readers
<1>4. /\ r.prep = prep /\ r.snap = kMaxSequenceNumber /\ r.by = {}
      /\ r.min_uncommitted = SmallestUnCommittedSeq /\ r.known = (commit[prep] # 0)
  BY Zenon
<1>5. PICK min, max : min = SmallestUnCommittedSeq /\ max = kMaxSequenceNumber
  BY Zenon
<1> HIDE DEF r
<1>6. /\ reader' \in Readers /\ reader'.pc = "begin"
      /\ reader'.prep = prep /\ reader'.snap = max
      /\ reader'.min_uncommitted = min
      /\ reader'.by = {} /\ reader'.known = (commit[prep] # 0)
      /\ ReaderStep
  BY <1>1, <1>3, <1>4, <1>5, GoesFacts, SMTT(30), SMTT(45) DEF Answered
<1>7. /\ UNCHANGED <<data, commit, handle, delayed_once>> /\ kMaxSequenceNumber' = max
  BY <1>5, <1>6, ReaderFrame, Zenon
<1>8. prep \in delayed_once \/ commit[prep] # 0 \/ min <= prep
  BY <1>5, SmallestIsSafe, Zenon DEF Published
<1>9. Reading'
  BY <1>6, <1>7, <1>8, Zenon DEF Reading
<1>10. PastCache'
  BY <1>6, Zenon DEF PastCache
<1> QED
  BY <1>6, <1>9, <1>10, Zenon DEF ReadInv

\* Every step keeps the rules of the reader.
LEMMA StepRead ==
    ASSUME Types, Types', CallInv, CallInv', HeapInv, SnapInv, CacheInv, ReadInv, Grows, Next
    PROVE  ReadInv'
<1>1. CASE UNCHANGED reader
  BY <1>1, KeepingRead, Zenon
<1>2. ASSUME NEW pc \in Answered, ReaderGoes(reader, pc)
      PROVE  ReadInv'
  BY <1>2, GoesFacts, AnsweredRead, Zenon DEF ReadInv
<1>3. CASE ReadOn
  <2>1. PICK pc \in {"lookup", "cache"} : ReaderGoes(reader, pc)
    BY <1>3, Zenon DEF ReadOn, LoadDelayedEmpty
  <2>2. reader.pc \notin Answered
    BY <1>3, Zenon DEF ReadOn, Answered
  <2> QED
    BY <2>1, <2>2, GoingOnRead, Zenon
<1>4. CASE FindDelayed
  <2>1. PICK pc \in {"false", "cache"} : ReaderGoes(reader, pc)
    BY <1>4, Zenon DEF FindDelayed
  <2>2. reader.pc \notin Answered
    BY <1>4, Zenon DEF FindDelayed, Answered
  <2>3. CASE pc = "cache"
    BY <2>1, <2>2, <2>3, GoingOnRead, Zenon
  <2>4. CASE pc = "false"
    BY <1>2, <2>1, <2>4, Zenon DEF Answered
  <2> QED
    BY <2>3, <2>4, Zenon
<1>5. CASE GetCommitEntry
  <2>1. reader.pc \notin Answered
    BY <1>5, Zenon DEF GetCommitEntry, Answered
  <2>2. PICK pc \in {"true", "false", "max"} :
            /\ ReaderGoes(reader, pc)
            /\ pc = "max" => commit_cache[Index(reader.prep)][1] # reader.prep
    BY <1>5, Zenon DEF GetCommitEntry, Answer
  <2>3. CASE pc = "max"
    <3>1. ~InCache(reader.prep)
      BY <2>2, <2>3 DEF InCache
    <3>2. commit[reader.prep] = 0 \/ commit[reader.prep] <= max_evicted_seq
      BY <2>1, <3>1, Zenon DEF ReadInv, Reading, CacheInv
    <3> QED
      BY <2>1, <2>2, <2>3, <3>1, <3>2, GoingOnRead, Zenon
  <2>4. CASE pc \in Answered
    BY <1>2, <2>2, <2>4, Zenon
  <2> QED
    BY <2>3, <2>4, Zenon DEF Answered
<1>6. CASE LoadMaxEvicted
  <2>1. reader.pc = "max" /\ reader.pc \notin Answered
    BY <1>6, Zenon DEF LoadMaxEvicted, Answered
  <2>2. PICK pc \in {"true", "false", "old"} :
            /\ ReaderGoes(reader, pc)
            /\ pc = "old" => ~(max_evicted_seq < reader.prep) /\ ~(max_evicted_seq < reader.snap)
    BY <1>6, Zenon DEF LoadMaxEvicted
  <2>3. CASE pc = "old"
    <3>1. reader.prep <= max_evicted_seq /\ reader.snap <= max_evicted_seq
      BY <2>2, <2>3 DEF ReadInv, Readers, Types
    <3>2. /\ reader.known => ~InCache(reader.prep)
          /\ reader.by # {} => \/ commit[reader.prep] = 0
                               \/ commit[reader.prep] <= max_evicted_seq
                               \/ commit[reader.prep] > reader.snap
      BY <2>1, Zenon DEF ReadInv, PastCache
    <3> QED
      BY <2>1, <2>2, <2>3, <3>1, <3>2, GoingOnRead, Zenon
  <2>4. CASE pc \in Answered
    BY <1>2, <2>2, <2>4, Zenon
  <2> QED
    BY <2>3, <2>4, Zenon DEF Answered
<1>7. CASE LoadOldCommitMapEmpty
  <2>1. reader.pc = "old" /\ reader.pc \notin Answered
    BY <1>7, Zenon DEF LoadOldCommitMapEmpty, Answered
  <2>2. PICK pc \in {"true", "find"} : ReaderGoes(reader, pc)
    BY <1>7, Zenon DEF LoadOldCommitMapEmpty
  <2>3. CASE pc = "find"
    BY <2>1, <2>2, <2>3, GoingOnRead, Zenon DEF ReadInv, PastCache
  <2>4. CASE pc \in Answered
    BY <1>2, <2>2, <2>4, Zenon
  <2> QED
    BY <2>3, <2>4, Zenon DEF Answered
<1>8. CASE FindOldCommit \/ \E h \in Handles, prep \in data \cup {0} : ReadInferred(h, prep)
  BY <1>2, <1>8, Zenon DEF FindOldCommit, ReadInferred, Answer, Answered
<1>9. config \in Configs
  BY Zenon DEF Types
<1> QED
  BY <1>1, <1>3, <1>4, <1>5, <1>6, <1>7, <1>8, <1>9, ReaderCases, ReadAtRead,
       ReadLatestRead, Zenon

-----------------------------------------------------------------------------
(* The answer.                                                             *)

\* What the reader knows when it answers.
LEMMA ReaderKnows ==
    ASSUME Types, CallInv, ReadInv, reader.pc \notin Answered
    PROVE  /\ reader.prep \in data /\ reader.prep \in Nat /\ reader.prep >= 1
           /\ reader.snap \in Nat /\ reader.min_uncommitted \in Nat
           /\ commit[reader.prep] \in Nat
           /\ commit[reader.prep] # 0 => reader.prep <= commit[reader.prep]
           /\ reader.known => commit[reader.prep] # 0
           /\ reader.by = {} => /\ commit[reader.prep] <= reader.snap
                                /\ last_allocated < reader.snap
           /\ reader.by # {} => \E h \in Handles :
                  /\ handle[h].pc = "live" /\ handle[h].seq = reader.snap
                  /\ reader.min_uncommitted \in {0, handle[h].min_uncommitted}
                  /\ reader.prep <= reader.snap
<1>1. reader \in Readers /\ Reading
  BY Zenon DEF ReadInv
<1>2. /\ reader.prep \in data /\ reader.prep \in Nat /\ reader.snap \in Nat
      /\ reader.min_uncommitted \in Nat
      /\ reader.known => commit[reader.prep] # 0
  BY <1>1, Zenon DEF Readers, Reading
<1>3. reader.prep \in 1 .. config.max_seq /\ commit[reader.prep] \in Nat
  BY <1>2, DataNumbers, Zenon DEF CallInv
<1>4. commit[reader.prep] # 0 =>
          reader.prep <= commit[reader.prep] /\ commit[reader.prep] <= last_allocated
  BY <1>3, Zenon DEF CallInv, Uncommitted
<1>5. /\ last_allocated \in Nat /\ config.max_seq \in Nat /\ last_allocated <= config.max_seq
  BY ConfigsOK, Zenon DEF Types, IsConfig, CallInv, Bounds
<1>6. ASSUME reader.by = {}
      PROVE  commit[reader.prep] <= reader.snap /\ last_allocated < reader.snap
  <2>1. reader.snap = config.max_seq + 1
    BY <1>1, <1>6, Zenon DEF Reading, kMaxSequenceNumber
  <2> QED
    BY <1>3, <1>4, <1>5, <2>1
<1>7. ASSUME reader.by # {}
      PROVE  \E h \in Handles :
                  /\ handle[h].pc = "live" /\ handle[h].seq = reader.snap
                  /\ reader.min_uncommitted \in {0, handle[h].min_uncommitted}
                  /\ reader.prep <= reader.snap
  <2>1. PICK h \in reader.by : TRUE
    BY <1>7, Zenon
  <2> QED
    BY <1>1, <2>1, Zenon DEF Readers, Reading
<1>8. reader.prep >= 1
  BY <1>3, <1>5
<1> QED
  BY <1>2, <1>3, <1>4, <1>6, <1>7, <1>8, SMTT(30), SMTT(45)

\* The answer from min_uncommitted_ and the cache.
LEMMA CacheAnswer ==
    ASSUME Types, CallInv, SnapInv, CacheInv, ReadInv, OnTime, GetCommitEntry
    PROVE  Right
<1> DEFINE p == reader.prep
           cached == commit_cache[Index(p)]
<1>1. reader.pc = "cache" /\ reader.pc \notin Answered
  BY Zenon DEF GetCommitEntry, Answered
<1>2. /\ p \in data /\ p \in Nat /\ p >= 1 /\ reader.snap \in Nat /\ commit[p] \in Nat
      /\ reader.min_uncommitted \in Nat
      /\ reader.by = {} => commit[p] <= reader.snap
      /\ reader.by # {} => \E h \in Handles :
             /\ handle[h].pc = "live" /\ handle[h].seq = reader.snap
             /\ reader.min_uncommitted \in {0, handle[h].min_uncommitted}
  BY <1>1, ReaderKnows, Zenon
<1>3. p \notin delayed_once
  BY Zenon DEF OnTime
<1>4. PICK pc \in {"true", "false", "max"} :
         /\ ReaderGoes(reader, pc)
         /\ \/ p < reader.min_uncommitted /\ pc = "true"
            \/ cached[1] = p /\ pc = Answer(cached[2] <= reader.snap)
            \/ pc = "max"
  BY Zenon DEF GetCommitEntry, Answer
<1>5. reader'.pc = pc
  BY <1>4, GoesFacts, Zenon DEF ReadInv, Answered
<1>6. CASE p < reader.min_uncommitted /\ pc = "true"
  <2>1. commit[p] \in 1 .. reader.snap
    <3>1. CASE reader.by = {}
      <4>1. commit[p] # 0
        BY <1>1, <1>2, <1>3, <1>6, <3>1, SMTT(30), SMTT(45) DEF ReadInv, Reading
      <4> QED
        BY <1>2, <3>1, <4>1, SMTT(30), SMTT(45)
    <3>2. CASE reader.by # {}
      <4>1. PICK h \in Handles : /\ handle[h].pc = "live" /\ handle[h].seq = reader.snap
                                 /\ reader.min_uncommitted \in {0, handle[h].min_uncommitted}
        BY <1>2, <3>2, Zenon
      <4>2. ~(reader.min_uncommitted <= p) /\ reader.min_uncommitted # 0
        BY <1>2, <1>6
      <4> QED
        BY <1>2, <1>3, <4>1, <4>2, Zenon DEF SnapInv, SnapshotMinIsSafe, Listed
    <3> QED
      BY <3>1, <3>2, Zenon
  <2> QED
    BY <1>5, <1>6, <2>1, Zenon DEF Right, Returns, Answer
<1>7. CASE cached[1] = p /\ pc = Answer(cached[2] <= reader.snap)
  <2>1. Index(p) \in DOMAIN commit_cache
    BY <1>2, IndexIn, Zenon DEF Types
  <2>2. cached # NoEntry
    BY <1>2, <1>7 DEF NoEntry
  <2>3. cached[2] = commit[p] /\ commit[p] # 0
    BY <1>7, <2>1, <2>2, Zenon DEF CacheInv
  <2>4. CASE commit[p] <= reader.snap
    BY <1>2, <1>5, <1>7, <2>3, <2>4, SMTT(30), SMTT(45) DEF Right, Returns, Answer
  <2>5. CASE ~(commit[p] <= reader.snap)
    BY <1>2, <1>5, <1>7, <2>3, <2>5, SMTT(30), SMTT(45) DEF Right, Returns, Answer
  <2> QED
    BY <2>4, <2>5, Zenon
<1>8. CASE pc = "max"
  BY <1>5, <1>8, Zenon DEF Right, Returns, Answer
<1> QED
  BY <1>4, <1>6, <1>7, <1>8, Zenon

\* The answer from the maximum.
LEMMA MaxAnswer ==
    ASSUME Types, CallInv, CacheInv, ReadInv, OnTime, LoadMaxEvicted
    PROVE  Right
<1> DEFINE p == reader.prep
<1>1. reader.pc = "max" /\ reader.pc \notin Answered
  BY Zenon DEF LoadMaxEvicted, Answered
<1>2. /\ p \in data /\ p \in Nat /\ reader.snap \in Nat /\ commit[p] \in Nat
      /\ commit[p] # 0 => p <= commit[p]
      /\ reader.known => commit[p] # 0
      /\ max_evicted_seq \in Nat
  BY <1>1, ReaderKnows, Zenon DEF Types
<1>3. /\ reader.known => ~InCache(p)
      /\ reader.by # {} => commit[p] = 0 \/ commit[p] <= max_evicted_seq \/ commit[p] > reader.snap
  BY <1>1, Zenon DEF ReadInv, PastCache
<1>4. PICK pc \in {"true", "false", "old"} :
         /\ ReaderGoes(reader, pc)
         /\ pc = "false" => max_evicted_seq < p
         /\ pc = "true" => ~(max_evicted_seq < p) /\ max_evicted_seq < reader.snap
  BY Zenon DEF LoadMaxEvicted
<1>5. reader'.pc = pc
  BY <1>4, GoesFacts, Zenon DEF ReadInv, Answered
<1>6. commit[p] # 0 /\ ~InCache(p) => commit[p] <= max_evicted_seq
  BY <1>2, Zenon DEF CacheInv
<1>7. CASE pc = "false"
  <2>1. ~(commit[p] # 0 /\ commit[p] <= max_evicted_seq)
    BY <1>2, <1>4, <1>7
  <2>2. ~reader.known
    BY <1>2, <1>3, <1>6, <2>1, Zenon
  <2>3. reader.by # {} => commit[p] \notin 1 .. reader.snap
    BY <1>2, <1>3, <2>1
  <2> QED
    BY <1>5, <1>7, <2>2, <2>3, Zenon DEF Right, Returns, Answer
<1>8. CASE pc = "true"
  <2>1. reader.known
    BY <1>4, <1>8, Zenon DEF OnTime
  <2>2. commit[p] # 0 /\ commit[p] <= max_evicted_seq /\ max_evicted_seq < reader.snap
    BY <1>2, <1>3, <1>4, <1>6, <1>8, <2>1, SMTT(30), SMTT(45)
  <2>3. commit[p] \in 1 .. reader.snap
    BY <1>2, <2>2
  <2> QED
    BY <1>5, <1>8, <2>3, Zenon DEF Right, Returns, Answer
<1>9. CASE pc = "old"
  BY <1>5, <1>9, Zenon DEF Right, Returns, Answer
<1> QED
  BY <1>7, <1>8, <1>9, Zenon

\* The answer from the map of old commits.
LEMMA MapAnswer ==
    ASSUME Types, CallInv, MaxInv, CacheInv, MapInv, ReadInv, OnTime,
           LoadOldCommitMapEmpty \/ FindOldCommit
    PROVE  Right
<1> DEFINE p == reader.prep
<1>1. reader.pc \in {"old", "find"} /\ reader.pc \notin Answered
  BY Zenon DEF LoadOldCommitMapEmpty, FindOldCommit, Answered
<1>2. /\ p \in data /\ p \in Nat /\ reader.snap \in Nat /\ commit[p] \in Nat
      /\ reader.known => commit[p] # 0
      /\ reader.by = {} => last_allocated < reader.snap
      /\ reader.by # {} => \E h \in Handles :
             handle[h].pc = "live" /\ handle[h].seq = reader.snap /\ p <= reader.snap
      /\ max_evicted_seq \in Nat
  BY <1>1, ReaderKnows, Zenon DEF Types
<1>3. /\ reader.known => ~InCache(p)
      /\ p <= max_evicted_seq /\ reader.snap <= max_evicted_seq
  BY <1>1, Zenon DEF ReadInv, PastCache
<1>4. reader.known /\ ~ahead /\ Fits /\ reader.snap \notin shared_once
  BY <1>2, <1>3 DEF OnTime, Fits
<1>5. commit[p] # 0 /\ ~InCache(p)
  BY <1>2, <1>3, <1>4, Zenon
<1>6. reader.by # {}
  <2>1. max_evicted_seq <= last_allocated /\ last_allocated \in Nat
    BY <1>4 DEF MaxInv, AboveMax, CallInv, Bounds, Types
  <2> QED
    BY <1>2, <1>3, <2>1, SMTT(30), SMTT(45)
<1>7. commit[p] > reader.snap => <<reader.snap, p>> \in old_commit_map
  <2>1. PICK h \in Handles :
            handle[h].pc = "live" /\ handle[h].seq = reader.snap /\ p <= reader.snap
    BY <1>2, <1>6, Zenon
  <2> QED
    BY <1>2, <1>4, <1>5, <2>1, Zenon DEF MapInv, Remembered, Alive
<1>8. <<reader.snap, p>> \in old_commit_map => commit[p] > reader.snap
  <2>1. ASSUME <<reader.snap, p>> \in old_commit_map
        PROVE  <<reader.snap, p>>[1] < commit[<<reader.snap, p>>[2]]
    BY <2>1, Zenon DEF MapInv, MapOK
  <2> QED
    BY <1>2, <2>1, Zenon
<1>9. commit[p] \in 1 .. reader.snap <=> ~(commit[p] > reader.snap)
  BY <1>2, <1>5
<1>10. PICK pc \in {"true", "false", "find"} :
          /\ ReaderGoes(reader, pc)
          /\ pc = "true" => <<reader.snap, p>> \notin old_commit_map
          /\ pc = "false" => <<reader.snap, p>> \in old_commit_map
  BY Zenon DEF LoadOldCommitMapEmpty, FindOldCommit, Answer
<1>11. reader'.pc = pc
  BY <1>10, GoesFacts, Zenon DEF ReadInv, Answered
<1> QED
  BY <1>6, <1>7, <1>8, <1>9, <1>10, <1>11, SMTT(30), SMTT(45) DEF Right, Returns, Answer

\* Whatever step answers, the answer is right.
LEMMA StepRight ==
    ASSUME Types, CallInv, MaxInv, SnapInv, CacheInv, MapInv, ReadInv, Next, OnTime
    PROVE  Right
<1>1. CASE UNCHANGED reader
  BY <1>1, Zenon DEF Right, Returns, Answer, Answered
<1>2. CASE reader.pc \in Answered
  BY <1>2, Zenon DEF Right, Returns
<1>3. CASE ReadOn
  <2>1. PICK pc \in {"lookup", "cache"} : ReaderGoes(reader, pc)
    BY <1>3, Zenon DEF ReadOn, LoadDelayedEmpty
  <2>2. reader'.pc = pc
    BY <2>1, GoesFacts, Zenon DEF ReadInv, Answered
  <2> QED
    BY <2>2, Zenon DEF Right, Returns, Answer
<1>4. CASE FindDelayed
  <2>1. ReaderGoes(reader, "cache")
    BY <1>4, Zenon DEF FindDelayed, OnTime, Types
  <2>2. reader'.pc = "cache"
    BY <2>1, GoesFacts, Zenon DEF ReadInv, Answered
  <2> QED
    BY <2>2, Zenon DEF Right, Returns, Answer
<1>5. (\/ \E h \in Handles, prep \in data \cup {0} : ReadInferred(h, prep)
       \/ \E h \in Handles, prep \in data : ReadAt(h, prep)
       \/ \E prep \in data : ReadLatest(prep))
          => reader.pc \in Answered
  BY Zenon DEF ReadInferred, ReadAt, ReadLatest
<1>6. config \in Configs
  BY Zenon DEF Types
<1> QED
  BY <1>1, <1>2, <1>3, <1>4, <1>5, <1>6, ReaderCases, CacheAnswer, MaxAnswer,
       MapAnswer, Zenon

-----------------------------------------------------------------------------
(* The theorems.                                                           *)

\* the inductive invariant
Inv ==
    /\ Types /\ CallInv /\ HeapInv /\ MaxInv /\ SnapInv /\ CacheInv /\ ListInv /\ MapInv
    /\ ReadInv

\* Every reachable state satisfies the invariant.
THEOREM CommitCacheInvariant == Spec => []Inv
<1>1. Init => Inv
  BY InitTypes, InitCalls, InitHeap, InitMax, InitSnap, InitCache, InitList, InitMap, InitRead,
       SMTT(30), SMTT(45)
     DEF Inv
<1>2. Inv /\ Next => Inv'
  <2> SUFFICES ASSUME Inv, Next PROVE Inv'
    BY Zenon
  <2>1. Types /\ CallInv /\ HeapInv /\ MaxInv /\ SnapInv /\ CacheInv /\ ListInv /\ MapInv
        /\ ReadInv
    BY Zenon DEF Inv
  <2>2. Types' /\ CallInv'
    BY <2>1, StepTypes, StepCalls, Zenon
  <2>3. HeapInv' /\ MaxInv' /\ Grows
    BY <2>1, <2>2, StepHeap, StepMax, StepGrows, Zenon
  <2>4. SnapInv' /\ CacheInv' /\ ListInv'
    BY <2>1, <2>2, <2>3, StepSnap, StepCache, StepList, Zenon
  <2>5. MapInv' /\ ReadInv'
    BY <2>1, <2>2, <2>3, StepMap, StepRead, Zenon
  <2> QED
    BY <2>2, <2>3, <2>4, <2>5, Zenon DEF Inv
<1>3. Inv /\ UNCHANGED vars => Inv'
  <2> SUFFICES ASSUME Inv, UNCHANGED vars PROVE Inv'
    BY Zenon
  <2>1. Types' /\ CallInv'
    <3>1. Types'
      BY ZenonT(30) DEF vars, Inv, Types
    <3>2. Bounds' /\ Callers' /\ Groups' /\ Prepares' /\ Commits'
      BY ZenonT(30) DEF vars, Inv, CallInv, Bounds, Callers, Groups, Prepares, Commits, Ours,
         Free
    <3>3. Uncommitted' /\ Disjoint' /\ Returned' /\ Recent'
      BY ZenonT(30) DEF vars, Inv, CallInv, Uncommitted, Disjoint, Returned, Recent, Ours
    <3> QED
      BY <3>1, <3>2, <3>3, Zenon DEF CallInv
  <2>2. HeapInv' /\ MaxInv' /\ SnapInv'
    BY ZenonT(30) DEF vars, Inv, HeapInv, SettledHeap, LiveIn, Live, Published, Owned,
         Known,
       MaxInv, Evicting, AboveMax, AboveNewMax, Alone, InHeapOrPreparing, Preparing, Evicted, Index,
       NewMax, INC_STEP_FOR_MAX_EVICTED, SnapInv, MinsOK, SnapshotMinIsSafe, Listed
  <2>3. CacheInv' /\ ListInv' /\ MapInv' /\ ReadInv'
    BY ZenonT(30) DEF vars, Inv, CacheInv, InCache, Index, ListInv, Fetched, Walk, Older, Few,
         OwnNumbers, Held, Listed,
       MapInv, MapOK, Remembered, Alive, Fits, Evicted, NewMax, INC_STEP_FOR_MAX_EVICTED, ReadInv,
       Reading, PastCache, kMaxSequenceNumber
  <2> QED
    BY <2>1, <2>2, <2>3, Zenon DEF Inv
<1> QED
  BY <1>1, <1>2, <1>3, PTL DEF Spec

\* For any number of transactions, in whatever order they commit, are removed or are
\* moved to delayed_prepared_, PreparedHeap is empty once they are all gone, as its
\* destructor asserts.
THEOREM HeapIsDrained == Spec => []HeapDrains
<1>1. Inv => HeapDrains
  BY HeapInvDrains, Zenon DEF Inv
<1> QED
  BY <1>1, CommitCacheInvariant, PTL

\* For any number of transactions and any size of the cache, AdvanceMaxEvictedSeq leaves
\* nothing at or below the maximum in prepared_txns_, except, with two queues, what it
\* passed in the middle of the prepare; and with one queue AddPrepared never meets a
\* maximum that has passed its number.  Both as long as the maximum was never advanced
\* beyond what is published.
THEOREM PreparedStayAboveMax == Spec => []PreparedAboveMax
<1>1. Inv => PreparedAboveMax
  BY MaxInvGivesAboveMax, Zenon DEF Inv
<1> QED
  BY <1>1, CommitCacheInvariant, PTL

\* For any number of transactions and snapshots, no number that is not committed in a
\* snapshot is below the snapshot's min_uncommitted_, unless it was delayed.
THEOREM SnapshotMinHolds == Spec => []SnapshotMinIsSafe
<1>1. Inv => SnapshotMinIsSafe
  BY Zenon DEF Inv, SnapInv
<1> QED
  BY <1>1, CommitCacheInvariant, PTL

\* For any number of transactions and snapshots and any size of the cache, IsInSnapshot
\* answers whether the transaction committed at or before the snapshot, wherever its entry
\* is moved meanwhile, if the snapshots fit into snapshot_cache_, no other one had the
\* number of this one, the maximum was never beyond what is published, it did not pass
\* the transaction while that was prepared or being prepared, and the call saw the
\* transaction committed when it began or still above the maximum when it answers.
THEOREM IsInSnapshotIsRight == Spec => IsInSnapshotIsRightOnTime
<1>1. Inv /\ [Next]_vars => [OnTime => Right]_vars
  BY StepRight, Zenon DEF Inv
<1> QED
  BY <1>1, CommitCacheInvariant, PTL DEF Spec, IsInSnapshotIsRightOnTime

=============================================================================
