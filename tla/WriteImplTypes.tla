--------------------------- MODULE WriteImplTypes ---------------------------
(***************************************************************************)
(* The inductive invariant of WriteImpl.tla, and the proof that no step of *)
(* a call breaks its types, what the place of a call says of the queue,    *)
(* the rules of the group, the uniqueness of sequence numbers, or what the *)
(* place of a call says of the work done for its group.                    *)
(***************************************************************************)
EXTENDS WriteImpl, TLAPS

NoPersistentState == \A k \in Kinds : ~k.persistent

\* where a call is determines what its Writer is in the queue
LeaderSteps == {"callbacks", "insert", "assign", "check"}
ClosingSteps == {"release", "publish", "exit"}
ActorSteps == LeaderSteps \cup ClosingSteps

StepPhase ==
    \A w \in Writers :
        /\ step[w] = "start" => phase[w] = "idle"
        /\ step[w] = "done" => phase[w] \in {"idle", "completed"}
        /\ step[w] \in {"joined", "unbatched"} =>
              /\ phase[w] \in {"queued", "leader"}
              /\ phase[w] = "leader" => group = <<>>
        /\ step[w] = "enter" => phase[w] = "leader" /\ group = <<>>
        /\ step[w] \in LeaderSteps => phase[w] = "leader" /\ group # <<>>
        /\ step[w] = "parallel" => phase[w] = "parallel"
        /\ step[w] = "waiting" => phase[w] = "waiting"
        /\ step[w] \in ClosingSteps =>
              phase[w] = "closing" \/ (phase[w] = "leader" /\ group # <<>>)

\* every follower may follow the leader
GroupRules ==
    \A i \in 2 .. Len(group) : MayFollow(kind[group[1]], kind[group[i]])

\* nothing has been done for a call that no leader has taken up
Untouched(w) ==
    /\ sequence[w] = 0 /\ cursor[w] = 0
    /\ callback_status[w] = "OK" /\ status[w] = "OK"

NotStarted ==
    \A w \in Writers :
        w \notin Members(group) /\ step[w] # "done" => Untouched(w)

\* a numbered call of a departed group is visible and complete
Settled(w) ==
    sequence[w] # 0 => /\ sequence[w] + Span(w) <= LastSequence + 1
                       /\ ~diverged => Inserted(w)

Returned ==
    \A w \in Writers :
        /\ result[w] # "none" => step[w] = "done"
        /\ step[w] = "unbatched" => ~kind[w].batch
        /\ step[w] = "done" =>
              /\ Settled(w)
              /\ ~diverged /\ result[w] = "OK" /\ kind[w].batch =>
                    ~CallbackFailed(w) /\ sequence[w] # 0

\* the offsets of the first n members partition 0 .. seq_inc - 1
Chain(n) ==
    /\ n = 0 => seq_inc = 0
    /\ n > 0 => offset[group[1]] = 0
    /\ \A i \in 1 .. n :
          /\ offset[group[i]] + Span(group[i]) <= seq_inc
          /\ i = n => seq_inc = offset[group[i]] + Span(group[i])
          /\ i < n => offset[group[i + 1]] = offset[group[i]] + Span(group[i])
    /\ \A i, j \in 1 .. n :
          i < j => offset[group[i]] + Span(group[i]) <= offset[group[j]]

\* the i-th member has been given its number, or none
Numbered(i) == sequence[group[i]] = LastSequence + 1 + offset[group[i]]

NumberedOrRefused(i) ==
    IF CallbackFailed(group[i]) THEN sequence[group[i]] = 0 ELSE Numbered(i)

\* the range of the group is fixed and not yet visible
Ranged ==
    /\ Chain(Len(group))
    /\ last_sequence = LastSequence + seq_inc

NextNumber ==
    next_sequence = LastSequence + 1 +
                      IF pos <= Len(group) THEN offset[group[pos]] ELSE seq_inc

InCallbacks ==
    /\ pos <= Len(group) + 1
    /\ Chain(pos - 1)
    /\ last_sequence = LastSequence
    /\ \A i \in 1 .. Len(group) :
          /\ sequence[group[i]] = 0 /\ cursor[group[i]] = 0
          /\ status[group[i]] = "OK"
          /\ i >= pos => callback_status[group[i]] = "OK"

InAssign ==
    /\ pos <= Len(group) + 1 /\ leader_status = "OK"
    /\ Ranged /\ NextNumber
    /\ \A i \in 1 .. Len(group) :
          /\ IF i < pos THEN NumberedOrRefused(i) ELSE sequence[group[i]] = 0
          /\ cursor[group[i]] = 0 /\ status[group[i]] = "OK"

MemberInserted(i) ==
    /\ i < pos => NumberedOrRefused(i) /\ Inserted(group[i])
    /\ i = pos /\ sequence[group[i]] # 0 => Numbered(i) /\ ~CallbackFailed(group[i])
    /\ i > pos => sequence[group[i]] = 0

InInsert ==
    /\ pos <= Len(group) + 1 /\ leader_status = "OK"
    /\ Ranged /\ NextNumber
    /\ \A i \in 1 .. Len(group) : MemberInserted(i)

InParallel ==
    /\ Ranged /\ leader_status = "OK"
    /\ \A i \in 1 .. Len(group) : NumberedOrRefused(i)

\* the group is ready to be published
Ready ==
    /\ Ranged
    /\ \A i \in 1 .. Len(group) :
          /\ sequence[group[i]] # 0 => Numbered(i) /\ ~CallbackFailed(group[i])
          /\ ~diverged => NumberedOrRefused(i) /\ Inserted(group[i])

Abandoned == \A i \in 1 .. Len(group) : sequence[group[i]] = 0

\* the group may leave
Leaving ==
    \A i \in 1 .. Len(group) :
        /\ Settled(group[i])
        /\ ~diverged /\ leader_status = "OK" /\ ~CallbackFailed(group[i]) =>
              sequence[group[i]] # 0

GroupProgress ==
    \A w \in Writers :
        /\ step[w] = "enter" => last_sequence = LastSequence
        /\ step[w] = "callbacks" => InCallbacks
        /\ step[w] = "assign" => InAssign
        /\ step[w] = "insert" => InInsert
        /\ step[w] = "parallel" => InParallel
        /\ step[w] = "parallel" /\ status[w] # "OK" => diverged
        /\ step[w] = "waiting" => Inserted(w) \/ diverged
        /\ step[w] = "check" => IF leader_status = "OK" THEN Ready ELSE Abandoned
        /\ step[w] \in {"release", "publish"} => Ready
        /\ step[w] = "exit" => Leaving

\* after the log has been written, every member that wants it is in it
LogWritten ==
    \A w \in Writers :
        /\ step[w] \in {"insert", "assign", "parallel", "waiting", "check",
                        "release", "publish", "exit"}
        /\ leader_status = "OK"
        => \A i \in 1 .. Len(group) :
              ~CallbackFailed(group[i]) /\ ~kind[group[i]].disable_wal =>
                  Durable(group[i])

LogOfReturned ==
    /\ synced <= Len(wal)
    /\ AcknowledgedIsDurable

NoState == recoverable = 0 /\ restored = {}

WriteInv ==
    /\ TypeOK
    /\ StepPhase
    /\ GroupRules
    /\ NotStarted
    /\ Returned
    /\ GroupProgress
    /\ SequencesAreUnique
    /\ LogWritten
    /\ LogOfReturned
    /\ NoState

-----------------------------------------------------------------------------
\* what the queue's invariant says of a group
LEMMA GroupFacts ==
    ASSUME QueueInv
    PROVE  /\ group \in Seq(Writers) /\ Len(group) \in Nat
           /\ \A i \in 1 .. Len(group) : group[i] \in Writers /\ group[i] \in Members(group)
           /\ \A i, j \in 1 .. Len(group) : group[i] = group[j] => i = j
           /\ \A x \in Members(group) :
                 /\ x \in Writers
                 /\ \E i \in 1 .. Len(group) : x = group[i]
                 /\ phase[x] \notin {"idle", "completed"}
<1>1. group \in Seq(Writers) /\ Len(group) \in Nat
  BY DEF QueueInv, QueueTypeOK
<1>2. \A i \in 1 .. Len(group) : group[i] \in Writers /\ group[i] \in Members(group)
  BY <1>1 DEF Members
<1>3. \A i, j \in 1 .. Len(group) : group[i] = group[j] => i = j
  BY <1>1 DEF QueueInv, QueueTypeOK, GroupIsPrefix, NoDuplicates
<1>4. \A x \in Members(group) :
         /\ x \in Writers
         /\ \E i \in 1 .. Len(group) : x = group[i]
  BY <1>1 DEF Members
<1>5. \A x \in Members(group) : x \in Members(queue)
  BY <1>1 DEF QueueInv, QueueTypeOK, GroupIsPrefix, Members
<1> QED
  BY <1>1, <1>2, <1>3, <1>4, <1>5, Zenon DEF QueueInv, LinkedPhases

\* while somebody leads, nobody has been launched
LEMMA LeaderFacts ==
    ASSUME QueueInv, NEW w \in Writers, phase[w] = "leader"
    PROVE  /\ \A v \in Writers : v # w => phase[v] # "leader"
           /\ \A v \in Writers : phase[v] \notin Launched
           /\ group # <<>> => w = group[1] /\ w \in Members(group)
<1>1. queue # <<>> /\ w = queue[1] /\ \A v \in Writers : v # w => phase[v] # "leader"
  BY Zenon DEF QueueInv, LeaderIsFirst
<1>2. group # <<>> => w = group[1] /\ w \in Members(group)
  BY <1>1 DEF QueueInv, QueueTypeOK, GroupIsPrefix, Members
<1>3. \A v \in Writers : phase[v] \notin Launched
  <2> SUFFICES ASSUME NEW v \in Writers, phase[v] \in Launched PROVE FALSE
    BY Zenon
  <2>1. v \in Members(group) /\ \A x \in Members(group) : phase[x] \in Launched
    BY Zenon DEF QueueInv, LaunchedTogether
  <2>2. group # <<>>
    BY <2>1 DEF Members
  <2> QED
    BY <1>2, <2>1, <2>2, Zenon DEF Launched
<1> QED
  BY <1>1, <1>2, <1>3, Zenon

\* At most one call acts for a group, and while it does nobody inserts in
\* parallel.
LEMMA OneActor ==
    ASSUME QueueInv, StepPhase, NEW a \in Writers, step[a] \in ActorSteps
    PROVE  /\ group # <<>> /\ a \in Members(group)
           /\ phase[a] = "leader" => a = group[1]
           /\ \A v \in Writers : v # a =>
                 /\ step[v] \notin ActorSteps
                 /\ step[v] # "parallel"
                 /\ phase[a] = "leader" => step[v] # "waiting"
<1>1. CASE phase[a] = "leader"
  <2>1. group # <<>>
    BY <1>1, Zenon DEF StepPhase, ActorSteps
  <2> QED
    BY <1>1, <2>1, LeaderFacts, Zenon
       DEF StepPhase, ActorSteps, LeaderSteps, ClosingSteps, Launched
<1>2. CASE phase[a] = "closing"
  <2>1. a \in Members(group)
    BY <1>2, Zenon DEF QueueInv, LaunchedTogether, Launched
  <2>2. group # <<>>
    BY <2>1 DEF Members
  <2>3. \A v \in Writers : phase[v] # "parallel"
    BY <1>2, Zenon DEF QueueInv, LastOneCloses, ParallelWriters
  <2>4. \A v \in Writers : v # a => phase[v] # "closing"
    BY <1>2, Zenon DEF QueueInv, ClosingIsUnique
  <2>5. \A v \in Writers : phase[v] # "leader"
    BY <1>2, LeaderFacts, Zenon DEF Launched
  <2> QED
    BY <1>2, <2>1, <2>2, <2>3, <2>4, <2>5, Zenon
       DEF StepPhase, ActorSteps, LeaderSteps, ClosingSteps
<1> QED
  BY <1>1, <1>2, Zenon DEF StepPhase, ActorSteps

\* While somebody inserts in parallel, nobody acts for the group.
LEMMA NoActor ==
    ASSUME QueueInv, StepPhase, NEW a \in Writers, step[a] = "parallel"
    PROVE  /\ group # <<>> /\ a \in Members(group)
           /\ \A v \in Writers : step[v] \notin ActorSteps
<1>1. phase[a] = "parallel" /\ a \in Members(group)
  BY Zenon DEF StepPhase, QueueInv, LaunchedTogether, Launched
<1>2. \A v \in Writers : step[v] \notin ActorSteps
  BY OneActor, Zenon DEF ActorSteps, LeaderSteps, ClosingSteps
<1> QED
  BY <1>1, <1>2 DEF Members

\* A leader without a group is alone.
LEMMA LoneLeader ==
    ASSUME QueueInv, StepPhase, NEW a \in Writers, phase[a] = "leader", group = <<>>
    PROVE  /\ Members(group) = {}
           /\ \A v \in Writers :
                 step[v] \notin ActorSteps \cup {"parallel", "waiting"}
<1>1. Members(group) = {}
  BY DEF Members
<1> QED
  BY <1>1, LeaderFacts, Zenon
     DEF StepPhase, ActorSteps, LeaderSteps, ClosingSteps, Launched

-----------------------------------------------------------------------------
\* the arguments of a call, and the sequence numbers it takes
LEMMA KindFacts ==
    ASSUME TypeOK, NEW w \in Writers
    PROVE  /\ kind[w] \in Kinds
           /\ kind[w].count \in Nat /\ kind[w].batch_cnt \in Nat
           /\ kind[w].disable_memtable \in BOOLEAN
           /\ kind[w].disable_memtable => kind[w].batch_cnt = 1
           /\ \A cb \in {"OK", "Busy"} : SpanIf(w, cb) \in Nat
           /\ Span(w) \in Nat
<1>1. kind[w] \in Kinds
  BY Zenon DEF TypeOK, CallTypes
<1>2. kind[w] \in KindType
  BY <1>1, KindsTyped, Zenon
<1>3. /\ kind[w].count \in Nat /\ kind[w].batch_cnt \in Nat
      /\ kind[w].disable_memtable \in BOOLEAN
  BY <1>2, Zenon DEF KindType
<1>4. kind[w].disable_memtable => kind[w].batch_cnt = 1
  BY <1>1, OneSubBatch, Zenon
<1>5. \A cb \in {"OK", "Busy"} : SpanIf(w, cb) \in Nat
  BY <1>3, Zenon DEF SpanIf
<1>6. callback_status[w] \in {"OK", "Busy"}
  BY Zenon DEF TypeOK, CallTypes
<1> QED
  BY <1>1, <1>3, <1>4, <1>5, <1>6, Zenon DEF Span

\* The initial state is typed.
LEMMA InitTypeOK == Init => TypeOK
<1> SUFFICES ASSUME Init PROVE TypeOK
  BY Zenon
<1>1. QueueTypeOK
  BY DEF Init, QueueInit, QueueTypeOK, Phases
<1>2. CallTypes
  BY Zenon DEF Init, CallTypes, Steps, Statuses
<1>3. GroupTypes
  <2>1. parallel \in BOOLEAN
    BY Zenon DEF Init
  <2>2. /\ last_sequence \in Nat /\ seq_inc \in Nat /\ next_sequence \in Nat
        /\ pos \in Nat \ {0} /\ offset \in [Writers -> Nat]
    BY DEF Init
  <2>3. leader_status \in Statuses /\ group_status \in Statuses
    BY Zenon DEF Init, Statuses
  <2> QED
    BY <2>1, <2>2, <2>3, Zenon DEF GroupTypes
<1>4. DbTypes
  <2>1. wal \in Seq(WalRecord) /\ LastSequence \in Nat /\ synced \in Nat
        /\ recoverable \in Nat
    BY SMTT(30), SMTT(45) DEF Init
  <2> QED
    BY <2>1, Zenon DEF Init, DbTypes
<1> QED
  BY <1>1, <1>2, <1>3, <1>4, Zenon DEF TypeOK

\* No step breaks the types of the calls,
LEMMA StepKeepsCallTypes ==
    ASSUME TypeOK, NEW w \in Writers, Step(w)
    PROVE  CallTypes'
<1> USE DEF TypeOK, CallTypes
<1>1. CASE JoinBatchGroup(w) \/ RejectCall(w) \/ UnbatchedSwitch(w)
  BY <1>1 DEF JoinBatchGroup, RejectCall, UnbatchedSwitch, SwitchResults, Goto, Steps,
     Statuses
<1>2. CASE PreprocessWrite(w) \/ EnterAsBatchGroupLeader(w) \/ WriteToWAL(w)
  BY <1>2, Zenon
     DEF PreprocessWrite, EnterAsBatchGroupLeader, WriteToWAL, Goto, Steps
<1>3. CASE CheckCallback(w)
  <2>1. group[pos] \in Writers
    BY <1>3 DEF CheckCallback, QueueTypeOK, GroupTypes
  <2> QED
    BY <1>3, <2>1, Zenon DEF CheckCallback
<1>4. CASE SkipBatch(w) \/ FinishBatch(w) \/ FinishSerial(w)
  BY <1>4, Zenon
     DEF SkipBatch, FinishBatch, FinishSerial, insertFrame, Goto, Steps
<1>5. CASE StartBatch(w)
  BY <1>5 DEF StartBatch, insertFrame, GroupTypes
<1>6. CASE InsertSerial(w) \/ InsertParallel(w)
  BY <1>6 DEF InsertSerial, InsertParallel, InsertKey, insertFrame
<1>7. CASE FailSerial(w) \/ FailParallel(w)
  BY <1>7, Zenon DEF FailSerial, FailParallel, insertFrame, Goto, Steps, Statuses
<1>8. CASE AssignSequence(w)
  <2>1. group[pos] \in Writers
    BY <1>8 DEF AssignSequence, QueueTypeOK, GroupTypes
  <2>2. sequence' \in [Writers -> Nat]
    BY <1>8, <2>1, Zenon DEF AssignSequence, GroupTypes
  <2> QED
    BY <1>8, <2>2, Zenon DEF AssignSequence, insertFrame
<1>9. CASE LaunchParallelMemTableWriters(w)
  BY <1>9, Zenon DEF LaunchParallelMemTableWriters, Steps
<1>10. CASE CompleteParallelMemTableWriter(w)
  BY <1>10, Zenon DEF CompleteParallelMemTableWriter, Goto, Steps, GroupTypes
<1>11. CASE WriteStatusCheck(w) \/ PreRelease(w) \/ SetLastSequence(w)
  BY <1>11, Zenon DEF WriteStatusCheck, PreRelease, SetLastSequence, Goto, Steps
<1>12. CASE ExitAsBatchGroupLeader(w)
  <2>1. \A x \in Members(group) : ExitStatus(x) \in Statuses
    <3>1. Members(group) \subseteq Writers
      BY SMTT(30), SMTT(45) DEF Members, QueueTypeOK
    <3> QED
      BY <3>1, Zenon DEF ExitStatus, FinalStatus, Statuses, GroupTypes
  <2> QED
    BY <1>12, <2>1, Zenon DEF ExitAsBatchGroupLeader, Steps
<1> QED
  BY <1>1, <1>2, <1>3, <1>4, <1>5, <1>6, <1>7, <1>8, <1>9, <1>10, <1>11, <1>12, Zenon
     DEF Step

\* A step of WriteImpl keeps the types of the leader's locals
LEMMA StepKeepsGroupTypes ==
    ASSUME TypeOK, NEW w \in Writers, Step(w)
    PROVE  GroupTypes'
<1> USE DEF TypeOK, GroupTypes
<1>1. CASE JoinBatchGroup(w) \/ RejectCall(w) \/ UnbatchedSwitch(w)
           \/ LaunchParallelMemTableWriters(w) \/ WriteStatusCheck(w)
           \/ SetLastSequence(w) \/ ExitAsBatchGroupLeader(w)
  BY <1>1, Zenon
     DEF JoinBatchGroup, RejectCall, UnbatchedSwitch, WriteStatusCheck,
     LaunchParallelMemTableWriters, SetLastSequence, ExitAsBatchGroupLeader,
     groupVars
<1>2. CASE PreprocessWrite(w) \/ PreRelease(w)
  BY <1>2, Zenon DEF PreprocessWrite, PreRelease, SwitchResults, Statuses, DbTypes
<1>3. CASE EnterAsBatchGroupLeader(w)
  <2>1. parallel' \in BOOLEAN
    BY <1>3, Zenon DEF EnterAsBatchGroupLeader
  <2> QED
    BY <1>3, <2>1 DEF EnterAsBatchGroupLeader, Statuses
<1>4. CASE CheckCallback(w)
  <2>1. group[pos] \in Writers
    BY <1>4 DEF CheckCallback, QueueTypeOK
  <2>2. \A cb \in {"OK", "Busy"} : SpanIf(group[pos], cb) \in Nat
    BY <2>1, KindFacts, Zenon
  <2>3. seq_inc' \in Nat
    BY <1>4, <2>2 DEF CheckCallback
  <2>4. parallel' \in BOOLEAN
    BY <1>4, Zenon DEF CheckCallback
  <2> QED
    BY <1>4, <2>1, <2>3, <2>4 DEF CheckCallback
<1>5. CASE WriteToWAL(w)
  <2>1. leader_status' \in Statuses
    BY <1>5, Zenon DEF WriteToWAL, Statuses
  <2>2. last_sequence' \in Nat /\ next_sequence' \in Nat /\ pos' \in Nat \ {0}
    BY <1>5, SMTT(30), SMTT(45) DEF WriteToWAL
  <2> QED
    BY <1>5, <2>1, <2>2, Zenon DEF WriteToWAL
<1>6. CASE SkipBatch(w) \/ StartBatch(w) \/ InsertSerial(w) \/ FailSerial(w)
           \/ FinishSerial(w) \/ InsertParallel(w) \/ FailParallel(w)
  BY <1>6, SMTT(60), SMTT(45)
     DEF SkipBatch, StartBatch, InsertSerial, FailSerial, FinishSerial,
     InsertParallel, FailParallel, insertFrame
<1>7. CASE FinishBatch(w)
  <2>1. \A x \in Writers : SerialSpan(x) \in Nat
    BY KindFacts, Zenon DEF SerialSpan
  <2> QED
    BY <1>7, <2>1 DEF FinishBatch, insertFrame
<1>8. CASE AssignSequence(w)
  <2>1. group[pos] \in Writers
    BY <1>8, SMTT(30), SMTT(45) DEF AssignSequence, QueueTypeOK
  <2>2. Span(group[pos]) \in Nat
    BY <2>1, KindFacts, Zenon
  <2>3. next_sequence' \in Nat
    BY <1>8, <2>2 DEF AssignSequence
  <2>4. pos' \in Nat \ {0}
    BY <1>8 DEF AssignSequence
  <2>5. UNCHANGED <<leader_status, group_status, last_sequence, seq_inc, parallel,
                    offset>>
    BY <1>8, Zenon DEF AssignSequence, insertFrame
  <2> QED
    BY <2>3, <2>4, <2>5, Zenon
<1>9. CASE CompleteParallelMemTableWriter(w)
  BY <1>9, Zenon DEF CompleteParallelMemTableWriter, CallTypes
<1> QED
  BY <1>1, <1>2, <1>3, <1>4, <1>5, <1>6, <1>7, <1>8, <1>9, Zenon DEF Step

\* A step of WriteImpl keeps the types of LastSequence, the log and the error
LEMMA StepKeepsDbTypes ==
    ASSUME TypeOK, NEW w \in Writers, Step(w)
    PROVE  DbTypes'
<1> USE DEF TypeOK, DbTypes
<1>1. CASE JoinBatchGroup(w) \/ RejectCall(w) \/ EnterAsBatchGroupLeader(w)
           \/ CheckCallback(w) \/ LaunchParallelMemTableWriters(w)
           \/ CompleteParallelMemTableWriter(w)
  BY <1>1, Zenon DEF JoinBatchGroup, RejectCall, EnterAsBatchGroupLeader, CheckCallback,
     LaunchParallelMemTableWriters, CompleteParallelMemTableWriter, dbVars
<1>r. WriteRecoverableState
         => LastSequence' \in Nat /\ recoverable' \in Nat /\ restored' \subseteq Nat
  BY DEF WriteRecoverableState
<1>2. CASE UnbatchedSwitch(w)
  <2>1. WriteRecoverableState /\ UNCHANGED <<wal, synced, bg_error, diverged>>
    BY <1>2, Zenon DEF UnbatchedSwitch
  <2> QED
    BY <1>r, <2>1, Zenon
<1>3. CASE PreprocessWrite(w)
  <2>1. /\ WriteRecoverableState \/ UNCHANGED <<LastSequence, restored, recoverable>>
        /\ UNCHANGED <<wal, synced, bg_error, diverged>>
    BY <1>3, Zenon DEF PreprocessWrite
  <2>2. LastSequence' \in Nat /\ recoverable' \in Nat /\ restored' \subseteq Nat
    BY <1>r, <2>1, Zenon
  <2> QED
    BY <2>1, <2>2, Zenon
<1>4. CASE WriteToWAL(w)
  <2>1. MergeBatch \subseteq Writers /\ group \in Seq(Writers)
    BY DEF MergeBatch, Members, QueueTypeOK
  <2>2. wal' \in Seq(WalRecord)
    <3>1. ASSUME NEW ok \in BOOLEAN
          PROVE  [seq |-> last_sequence + 1, order |-> group,
                  batches |-> MergeBatch, ok |-> ok] \in WalRecord
      BY <2>1 DEF WalRecord, GroupTypes
    <3>2. \E r \in WalRecord : wal' \in {wal, Append(wal, r)}
      BY <1>4, <3>1, Zenon DEF WriteToWAL
    <3> QED
      BY <3>2, SMTT(30), SMTT(45)
  <2>3. recoverable' \in Nat
    <3>1. \A i \in 1 .. Len(group) :
             kind[group[i]].batch_cnt \in Nat /\ kind[group[i]].count \in Nat
      BY <2>1, KindFacts, SMTT(30), SMTT(45)
    <3> QED
      BY <1>4, <3>1, Zenon DEF WriteToWAL, CacheState
  <2>4. synced' \in Nat
    <3>1. Len(wal) + 1 \in Nat
      OBVIOUS
    <3>2. synced' \in {synced, Len(wal) + 1}
      BY <1>4, Zenon DEF WriteToWAL
    <3> QED
      BY <3>1, <3>2, Zenon
  <2> QED
    BY <1>4, <2>2, <2>3, <2>4, Zenon DEF WriteToWAL
<1>5. CASE SkipBatch(w) \/ StartBatch(w) \/ InsertSerial(w) \/ FinishBatch(w)
           \/ FinishSerial(w) \/ AssignSequence(w) \/ InsertParallel(w)
  BY <1>5, Zenon
     DEF SkipBatch, StartBatch, InsertSerial, FinishBatch, FinishSerial,
     AssignSequence, InsertParallel, InsertKey, insertFrame
<1>6. CASE FailSerial(w) \/ FailParallel(w)
  BY <1>6, Zenon DEF FailSerial, FailParallel, insertFrame
<1>7. CASE WriteStatusCheck(w) \/ ExitAsBatchGroupLeader(w)
  <2>1. bg_error' \in BOOLEAN
    BY <1>7, Zenon DEF WriteStatusCheck, ExitAsBatchGroupLeader
  <2> QED
    BY <1>7, <2>1, Zenon DEF WriteStatusCheck, ExitAsBatchGroupLeader
<1>8. CASE PreRelease(w)
  BY <1>8, Zenon DEF PreRelease
<1>9. CASE SetLastSequence(w)
  BY <1>9, Zenon DEF SetLastSequence, GroupTypes
<1> QED
  BY <1>1, <1>2, <1>3, <1>4, <1>5, <1>6, <1>7, <1>8, <1>9, Zenon DEF Step

-----------------------------------------------------------------------------
\* a departing leader wakes nobody but a queued writer
LEMMA DepartFacts ==
    ASSUME QueueInv, NEW gone \in Seq(Writers), gone # <<>>, Len(gone) <= Len(queue),
           \A i \in 1 .. Len(gone) : gone[i] = queue[i],
           \A x \in Writers : phase[x] \in Launched => x \in Members(gone),
           Depart(gone)
    PROVE  /\ group' = <<>>
           /\ \A x \in Members(gone) : x \in Writers /\ phase'[x] = "completed"
           /\ \A x \in Writers \ Members(gone) :
                 /\ phase[x] \notin Launched \cup {"leader"}
                 /\ \/ phase'[x] = phase[x]
                    \/ phase[x] = "queued" /\ phase'[x] = "leader"
<1> DEFINE n == Len(gone)
           rest == SubSeq(queue, n + 1, Len(queue))
<1>1. n \in Nat /\ n >= 1 /\ queue \in Seq(Writers) /\ n \in 0 .. Len(queue)
  BY DEF QueueInv, QueueTypeOK
<1>2. \A x \in Members(gone) : x \in Writers
  BY DEF Members
<1>3. queue[1] \in Members(gone)
  BY <1>1 DEF Members
<1>4. \A x \in Writers \ Members(gone) : phase[x] \notin Launched \cup {"leader"}
  BY <1>3, Zenon DEF QueueInv, LeaderIsFirst
<1>5. rest # <<>> => rest[1] \in Members(queue) /\ rest[1] \in Writers
  <2>1. /\ Len(rest) = Len(queue) - n
        /\ \A i \in 1 .. Len(rest) : rest[i] = queue[n + i]
    BY <1>1
  <2> HAVE rest # <<>>
  <2>2. Len(rest) >= 1
    BY <1>1, <2>1
  <2>3. rest[1] = queue[n + 1] /\ n + 1 \in 1 .. Len(queue)
    BY <1>1, <2>1, <2>2
  <2> QED
    BY <1>1, <2>3 DEF Members
<1>6. \A x \in Writers \ Members(gone) :
         \/ phase'[x] = phase[x]
         \/ rest # <<>> /\ x = rest[1] /\ phase'[x] = "leader"
  BY Zenon DEF Depart
<1>7. \A x \in Writers \ Members(gone) : x \in Members(queue) => phase[x] = "queued"
  BY <1>4, Zenon DEF QueueInv, QueueTypeOK, LinkedPhases, Launched, Phases
<1> QED
  BY <1>2, <1>4, <1>5, <1>6, <1>7, Zenon DEF Depart

\* ExitAsBatchGroupLeader completes the members of the group.
LEMMA ExitGroupFacts ==
    ASSUME QueueInv, NEW w \in Writers, ExitGroup(w)
    PROVE  /\ group # <<>> /\ group' = <<>>
           /\ \A x \in Members(group) : phase'[x] = "completed"
           /\ \A x \in Writers \ Members(group) :
                 /\ phase[x] \notin Launched \cup {"leader"}
                 /\ \/ phase'[x] = phase[x]
                    \/ phase[x] = "queued" /\ phase'[x] = "leader"
<1>1. group # <<>>
  BY DEF ExitGroup, QueueInv, LaunchedTogether, Launched, Members
<1>2. group \in Seq(Writers) /\ Len(group) <= Len(queue)
      /\ \A i \in 1 .. Len(group) : group[i] = queue[i]
  BY Zenon DEF QueueInv, QueueTypeOK, GroupIsPrefix
<1>3. \A x \in Writers : phase[x] \in Launched => x \in Members(group)
  BY Zenon DEF QueueInv, LaunchedTogether
<1> QED
  BY <1>1, <1>2, <1>3, DepartFacts, Zenon DEF ExitGroup

\* ExitUnbatched completes the writer that calls it.
LEMMA ExitAloneFacts ==
    ASSUME QueueInv, NEW w \in Writers, ExitAlone(w)
    PROVE  /\ group = <<>> /\ group' = <<>>
           /\ phase'[w] = "completed"
           /\ \A x \in Writers : x # w =>
                 /\ phase[x] \notin Launched \cup {"leader"}
                 /\ \/ phase'[x] = phase[x]
                    \/ phase[x] = "queued" /\ phase'[x] = "leader"
<1>1. queue # <<>> /\ w = queue[1] /\ \A x \in Writers : phase[x] \notin Launched
  BY LeaderFacts, Zenon DEF ExitAlone, QueueInv, LeaderIsFirst
<1>2. Members(<<w>>) = {w}
  BY DEF Members
<1>3. /\ <<w>> \in Seq(Writers) /\ <<w>> # <<>> /\ Len(<<w>>) <= Len(queue)
      /\ \A i \in 1 .. Len(<<w>>) : <<w>>[i] = queue[i]
  BY <1>1 DEF QueueInv, QueueTypeOK
<1>4. Depart(<<w>>) /\ group = <<>>
  BY Zenon DEF ExitAlone
<1> QED
  BY <1>1, <1>2, <1>3, <1>4, DepartFacts, ZenonT(30)

\* Where a call is and what its Writer is in the queue move together.
LEMMA StepKeepsStepPhase ==
    ASSUME TypeOK, QueueInv, StepPhase, NEW w \in Writers, Step(w)
    PROVE  StepPhase'
<1> USE DEF StepPhase, LeaderSteps, ClosingSteps
<1>1. step \in [Writers -> Steps] /\ phase \in [Writers -> Phases]
  BY Zenon DEF TypeOK, QueueTypeOK, CallTypes
<1>2. \A v \in Writers : phase[v] = "queued" => step[v] \in {"joined", "unbatched"}
  BY <1>1, Zenon DEF Steps
<1>3. CASE JoinBatchGroup(w)
  <2>1. queue = <<>> => group = <<>>
    BY DEF QueueInv, QueueTypeOK, GroupIsPrefix
  <2> QED
    BY <1>1, <1>3, <2>1 DEF JoinBatchGroup, Link, Goto
<1>4. CASE RejectCall(w)
  BY <1>1, <1>4 DEF RejectCall, queueVars, Goto
<1>5. CASE UnbatchedSwitch(w)
  <2>1. ExitAlone(w) /\ step' = [step EXCEPT ![w] = "done"]
    BY <1>5, Zenon DEF UnbatchedSwitch, Goto
  <2> QED
    BY <1>1, <1>2, <2>1, ExitAloneFacts DEF Launched
<1>6. CASE PreprocessWrite(w)
  BY <1>1, <1>6 DEF PreprocessWrite, queueVars, Goto
<1>7. CASE EnterAsBatchGroupLeader(w)
  <2>1. phase[w] = "leader" /\ group = <<>> /\ phase' = phase
    BY <1>7, Zenon DEF EnterAsBatchGroupLeader, FormGroup
  <2>2. \A v \in Writers : v # w => phase[v] # "leader" /\ phase[v] \notin Launched
    BY <2>1, LeaderFacts, Zenon
  <2>3. group' # <<>>
    <3>1. PICK n \in 1 .. Len(queue) : group' = SubSeq(queue, 1, n)
      BY <1>7, Zenon DEF EnterAsBatchGroupLeader, FormGroup
    <3>2. Len(group') = n
      BY <3>1 DEF QueueInv, QueueTypeOK
    <3> QED
      BY <3>2, SMTT(30), SMTT(45)
  <2>4. step' \in {[step EXCEPT ![w] = "callbacks"], [step EXCEPT ![w] = "check"]}
    BY <1>7, Zenon DEF EnterAsBatchGroupLeader, Goto
  <2> QED
    BY <1>1, <2>1, <2>2, <2>3, <2>4, SMTT(30), SMTT(45) DEF Launched
<1>8. CASE CheckCallback(w) \/ WriteToWAL(w)
  <2>1. /\ step[w] = "callbacks"
        /\ \E l \in {"callbacks", "check", "assign", "insert"} :
              step' = [step EXCEPT ![w] = l]
    BY <1>1, <1>8, Zenon DEF CheckCallback, WriteToWAL, Goto
  <2>2. group' = group /\ phase' = phase
    BY <1>8, Zenon DEF CheckCallback, WriteToWAL, queueVars
  <2> QED
    BY <1>1, <2>1, <2>2
<1>9. CASE SkipBatch(w) \/ StartBatch(w) \/ InsertSerial(w) \/ FailSerial(w)
           \/ FinishBatch(w) \/ FinishSerial(w)
  <2>1. step[w] = "insert" /\ step' \in {step, [step EXCEPT ![w] = "check"]}
    BY <1>9, Zenon
       DEF SkipBatch, StartBatch, InsertSerial, FailSerial, FinishBatch,
       FinishSerial, Inserting, InsertKey, Goto
  <2>2. group' = group /\ phase' = phase
    BY <1>9, Zenon
       DEF SkipBatch, StartBatch, InsertSerial, FailSerial, FinishBatch,
       FinishSerial, insertFrame, queueVars
  <2> QED
    BY <1>1, <2>1, <2>2
<1>10. CASE AssignSequence(w) \/ InsertParallel(w) \/ FailParallel(w)
  BY <1>1, <1>10, Zenon
     DEF AssignSequence, InsertParallel, FailParallel, InsertKey,
     insertFrame, queueVars
<1>11. CASE LaunchParallelMemTableWriters(w)
  <2>1. \A v \in Writers : v # w => phase[v] # "leader"
    BY <1>11, LeaderFacts, Zenon DEF LaunchParallelMemTableWriters, LaunchParallel
  <2>2. w \in Members(group)
    BY <1>11, LeaderFacts, Zenon DEF LaunchParallelMemTableWriters
  <2> QED
    BY <1>1, <1>11, <2>1, <2>2, Zenon DEF LaunchParallelMemTableWriters, LaunchParallel
<1>12. CASE CompleteParallelMemTableWriter(w)
  BY <1>1, <1>12, Zenon
     DEF CompleteParallelMemTableWriter, CompleteParallel, Goto
<1>13. CASE WriteStatusCheck(w) \/ PreRelease(w) \/ SetLastSequence(w)
  BY <1>1, <1>13, SMTT(30), SMTT(45) DEF WriteStatusCheck, PreRelease, SetLastSequence, queueVars, Goto
<1>14. CASE ExitAsBatchGroupLeader(w)
  <2>1. /\ ExitGroup(w)
        /\ step' = [x \in Writers |-> IF x \in Members(group) THEN "done" ELSE step[x]]
    BY <1>14, Zenon DEF ExitAsBatchGroupLeader
  <2> QED
    BY <1>1, <1>2, <2>1, ExitGroupFacts DEF Launched
<1> QED
  BY <1>3, <1>4, <1>5, <1>6, <1>7, <1>8, <1>9, <1>10, <1>11, <1>12, <1>13,
     <1>14, Zenon
     DEF Step

-----------------------------------------------------------------------------
\* what the stages of a group depend on
stageVars == <<group, kind, status, callback_status, sequence, cursor,
               leader_status, last_sequence, seq_inc, next_sequence, pos,
               offset, LastSequence, diverged>>

\* The stages of a group depend on stageVars only.
LEMMA StageFrame ==
    ASSUME UNCHANGED stageVars
    PROVE  /\ InCallbacks => InCallbacks'
           /\ InAssign => InAssign'
           /\ InInsert => InInsert'
           /\ InParallel => InParallel'
           /\ Ready => Ready'
           /\ Abandoned => Abandoned'
           /\ Leaving => Leaving'
           /\ \A w \in Writers : Inserted(w) => Inserted(w)'
<1> USE DEF stageVars, Chain, Span, SpanIf, CallbackFailed, Numbered, Ranged,
        NumberedOrRefused, NextNumber, Inserted, ToMemtable, Settled
<1>1. InCallbacks => InCallbacks'
  BY Zenon DEF InCallbacks
<1>2. InAssign => InAssign'
  BY Zenon DEF InAssign
<1>3. InInsert => InInsert'
  BY Zenon DEF InInsert, MemberInserted
<1>4. InParallel => InParallel'
  BY Zenon DEF InParallel
<1>5. Ready => Ready'
  BY Zenon DEF Ready
<1>6. Abandoned => Abandoned'
  BY Zenon DEF Abandoned
<1>7. Leaving => Leaving'
  BY Zenon DEF Leaving
<1>8. \A w \in Writers : Inserted(w) => Inserted(w)'
  BY Zenon
<1> QED
  BY <1>1, <1>2, <1>3, <1>4, <1>5, <1>6, <1>7, <1>8, Zenon

\* what holds of the group at the place the call that acts for it is
Stage(w) ==
    /\ step[w] = "callbacks" => InCallbacks
    /\ step[w] = "assign" => InAssign
    /\ step[w] = "insert" => InInsert
    /\ step[w] = "check" => IF leader_status = "OK" THEN Ready ELSE Abandoned
    /\ step[w] \in {"release", "publish"} => Ready
    /\ step[w] = "exit" => Leaving

\* A step of the call that acts for the group leaves it to show what holds at
\* the place the call goes to.
LEMMA ActorStep ==
    ASSUME TypeOK, QueueInv, StepPhase, GroupProgress, NEW w \in Writers,
           step[w] \in ActorSteps, NEW l \in ActorSteps,
           step' = [step EXCEPT ![w] = l],
           phase[w] = "leader" \/ UNCHANGED <<kind, callback_status, cursor, diverged>>,
           Stage(w)'
    PROVE  GroupProgress'
<1> SUFFICES ASSUME NEW v \in Writers, v # w
             PROVE  /\ step'[v] \notin ActorSteps \cup {"enter", "parallel"}
                    /\ step'[v] = "waiting" => Inserted(v)' \/ diverged'
  <2>1. step'[w] = l
    BY Zenon DEF TypeOK, CallTypes
  <2> QED
    BY <2>1, Zenon
       DEF GroupProgress, Stage, ActorSteps, LeaderSteps, ClosingSteps
<1>1. step'[v] = step[v]
  BY Zenon DEF TypeOK, CallTypes
<1>2. /\ group # <<>> /\ step[v] \notin ActorSteps /\ step[v] # "parallel"
      /\ phase[w] = "leader" => step[v] # "waiting"
  BY OneActor, Zenon
<1>3. step[v] # "enter"
  BY <1>2, Zenon DEF StepPhase
<1>4. step[v] = "waiting" => Inserted(v)' \/ diverged'
  BY <1>2 DEF GroupProgress, Inserted, ToMemtable, CallbackFailed
<1> QED
  BY <1>1, <1>2, <1>3, <1>4, Zenon

-----------------------------------------------------------------------------
\* A step works for the members of the group only.
LEMMA StepFrame ==
    ASSUME TypeOK, QueueInv, StepPhase, NEW w \in Writers, Step(w)
    PROVE  /\ kind' = kind
           /\ diverged => diverged'
           /\ \A v \in Writers \ Members(group) :
                 /\ sequence'[v] = sequence[v] /\ cursor'[v] = cursor[v]
                 /\ callback_status'[v] = callback_status[v]
                 /\ status'[v] = status[v]
           /\ \A v \in Writers : step[v] = "done" =>
                 /\ v \notin Members(group)
                 /\ step'[v] = "done" /\ result'[v] = result[v]
<1>1. /\ step \in [Writers -> Steps] /\ status \in [Writers -> Statuses]
      /\ callback_status \in [Writers -> {"OK", "Busy"}]
      /\ sequence \in [Writers -> Nat] /\ cursor \in [Writers -> Nat]
      /\ result \in [Writers -> Statuses \cup {"none"}]
  BY Zenon DEF TypeOK, CallTypes
<1>2. \A v \in Writers : step[v] = "done" => v \notin Members(group)
  BY GroupFacts, Zenon DEF StepPhase
<1>3. step[w] # "done"
  BY Zenon
     DEF Step, JoinBatchGroup, RejectCall, UnbatchedSwitch, PreprocessWrite,
     EnterAsBatchGroupLeader, CheckCallback, WriteToWAL, SkipBatch, StartBatch,
     InsertSerial, FailSerial, FinishBatch, FinishSerial, Inserting,
     AssignSequence, LaunchParallelMemTableWriters, InsertParallel,
     FailParallel,
     CompleteParallelMemTableWriter, WriteStatusCheck, PreRelease,
     SetLastSequence, ExitAsBatchGroupLeader
<1>4. CASE \/ JoinBatchGroup(w) \/ RejectCall(w) \/ UnbatchedSwitch(w)
           \/ PreprocessWrite(w) \/ EnterAsBatchGroupLeader(w) \/ WriteToWAL(w)
           \/ WriteStatusCheck(w) \/ PreRelease(w) \/ SetLastSequence(w)
  <2>1. UNCHANGED <<kind, sequence, cursor, callback_status, status, diverged>>
    BY <1>4, Zenon
       DEF JoinBatchGroup, RejectCall, UnbatchedSwitch, PreprocessWrite,
       EnterAsBatchGroupLeader, WriteToWAL, WriteStatusCheck, PreRelease,
       SetLastSequence, dbVars
  <2>2. \A v \in Writers : v # w => step'[v] = step[v] /\ result'[v] = result[v]
    BY <1>1, <1>4, Zenon
       DEF JoinBatchGroup, RejectCall, UnbatchedSwitch, PreprocessWrite,
       EnterAsBatchGroupLeader, WriteToWAL, WriteStatusCheck, PreRelease,
       SetLastSequence, Goto
  <2> QED
    BY <1>2, <1>3, <2>1, <2>2, Zenon
<1>5. CASE CheckCallback(w)
  <2>1. group[pos] \in Members(group)
    <3>1. pos <= Len(group)
      BY <1>5, Zenon DEF CheckCallback
    <3>2. pos \in Nat \ {0} /\ Len(group) \in Nat
      BY GroupFacts, Zenon DEF TypeOK, GroupTypes
    <3> QED
      BY <3>1, <3>2, GroupFacts
  <2> QED
    BY <1>1, <1>2, <1>5, <2>1, Zenon DEF CheckCallback, dbVars
<1>6. CASE \/ SkipBatch(w) \/ StartBatch(w) \/ InsertSerial(w) \/ FailSerial(w)
           \/ FinishBatch(w) \/ FinishSerial(w)
  <2>1. step[w] = "insert" /\ phase[w] = "leader" /\ w \in Members(group)
    <3>1. step[w] = "insert"
      BY <1>6, Zenon DEF SkipBatch, StartBatch, InsertSerial, FailSerial,
         FinishBatch, FinishSerial, Inserting
    <3>2. w \in Members(group)
      BY <3>1, OneActor, Zenon DEF ActorSteps, LeaderSteps
    <3> QED
      BY <3>1, <3>2, Zenon DEF StepPhase, LeaderSteps, ClosingSteps
  <2>2. /\ kind' = kind /\ callback_status' = callback_status /\ result' = result
        /\ diverged => diverged'
    <3>1. /\ kind' = kind /\ callback_status' = callback_status /\ result' = result
          /\ diverged' = diverged \/ diverged' = TRUE
      BY <1>6, Zenon DEF SkipBatch, StartBatch, InsertSerial, FailSerial, FinishBatch,
         FinishSerial, InsertKey, insertFrame
    <3> QED
      BY <3>1
  <2>3. \A x \in Writers : Inserting(w, x) => x \in Members(group)
    BY GroupFacts DEF Inserting, TypeOK, GroupTypes
  <2>4. step' \in {step, [step EXCEPT ![w] = "check"]}
    BY <1>6, Zenon DEF SkipBatch, StartBatch, InsertSerial, FailSerial, FinishBatch,
       FinishSerial, InsertKey, Goto
  <2>5. \/ UNCHANGED <<sequence, cursor, status>>
        \/ \E x \in Members(group) :
              /\ \A v \in Writers \ {x} : sequence'[v] = sequence[v] /\ cursor'[v] = cursor[v]
              /\ \A v \in Writers \ {x, w} : status'[v] = status[v]
    <3>1. CASE SkipBatch(w) \/ FinishBatch(w) \/ FinishSerial(w)
      BY <3>1, Zenon DEF SkipBatch, FinishBatch, FinishSerial
    <3>2. CASE StartBatch(w)
      BY <1>1, <2>3, <3>2, Zenon DEF StartBatch
    <3>3. CASE InsertSerial(w)
      BY <1>1, <2>3, <3>3, Zenon DEF InsertSerial, InsertKey
    <3>4. CASE FailSerial(w)
      BY <1>1, <2>3, <3>4 DEF FailSerial
    <3> QED
      BY <1>6, <3>1, <3>2, <3>3, <3>4, Zenon
  <2>6. \A v \in Writers : v # w => step'[v] = step[v]
    BY <1>1, <2>4, Zenon
  <2>7. \A v \in Writers \ Members(group) :
           sequence'[v] = sequence[v] /\ cursor'[v] = cursor[v] /\ status'[v] = status[v]
    BY <2>1, <2>5, Zenon
  <2> QED
    BY <1>2, <1>3, <2>2, <2>6, <2>7, Zenon
<1>7. CASE AssignSequence(w)
  <2>1. group[pos] \in Members(group)
    <3>1. pos <= Len(group)
      BY <1>7, Zenon DEF AssignSequence
    <3>2. pos \in Nat \ {0} /\ Len(group) \in Nat
      BY GroupFacts, Zenon DEF TypeOK, GroupTypes
    <3> QED
      BY <3>1, <3>2, GroupFacts
  <2> QED
    BY <1>1, <1>2, <1>7, <2>1, Zenon DEF AssignSequence, insertFrame
<1>8. CASE LaunchParallelMemTableWriters(w)
  BY <1>2, <1>8, Zenon DEF LaunchParallelMemTableWriters, dbVars
<1>9. CASE InsertParallel(w) \/ FailParallel(w) \/ CompleteParallelMemTableWriter(w)
  <2>1. step[w] = "parallel" /\ w \in Members(group)
    BY <1>9, NoActor, Zenon DEF InsertParallel, FailParallel, CompleteParallelMemTableWriter
  <2>2. /\ UNCHANGED <<kind, callback_status, sequence, result>>
        /\ diverged => diverged'
    BY <1>9 DEF InsertParallel, FailParallel, CompleteParallelMemTableWriter,
       InsertKey, insertFrame, dbVars
  <2>3. \A v \in Writers : v # w =>
           step'[v] = step[v] /\ cursor'[v] = cursor[v] /\ status'[v] = status[v]
    BY <1>1, <1>9, Zenon DEF InsertParallel, FailParallel,
       CompleteParallelMemTableWriter, InsertKey, Goto
  <2> QED
    BY <1>2, <1>3, <2>1, <2>2, <2>3, Zenon
<1>10. CASE ExitAsBatchGroupLeader(w)
  BY <1>2, <1>10, Zenon DEF ExitAsBatchGroupLeader
<1> QED
  BY <1>4, <1>5, <1>6, <1>7, <1>8, <1>9, <1>10, Zenon DEF Step

\* the group changes when it is formed and when it leaves
LEMMA GroupFrame ==
    ASSUME TypeOK, QueueInv, StepPhase, NEW w \in Writers, Step(w)
    PROVE  \/ group' = group
           \/ EnterAsBatchGroupLeader(w) /\ Members(group) = {}
           \/ ExitAsBatchGroupLeader(w) /\ group' = <<>>
<1>1. CASE UnbatchedSwitch(w)
  BY <1>1, ExitAloneFacts, Zenon DEF UnbatchedSwitch
<1>2. CASE EnterAsBatchGroupLeader(w)
  BY <1>2, SMTT(30), SMTT(45) DEF EnterAsBatchGroupLeader, FormGroup, Members
<1>3. CASE ExitAsBatchGroupLeader(w)
  BY <1>3, ExitGroupFacts, Zenon DEF ExitAsBatchGroupLeader
<1>4. CASE ~ \/ UnbatchedSwitch(w) \/ EnterAsBatchGroupLeader(w)
             \/ ExitAsBatchGroupLeader(w)
  BY <1>4, Zenon DEF Step, JoinBatchGroup, Link, RejectCall, PreprocessWrite,
     CheckCallback, WriteToWAL, SkipBatch, StartBatch, InsertSerial, FailSerial,
     FinishBatch, FinishSerial, AssignSequence, LaunchParallelMemTableWriters,
     LaunchParallel, InsertParallel, FailParallel,
     CompleteParallelMemTableWriter, CompleteParallel, WriteStatusCheck,
     PreRelease, SetLastSequence, insertFrame, queueVars
<1> QED
  BY <1>1, <1>2, <1>3, <1>4, Zenon

-----------------------------------------------------------------------------
(***************************************************************************)
(* The group's rules, the calls that have not started or have returned,    *)
(* and the uniqueness of sequence numbers.                                 *)
(***************************************************************************)
\* EnterAsBatchGroupLeader admits only calls that may follow the leader.
LEMMA StepKeepsGroupRules ==
    ASSUME TypeOK, QueueInv, StepPhase, GroupRules, NEW w \in Writers, Step(w)
    PROVE  GroupRules'
<1>1. kind' = kind
  BY StepFrame, Zenon
<1>2. CASE group' = group
  BY <1>1, <1>2, Zenon DEF GroupRules, MayFollow
<1>3. CASE EnterAsBatchGroupLeader(w)
  <2>1. PICK n \in 1 .. Len(queue) :
           /\ \A i \in 2 .. n : MayFollow(kind[w], kind[queue[i]])
           /\ group' = SubSeq(queue, 1, n)
    BY <1>3, Zenon DEF EnterAsBatchGroupLeader, FormGroup
  <2>2. queue \in Seq(Writers) /\ w = queue[1]
    BY <1>3, Zenon DEF EnterAsBatchGroupLeader, QueueInv, QueueTypeOK, LeaderIsFirst
  <2>3. Len(group') = n /\ \A i \in 1 .. n : group'[i] = queue[i]
    BY <2>1, <2>2
  <2> QED
    BY <1>1, <2>1, <2>2, <2>3 DEF GroupRules, MayFollow
<1>4. CASE group' = <<>>
  BY <1>4, SMTT(30), SMTT(45) DEF GroupRules
<1> QED
  BY <1>2, <1>3, <1>4, GroupFrame, Zenon

\* A call outside the group that has not returned is untouched.
LEMMA StepKeepsNotStarted ==
    ASSUME TypeOK, QueueInv, StepPhase, NotStarted, NEW w \in Writers, Step(w)
    PROVE  NotStarted'
<1> SUFFICES ASSUME NEW v \in Writers, v \notin Members(group)', step'[v] # "done"
             PROVE  Untouched(v)'
  BY Zenon DEF NotStarted
<1>1. v \notin Members(group)
  <2>1. CASE group' = group
    BY <2>1, Zenon DEF Members
  <2>2. CASE ExitAsBatchGroupLeader(w)
    BY <2>2, Zenon DEF ExitAsBatchGroupLeader
  <2> QED
    BY <2>1, <2>2, GroupFrame, Zenon
<1>2. step[v] # "done"
  BY StepFrame, Zenon
<1>3. Untouched(v)
  BY <1>1, <1>2, Zenon DEF NotStarted
<1> QED
  BY <1>1, <1>3, StepFrame, Zenon DEF Untouched

\* No step takes LastSequence back.
LEMMA StepAdvances ==
    ASSUME TypeOK, GroupProgress, NEW w \in Writers, Step(w)
    PROVE  LastSequence' >= LastSequence
<1>1. LastSequence \in Nat /\ recoverable \in Nat /\ seq_inc \in Nat
  BY Zenon DEF TypeOK, GroupTypes, DbTypes
<1>2. CASE UnbatchedSwitch(w) \/ PreprocessWrite(w)
  <2>1. LastSequence' = LastSequence + recoverable \/ LastSequence' = LastSequence
    BY <1>2, Zenon DEF UnbatchedSwitch, PreprocessWrite, WriteRecoverableState
  <2> QED
    BY <1>1, <2>1, SMTT(30), SMTT(45)
<1>3. CASE SetLastSequence(w)
  <2>1. LastSequence' = last_sequence /\ Ranged
    BY <1>3, Zenon DEF SetLastSequence, GroupProgress, Ready
  <2> QED
    BY <1>1, <2>1, SMTT(30), SMTT(45) DEF Ranged
<1>4. CASE ~ \/ UnbatchedSwitch(w) \/ PreprocessWrite(w) \/ SetLastSequence(w)
  <2>1. LastSequence' = LastSequence
    BY <1>4, Zenon
       DEF Step, JoinBatchGroup, RejectCall, EnterAsBatchGroupLeader,
       CheckCallback, WriteToWAL, SkipBatch, StartBatch, InsertSerial,
       FailSerial, FinishBatch, FinishSerial, AssignSequence,
       LaunchParallelMemTableWriters, InsertParallel, FailParallel,
       CompleteParallelMemTableWriter, WriteStatusCheck, PreRelease,
       ExitAsBatchGroupLeader, insertFrame, dbVars
  <2> QED
    BY <1>1, <2>1
<1> QED
  BY <1>2, <1>3, <1>4, Zenon

\* What a call has been told stays true.
LEMMA StepKeepsReturned ==
    ASSUME TypeOK, TypeOK', QueueInv, StepPhase, NotStarted, GroupProgress, Returned,
           NEW w \in Writers, Step(w)
    PROVE  Returned'
<1>1. /\ step \in [Writers -> Steps] /\ result \in [Writers -> Statuses \cup {"none"}]
      /\ kind' = kind /\ (diverged => diverged')
  BY StepFrame, Zenon DEF TypeOK, CallTypes
<1>2. ASSUME NEW v \in Writers, step[v] = "done"
      PROVE  /\ Settled(v)' /\ step'[v] = "done"
             /\ ~diverged' /\ result'[v] = "OK" /\ kind'[v].batch =>
                   ~CallbackFailed(v)' /\ sequence'[v] # 0
  <2>1. /\ sequence'[v] = sequence[v] /\ cursor'[v] = cursor[v]
        /\ callback_status'[v] = callback_status[v]
        /\ step'[v] = "done" /\ result'[v] = result[v]
    BY <1>2, StepFrame, Zenon
  <2>2. Settled(v)
    BY <1>2, Zenon DEF Returned
  <2>3. Span(v)' = Span(v) /\ Span(v) \in Nat /\ sequence[v] \in Nat
    BY <1>1, <2>1, KindFacts, Zenon DEF Span, SpanIf, TypeOK, CallTypes
  <2>4. LastSequence' >= LastSequence /\ LastSequence \in Nat /\ LastSequence' \in Nat
    BY StepAdvances, Zenon DEF TypeOK, DbTypes
  <2>5. sequence'[v] # 0 => sequence'[v] + Span(v)' <= LastSequence' + 1
    BY <2>1, <2>2, <2>3, <2>4 DEF Settled
  <2>6. sequence'[v] # 0 /\ ~diverged' => Inserted(v)'
    BY <1>1, <2>1, <2>2, Zenon DEF Settled, Inserted, ToMemtable, CallbackFailed
  <2> QED
    BY <1>1, <1>2, <2>1, <2>5, <2>6, Zenon DEF Settled, Returned, CallbackFailed
<1>3. CASE RejectCall(w) \/ UnbatchedSwitch(w)
  <2>1. /\ step'[w] = "done"
        /\ \A v \in Writers : v # w => step'[v] = step[v] /\ result'[v] = result[v]
    BY <1>1, <1>3, Zenon DEF RejectCall, UnbatchedSwitch, Goto
  <2>2. w \notin Members(group) /\ step[w] # "done"
    <3>1. CASE RejectCall(w)
      BY <3>1, GroupFacts, Zenon DEF RejectCall, StepPhase, Members
    <3>2. CASE UnbatchedSwitch(w)
      BY <3>2, GroupFacts, SMTT(60), SMTT(45) DEF UnbatchedSwitch, ExitAlone, StepPhase, Members
    <3> QED
      BY <1>3, <3>1, <3>2, Zenon
  <2>3. sequence'[w] = 0
    BY <2>2, StepFrame, Zenon DEF NotStarted, Untouched
  <2>4. result'[w] = "OK" => ~kind[w].batch
    BY <1>1, <1>3, Zenon DEF RejectCall, UnbatchedSwitch, Returned
  <2> QED
    BY <1>1, <1>2, <2>1, <2>3, <2>4, Zenon DEF Returned, Settled
<1>4. CASE ExitAsBatchGroupLeader(w)
  <2>1. /\ step[w] = "exit"
        /\ UNCHANGED <<callback_status, sequence, cursor, LastSequence, diverged>>
        /\ result' = [x \in Writers |-> IF x \in Members(group) THEN ExitStatus(x)
                                                                ELSE result[x]]
        /\ step' = [x \in Writers |-> IF x \in Members(group) THEN "done" ELSE step[x]]
    BY <1>4, Zenon DEF ExitAsBatchGroupLeader
  <2>2. ASSUME NEW x \in Members(group), x \in Writers
        PROVE  /\ Settled(x)'
               /\ ~diverged' /\ result'[x] = "OK" => ~CallbackFailed(x)' /\ sequence'[x] # 0
    <3>1. PICK i \in 1 .. Len(group) : x = group[i]
      BY GroupFacts, Zenon
    <3>2. Leaving
      BY <2>1, Zenon DEF GroupProgress
    <3>3. /\ Settled(x)
          /\ ~diverged /\ leader_status = "OK" /\ ~CallbackFailed(x) => sequence[x] # 0
      BY <3>1, <3>2, Zenon DEF Leaving
    <3>4. Settled(x)'
      BY <1>1, <2>1, <3>3, Zenon DEF Settled, Span, SpanIf, Inserted, ToMemtable, CallbackFailed
    <3>5. result'[x] = "OK" => leader_status = "OK" /\ ~CallbackFailed(x)
      BY <2>1, <2>2, Zenon DEF ExitStatus, FinalStatus, CallbackFailed
    <3> QED
      BY <2>1, <3>3, <3>4, <3>5, Zenon DEF CallbackFailed
  <2>3. ASSUME NEW v \in Writers
        PROVE  /\ result'[v] # "none" => step'[v] = "done"
               /\ step'[v] = "unbatched" => ~kind'[v].batch
               /\ step'[v] = "done" =>
                     /\ Settled(v)'
                     /\ ~diverged' /\ result'[v] = "OK" /\ kind'[v].batch =>
                           ~CallbackFailed(v)' /\ sequence'[v] # 0
    <3>1. CASE v \in Members(group)
      BY <2>1, <2>2, <3>1, Zenon
    <3>2. CASE v \notin Members(group)
      BY <1>1, <1>2, <2>1, <3>2, Zenon DEF Returned
    <3> QED
      BY <3>1, <3>2, Zenon
  <2> QED
    BY <2>3, Zenon DEF Returned
<1>5. CASE ~ \/ RejectCall(w) \/ UnbatchedSwitch(w) \/ ExitAsBatchGroupLeader(w)
  <2>1. UNCHANGED result
    BY <1>5, Zenon
       DEF Step, JoinBatchGroup, PreprocessWrite, EnterAsBatchGroupLeader,
       CheckCallback, WriteToWAL, SkipBatch, StartBatch, InsertSerial,
       FailSerial, FinishBatch, FinishSerial, AssignSequence,
       LaunchParallelMemTableWriters, InsertParallel, FailParallel,
       CompleteParallelMemTableWriter, WriteStatusCheck, PreRelease,
       SetLastSequence, insertFrame
  <2>2. \A v \in Writers :
           /\ step'[v] = "done" => step[v] = "done"
           /\ step'[v] = "unbatched" => step[v] = "unbatched" \/ ~kind[v].batch
    BY <1>1, <1>5, ZenonT(30) DEF Step, JoinBatchGroup, PreprocessWrite,
       EnterAsBatchGroupLeader, CheckCallback, WriteToWAL, SkipBatch,
       StartBatch,
       InsertSerial, FailSerial, FinishBatch, FinishSerial, AssignSequence,
       LaunchParallelMemTableWriters, InsertParallel, FailParallel,
       CompleteParallelMemTableWriter, WriteStatusCheck, PreRelease,
       SetLastSequence, InsertKey, Goto
  <2> QED
    BY <1>1, <1>2, <2>1, <2>2, Zenon DEF Returned
<1> QED
  BY <1>3, <1>4, <1>5, Zenon

\* A call numbered from the group's range shares no number with another.
LEMMA FreshNumber ==
    ASSUME TypeOK, QueueInv, StepPhase, NotStarted, Returned, Ranged,
           NEW p \in 1 .. Len(group),
           \A j \in 1 .. Len(group) : j # p /\ sequence[group[j]] # 0 => Numbered(j),
           NEW v \in Writers, v # group[p], sequence[v] # 0
    PROVE  \/ sequence[v] + Span(v) <= LastSequence + 1 + offset[group[p]]
           \/ LastSequence + 1 + offset[group[p]] + Span(group[p]) <= sequence[v]
<1>1. PICK x \in Writers : x = group[p]
  BY GroupFacts, Zenon
<1>2. /\ offset[x] \in Nat /\ Span(x) \in Nat /\ offset[v] \in Nat /\ Span(v) \in Nat
      /\ LastSequence \in Nat /\ sequence[v] \in Nat
  BY KindFacts, Zenon DEF TypeOK, CallTypes, GroupTypes, DbTypes
<1>3. CASE v \in Members(group)
  <2>1. PICK j \in 1 .. Len(group) : v = group[j]
    BY <1>3, GroupFacts, Zenon
  <2>2. j # p /\ sequence[v] = LastSequence + 1 + offset[v]
    BY <2>1, Zenon DEF Numbered
  <2>3. /\ j < p => offset[v] + Span(v) <= offset[x]
        /\ p < j => offset[x] + Span(x) <= offset[v]
    BY <1>1, <2>1, Zenon DEF Ranged, Chain
  <2>4. j < p \/ p < j
    BY <2>2, GroupFacts
  <2> QED
    BY <1>1, <1>2, <2>2, <2>3, <2>4, SMTT(30), SMTT(45)
<1>4. CASE v \notin Members(group)
  <2>1. step[v] = "done"
    BY <1>4, Zenon DEF NotStarted, Untouched
  <2>2. sequence[v] + Span(v) <= LastSequence + 1
    BY <2>1, Zenon DEF Returned, Settled
  <2> QED
    BY <1>1, <1>2, <2>2, SMTT(30), SMTT(45)
<1> QED
  BY <1>3, <1>4, Zenon

\* StartBatch and AssignSequence give out fresh numbers.
LEMMA StepKeepsUnique ==
    ASSUME TypeOK, QueueInv, StepPhase, NotStarted, Returned, GroupProgress,
           SequencesAreUnique, NoState', NEW w \in Writers, Step(w)
    PROVE  SequencesAreUnique'
<1>1. /\ sequence \in [Writers -> Nat] /\ LastSequence \in Nat /\ kind' = kind
      /\ callback_status \in [Writers -> {"OK", "Busy"}]
  BY StepFrame, Zenon DEF TypeOK, CallTypes, DbTypes
<1> SUFFICES \A u, v \in Writers : u # v => Taken(u)' \cap Taken(v)' = {}
  BY Zenon DEF SequencesAreUnique, NoState
<1>2. CASE CheckCallback(w)
  <2>1. \A v \in Writers : Taken(v)' = Taken(v)
    <3> SUFFICES ASSUME NEW v \in Writers PROVE Taken(v)' = Taken(v)
      BY Zenon
    <3>1. PICK x \in Writers, cb \in {"OK", "Busy"} :
             /\ sequence[x] = 0 /\ sequence' = sequence
             /\ callback_status' = [callback_status EXCEPT ![x] = cb]
      <4>1. InCallbacks /\ pos \in 1 .. Len(group) /\ group[pos] \in Writers
        BY <1>2, GroupFacts, SMTT(60), SMTT(45)
           DEF CheckCallback, GroupProgress, TypeOK, GroupTypes
      <4> QED
        BY <1>2, <4>1, Zenon DEF CheckCallback, InCallbacks
    <3> QED
      BY <1>1, <3>1, Zenon DEF Taken, Span, SpanIf
  <2> QED
    BY <2>1, Zenon DEF SequencesAreUnique
<1>3. ASSUME callback_status' = callback_status,
             NEW p \in 1 .. Len(group), NEW x \in Writers, x = group[p], Ranged,
             \A j \in 1 .. Len(group) : j # p /\ sequence[group[j]] # 0 => Numbered(j),
             sequence' = [sequence EXCEPT ![x] = LastSequence + 1 + offset[x]]
      PROVE  \A u, v \in Writers : u # v => Taken(u)' \cap Taken(v)' = {}
  <2>1. \A v \in Writers : v # x => Taken(v)' = Taken(v)
    BY <1>1, <1>3, Zenon DEF Taken, Span, SpanIf
  <2>2. ASSUME NEW v \in Writers, v # x PROVE Taken(x)' \cap Taken(v)' = {}
    <3>1. sequence'[x] = LastSequence + 1 + offset[x] /\ Span(x)' = Span(x)
      BY <1>1, <1>3, Zenon DEF Span, SpanIf
    <3>2. /\ offset[x] \in Nat /\ Span(x) \in Nat /\ Span(v) \in Nat
          /\ sequence[v] \in Nat
      BY KindFacts, Zenon DEF TypeOK, CallTypes, GroupTypes
    <3>3. CASE sequence[v] = 0
      BY <2>1, <2>2, <3>3, Zenon DEF Taken
    <3>4. CASE sequence[v] # 0
      <4>1. \/ sequence[v] + Span(v) <= LastSequence + 1 + offset[x]
            \/ LastSequence + 1 + offset[x] + Span(x) <= sequence[v]
        BY <1>3, <2>2, <3>4, FreshNumber, Zenon
      <4>2. Taken(v)' = sequence[v] .. sequence[v] + Span(v) - 1
        BY <2>1, <2>2, <3>4, Zenon DEF Taken
      <4>3. Taken(x)' = LastSequence + 1 + offset[x] ..
                          LastSequence + 1 + offset[x] + Span(x) - 1
        BY <1>1, <3>1, <3>2, SMTT(30), SMTT(45) DEF Taken
      <4> QED
        BY <1>1, <3>2, <4>1, <4>2, <4>3, SMTT(30), SMTT(45)
    <3> QED
      BY <3>3, <3>4, Zenon
  <2> QED
    BY <2>1, <2>2, Zenon DEF SequencesAreUnique
<1>4. CASE StartBatch(w)
  <2>1. PICK x \in Writers : Inserting(w, x) /\ sequence[x] = 0
           /\ sequence' = [sequence EXCEPT ![x] = next_sequence]
    BY <1>4, Zenon DEF StartBatch
  <2>2. PICK p \in 1 .. Len(group) : p = pos /\ x = group[p]
    BY <2>1, GroupFacts, SMTT(30), SMTT(45) DEF Inserting, TypeOK, GroupTypes
  <2>3. InInsert /\ callback_status' = callback_status
    BY <1>4, <2>1, Zenon DEF Inserting, GroupProgress, StartBatch, insertFrame
  <2>4. next_sequence = LastSequence + 1 + offset[x] /\ Ranged
    BY <2>2, <2>3, SMTT(30), SMTT(45) DEF InInsert, NextNumber
  <2>5. \A j \in 1 .. Len(group) : j # p /\ sequence[group[j]] # 0 => Numbered(j)
    <3> SUFFICES ASSUME NEW j \in 1 .. Len(group), j # p, sequence[group[j]] # 0
                 PROVE  Numbered(j)
      BY Zenon
    <3>1. j < p
      BY <2>2, <2>3, GroupFacts, SMTT(30), SMTT(45) DEF InInsert, MemberInserted
    <3>2. NumberedOrRefused(j)
      BY <2>2, <2>3, <3>1, Zenon DEF InInsert, MemberInserted
    <3> QED
      BY <3>2, Zenon DEF NumberedOrRefused, Numbered
  <2> QED
    BY <1>3, <2>1, <2>2, <2>3, <2>4, <2>5, Zenon
<1>5. CASE AssignSequence(w)
  <2>1. InAssign /\ callback_status' = callback_status
    BY <1>5, Zenon DEF AssignSequence, GroupProgress, insertFrame
  <2>2. PICK p \in 1 .. Len(group), x \in Writers : p = pos /\ x = group[p]
    <3>1. pos <= Len(group) /\ pos \in Nat \ {0} /\ Len(group) \in Nat
      BY <1>5, GroupFacts, Zenon DEF AssignSequence, TypeOK, GroupTypes
    <3> QED
      BY <3>1, GroupFacts, SMTT(30), SMTT(45)
  <2>3. CASE CallbackFailed(x)
    <3>1. sequence' = sequence
      BY <1>5, <2>2, <2>3, Zenon DEF AssignSequence
    <3>2. \A v \in Writers : Taken(v)' = Taken(v)
      BY <1>1, <2>1, <3>1, Zenon DEF Taken, Span, SpanIf
    <3> QED
      BY <3>2, Zenon DEF SequencesAreUnique
  <2>4. CASE ~CallbackFailed(x)
    <3>1. sequence' = [sequence EXCEPT ![x] = next_sequence]
      BY <1>5, <2>2, <2>4, Zenon DEF AssignSequence
    <3>2. next_sequence = LastSequence + 1 + offset[x] /\ Ranged
      BY <2>1, <2>2 DEF InAssign, NextNumber
    <3>3. \A j \in 1 .. Len(group) : j # p /\ sequence[group[j]] # 0 => Numbered(j)
      <4> SUFFICES ASSUME NEW j \in 1 .. Len(group), j # p, sequence[group[j]] # 0
                   PROVE  Numbered(j)
        BY Zenon
      <4>1. NumberedOrRefused(j)
        BY <2>1, Zenon DEF InAssign
      <4> QED
        BY <4>1, Zenon DEF NumberedOrRefused, Numbered
    <3> QED
      BY <1>3, <2>1, <2>2, <3>1, <3>2, <3>3, Zenon
  <2> QED
    BY <2>3, <2>4, Zenon
<1>6. CASE ~(CheckCallback(w) \/ StartBatch(w) \/ AssignSequence(w))
  <2>1. UNCHANGED <<sequence, callback_status>>
    BY <1>6, Zenon
       DEF Step, JoinBatchGroup, RejectCall, UnbatchedSwitch, PreprocessWrite,
       EnterAsBatchGroupLeader, WriteToWAL, SkipBatch, InsertSerial, FailSerial,
       FinishBatch, FinishSerial, LaunchParallelMemTableWriters, InsertParallel,
       FailParallel, CompleteParallelMemTableWriter, WriteStatusCheck,
       PreRelease, SetLastSequence, ExitAsBatchGroupLeader, insertFrame
  <2>2. \A v \in Writers : Taken(v)' = Taken(v)
    BY <1>1, <2>1, Zenon DEF Taken, Span, SpanIf
  <2> QED
    BY <2>2, Zenon DEF SequencesAreUnique
<1> QED
  BY <1>2, <1>4, <1>5, <1>6, Zenon

-----------------------------------------------------------------------------
(***************************************************************************)
(* The work of a group.                                                    *)
(***************************************************************************)

\* Every checked member extends the chain of offsets by its span.
LEMMA CheckCallbackProgress ==
    ASSUME TypeOK, QueueInv, StepPhase, GroupProgress, NEW w \in Writers,
           CheckCallback(w)
    PROVE  GroupProgress'
<1>1. /\ step[w] = "callbacks" /\ step' = [step EXCEPT ![w] = "callbacks"]
      /\ phase[w] = "leader"
  BY Zenon DEF CheckCallback, StepPhase, LeaderSteps, TypeOK, CallTypes
<1>2. InCallbacks
  BY <1>1, Zenon DEF GroupProgress
<1>3. PICK p \in 1 .. Len(group), x \in Writers :
         /\ p = pos /\ x = group[p] /\ Len(group) \in Nat
         /\ \A i \in 1 .. Len(group) : group[i] \in Writers /\ (group[i] = x => i = p)
  <2>1. pos <= Len(group) /\ pos \in Nat \ {0} /\ Len(group) \in Nat
    BY GroupFacts, Zenon DEF CheckCallback, TypeOK, GroupTypes
  <2> QED
    BY <2>1, GroupFacts
<1>4. PICK cb \in {"OK", "Busy"} :
         /\ callback_status' = [callback_status EXCEPT ![x] = cb]
         /\ seq_inc' = seq_inc + SpanIf(x, cb)
  BY <1>3, Zenon DEF CheckCallback
<1>5. /\ offset' = [offset EXCEPT ![x] = seq_inc] /\ pos' = p + 1
      /\ UNCHANGED <<group, kind, status, sequence, cursor, last_sequence,
                     LastSequence>>
  BY <1>3, Zenon DEF CheckCallback, queueVars, dbVars
<1>6. /\ Span(x)' = SpanIf(x, cb) /\ SpanIf(x, cb) \in Nat
      /\ offset'[x] = seq_inc /\ seq_inc \in Nat
  BY <1>4, <1>5, KindFacts, Zenon DEF Span, SpanIf, TypeOK, CallTypes, GroupTypes
<1>7. \A i \in 1 .. Len(group) : i # p =>
         /\ Span(group[i])' = Span(group[i]) /\ Span(group[i]) \in Nat
         /\ offset'[group[i]] = offset[group[i]] /\ offset[group[i]] \in Nat
         /\ callback_status'[group[i]] = callback_status[group[i]]
  BY <1>3, <1>4, <1>5, KindFacts, Zenon
     DEF Span, SpanIf, TypeOK, CallTypes, GroupTypes
<1>8. Chain(p)'
  <2>1. Chain(p - 1)
    BY <1>2, <1>3, Zenon DEF InCallbacks
  <2>2. offset'[group[1]] = 0
    <3>1. CASE p = 1
      <4>1. seq_inc = 0
        BY <2>1, <3>1 DEF Chain
      <4> QED
        BY <1>3, <1>6, <3>1, <4>1, Zenon
    <3>2. CASE p # 1
      <4>1. offset[group[1]] = 0
        BY <2>1, <3>2 DEF Chain
      <4> QED
        BY <1>3, <1>7, <3>2, <4>1
    <3> QED
      BY <3>1, <3>2, Zenon
  <2>3. ASSUME NEW i \in 1 .. p
        PROVE  /\ offset'[group[i]] + Span(group[i])' <= seq_inc'
               /\ i = p => seq_inc' = offset'[group[i]] + Span(group[i])'
               /\ i < p => offset'[group[i + 1]] = offset'[group[i]] + Span(group[i])'
    <3>1. CASE i = p
      <4>1. offset'[group[i]] = seq_inc /\ Span(group[i])' = SpanIf(x, cb)
        BY <1>3, <1>5, <1>6, <3>1, Zenon
      <4> QED
        BY <1>4, <1>6, <3>1, <4>1
    <3>2. CASE i < p
      <4>1. /\ i \in 1 .. p - 1 /\ i \in 1 .. Len(group)
            /\ i + 1 = p \/ (i < p - 1 /\ i + 1 \in 1 .. Len(group))
        BY <1>3, <3>2
      <4>2. /\ offset[group[i]] + Span(group[i]) <= seq_inc
            /\ i = p - 1 => seq_inc = offset[group[i]] + Span(group[i])
            /\ i < p - 1 => offset[group[i + 1]] = offset[group[i]] + Span(group[i])
        BY <2>1, <4>1, Zenon DEF Chain
      <4> QED
        BY <1>3, <1>4, <1>6, <1>7, <3>2, <4>1, <4>2, SMTT(30), SMTT(45)
    <3> QED
      BY <1>3, <3>1, <3>2
  <2>4. ASSUME NEW i \in 1 .. p, NEW j \in 1 .. p, i < j
        PROVE  offset'[group[i]] + Span(group[i])' <= offset'[group[j]]
    <3>1. i \in 1 .. p - 1 /\ i \in 1 .. Len(group) /\ i # p
          /\ (j = p \/ (j \in 1 .. p - 1 /\ j \in 1 .. Len(group) /\ j # p))
      BY <1>3, <2>4
    <3> QED
      BY <1>3, <1>6, <1>7, <2>1, <2>4, <3>1, Zenon DEF Chain
  <2> QED
    BY <1>3, <1>5, <2>2, <2>3, <2>4 DEF Chain
<1>9. InCallbacks'
  <2>1. pos' - 1 = p /\ pos' <= Len(group') + 1 /\ last_sequence' = LastSequence'
    BY <1>2, <1>3, <1>5 DEF InCallbacks
  <2>2. Chain(pos - 1)'
    BY <1>8, <2>1, Zenon DEF Chain
  <2>3. ASSUME NEW i \in 1 .. Len(group)
        PROVE  /\ sequence'[group[i]] = 0 /\ cursor'[group[i]] = 0
               /\ status'[group[i]] = "OK"
               /\ i >= pos' => callback_status'[group[i]] = "OK"
    BY <1>2, <1>3, <1>5, <1>7, SMTT(30), SMTT(45) DEF InCallbacks
  <2> QED
    BY <1>5, <2>1, <2>2, <2>3, Zenon DEF InCallbacks
<1> QED
  BY <1>1, <1>9, ActorStep, Zenon
     DEF Stage, ActorSteps, LeaderSteps, TypeOK, CallTypes

\* EnterAsBatchGroupLeader takes up calls nothing has been done for.
LEMMA EnterProgress ==
    ASSUME TypeOK, QueueInv, QueueInv', StepPhase, NotStarted, GroupProgress,
           NEW w \in Writers, EnterAsBatchGroupLeader(w)
    PROVE  GroupProgress'
<1>1. /\ step[w] = "enter" /\ phase[w] = "leader" /\ group = <<>> /\ phase' = phase
      /\ pos' = 1 /\ seq_inc' = 0
      /\ UNCHANGED <<kind, status, callback_status, sequence, cursor,
                     leader_status, last_sequence, LastSequence>>
      /\ step' = [step EXCEPT ![w] = IF leader_status = "OK" THEN "callbacks"
                                                             ELSE "check"]
  BY Zenon DEF EnterAsBatchGroupLeader, FormGroup, Goto, dbVars
<1>2. /\ Members(group) = {}
      /\ \A v \in Writers : step[v] \notin ActorSteps \cup {"parallel", "waiting"}
  BY <1>1, LoneLeader, Zenon
<1>3. \A i \in 1 .. Len(group') :
         /\ group'[i] \in Writers
         /\ Untouched(group'[i])
  <2>1. group' \in Seq(Writers) /\ queue' \in Seq(Writers)
    BY Zenon DEF QueueInv, QueueTypeOK
  <2>2. \A i \in 1 .. Len(group') : group'[i] \in Writers /\ group'[i] \in Members(queue)'
    BY <2>1 DEF QueueInv, GroupIsPrefix, Members
  <2>3. \A i \in 1 .. Len(group') : phase'[group'[i]] \notin {"idle", "completed"}
    BY <2>2, Zenon DEF QueueInv, LinkedPhases
  <2> QED
    BY <1>1, <1>2, <2>2, <2>3, Zenon DEF NotStarted, StepPhase
<1>4. last_sequence = LastSequence
  BY <1>1, ZenonT(30) DEF GroupProgress
<1>5. InCallbacks'
  <2>1. Len(group') \in Nat
    BY GroupFacts
  <2>2. Chain(pos - 1)'
    BY <1>1 DEF Chain
  <2> QED
    BY <1>1, <1>3, <1>4, <2>1, <2>2, SMTT(30), SMTT(45) DEF InCallbacks, Untouched
<1>6. Abandoned'
  BY <1>1, <1>3, Zenon DEF Abandoned, Untouched
<1>7. \A v \in Writers : v # w =>
         step'[v] \notin ActorSteps \cup {"enter", "parallel", "waiting"}
  <2>1. \A v \in Writers : v # w => phase[v] # "leader"
    BY <1>1, LeaderFacts, Zenon
  <2> QED
    BY <1>1, <1>2, <2>1, Zenon DEF StepPhase, TypeOK, CallTypes
<1>8. step'[w] = IF leader_status = "OK" THEN "callbacks" ELSE "check"
  BY <1>1, Zenon DEF TypeOK, CallTypes
<1> QED
  BY <1>1, <1>5, <1>6, <1>7, <1>8
     DEF GroupProgress, ActorSteps, LeaderSteps, ClosingSteps

\* After the log is written the range of the group is fixed.
LEMMA WriteToWALProgress ==
    ASSUME TypeOK, QueueInv, StepPhase, GroupProgress, NEW w \in Writers,
           WriteToWAL(w)
    PROVE  GroupProgress'
<1>1. /\ step[w] = "callbacks" /\ phase[w] = "leader" /\ pos > Len(group)
      /\ group # <<>>
  BY Zenon DEF WriteToWAL, StepPhase, LeaderSteps
<1>2. InCallbacks
  BY <1>1, Zenon DEF GroupProgress
<1>3. /\ pos' = 1 /\ next_sequence' = last_sequence + 1
      /\ last_sequence' = last_sequence + seq_inc
      /\ UNCHANGED <<group, kind, status, callback_status, sequence, cursor,
                     seq_inc, offset, LastSequence>>
  BY Zenon DEF WriteToWAL, queueVars
<1>4. Len(group) \in Nat /\ Len(group) >= 1 /\ pos - 1 = Len(group)
  BY <1>1, <1>2, GroupFacts, SMTT(30), SMTT(45) DEF InCallbacks, TypeOK, GroupTypes
<1>5. Ranged'
  <2>1. Chain(Len(group))
    BY <1>2, <1>4, Zenon DEF InCallbacks
  <2>2. Chain(Len(group))'
    BY <1>3, <2>1, Zenon DEF Chain, Span, SpanIf
  <2> QED
    BY <1>2, <1>3, <2>2, Zenon DEF InCallbacks, Ranged
<1>6. NextNumber'
  <2>1. offset[group[1]] = 0
    BY <1>2, <1>4, SMTT(30), SMTT(45) DEF InCallbacks, Chain
  <2> QED
    BY <1>2, <1>3, <1>4, <2>1, SMTT(30), SMTT(45)
       DEF InCallbacks, NextNumber, TypeOK, DbTypes
<1>7. \A i \in 1 .. Len(group) :
         /\ sequence'[group[i]] = 0 /\ cursor'[group[i]] = 0
         /\ status'[group[i]] = "OK"
  BY <1>2, <1>3, Zenon DEF InCallbacks
<1>8. leader_status' = "OK" => InAssign' /\ InInsert'
  BY <1>3, <1>4, <1>5, <1>6, <1>7 DEF InAssign, InInsert, MemberInserted
<1>9. Abandoned'
  BY <1>3, <1>7, Zenon DEF Abandoned
<1>10. PICK l \in {"check", "assign", "insert"} :
         /\ step' = [step EXCEPT ![w] = l]
         /\ l = "check" <=> leader_status' # "OK"
  BY Zenon DEF WriteToWAL, Goto
<1>11. step'[w] = l
  BY <1>10, Zenon DEF TypeOK, CallTypes
<1>12. Stage(w)'
  BY <1>8, <1>9, <1>10, <1>11, Zenon DEF Stage
<1> QED
  BY <1>1, <1>10, <1>12, ActorStep, Zenon DEF ActorSteps, LeaderSteps

-----------------------------------------------------------------------------
\* What a leader that inserts the batches of its group knows.
LEMMA SerialFacts ==
    ASSUME TypeOK, QueueInv, StepPhase, GroupProgress, NEW w \in Writers,
           step[w] = "insert"
    PROVE  /\ phase[w] = "leader" /\ InInsert
           /\ pos \in Nat \ {0} /\ Len(group) \in Nat /\ pos <= Len(group) + 1
           /\ LastSequence \in Nat /\ seq_inc \in Nat
           /\ \A i, j \in 1 .. Len(group) :
                 group[i] \in Writers /\ (group[i] = group[j] => i = j)
<1>1. phase[w] = "leader" /\ InInsert
  BY Zenon DEF GroupProgress, StepPhase, LeaderSteps
<1> QED
  BY <1>1, GroupFacts, Zenon DEF InInsert, TypeOK, GroupTypes, DbTypes

\* The numbers of the batch it is at.
LEMMA SerialNumbers ==
    ASSUME TypeOK, QueueInv, StepPhase, GroupProgress, NEW w \in Writers,
           NEW x \in Writers, Inserting(w, x)
    PROVE  /\ next_sequence = LastSequence + 1 + offset[x]
           /\ offset[x] \in Nat /\ Span(x) \in Nat
           /\ pos = Len(group) => seq_inc = offset[x] + Span(x)
           /\ pos < Len(group) => offset[group[pos + 1]] = offset[x] + Span(x)
<1>1. InInsert /\ pos \in 1 .. Len(group) /\ x = group[pos]
  BY SerialFacts, SMTT(30), SMTT(45) DEF Inserting
<1>2. next_sequence = LastSequence + 1 + offset[x]
  BY <1>1 DEF InInsert, NextNumber
<1>3. offset[x] \in Nat /\ Span(x) \in Nat
  BY KindFacts, Zenon DEF TypeOK, GroupTypes
<1>4. /\ pos = Len(group) => seq_inc = offset[x] + Span(x)
      /\ pos < Len(group) => offset[group[pos + 1]] = offset[x] + Span(x)
  BY <1>1, ZenonT(30) DEF InInsert, Ranged, Chain
<1> QED
  BY <1>2, <1>3, <1>4, Zenon

\* The range of the group does not change,
LEMMA RangedFrame ==
    ASSUME Ranged, UNCHANGED <<group, kind, callback_status, last_sequence,
                               seq_inc, offset, LastSequence>>
    PROVE  Ranged'
  BY Zenon DEF Ranged, Chain, Span, SpanIf

\* nor does a member whose number and keys do not.
LEMMA MemberFrame ==
    ASSUME UNCHANGED <<group, kind, callback_status, offset, LastSequence>>,
           NEW i \in 1 .. Len(group), UNCHANGED sequence[group[i]]
    PROVE  /\ Numbered(i) => Numbered(i)'
           /\ NumberedOrRefused(i) => NumberedOrRefused(i)'
           /\ CallbackFailed(group[i])' = CallbackFailed(group[i])
           /\ UNCHANGED cursor[group[i]] /\ Inserted(group[i]) => Inserted(group[i])'
  BY Zenon DEF Numbered, NumberedOrRefused, CallbackFailed, Inserted, ToMemtable

\* A batch that has been dealt with stays so when the leader goes on.
LEMMA NextMember ==
    ASSUME UNCHANGED <<group, kind, callback_status, offset, LastSequence,
                       sequence, cursor>>,
           pos \in Nat, pos' = pos + 1,
           NEW i \in 1 .. Len(group), MemberInserted(i),
           i = pos => NumberedOrRefused(i) /\ Inserted(group[i])
    PROVE  MemberInserted(i)'
<1>1. i \in Int /\ (i < pos' <=> i < pos \/ i = pos) /\ (i >= pos' <=> i > pos)
  OBVIOUS
<1>2. i < pos' => NumberedOrRefused(i) /\ Inserted(group[i])
  BY <1>1, Zenon DEF MemberInserted
<1>3. /\ NumberedOrRefused(i) => NumberedOrRefused(i)'
      /\ Inserted(group[i]) => Inserted(group[i])'
  BY MemberFrame, Zenon
<1>4. i >= pos' => sequence'[group'[i]] = 0
  BY <1>1, Zenon DEF MemberInserted
<1>5. /\ i = pos' => i >= pos'
      /\ i > pos' => i >= pos'
  BY <1>1
<1> QED
  BY <1>2, <1>3, <1>4, <1>5, Zenon DEF MemberInserted

\* The leader passes a batch whose callback failed.
LEMMA SkipBatchInserts ==
    ASSUME TypeOK, QueueInv, StepPhase, GroupProgress, NEW w \in Writers,
           SkipBatch(w)
    PROVE  InInsert'
<1>1. PICK x \in Writers : Inserting(w, x) /\ CallbackFailed(x) /\ pos' = pos + 1
  BY Zenon DEF SkipBatch
<1>2. UNCHANGED <<sequence, cursor, next_sequence, group, kind, callback_status,
                  leader_status, last_sequence, seq_inc, offset, LastSequence>>
  BY Zenon DEF SkipBatch, insertFrame, queueVars
<1>3. InInsert /\ pos \in 1 .. Len(group) /\ x = group[pos] /\ Len(group) \in Nat
  BY <1>1, SerialFacts DEF Inserting
<1>4. sequence[x] = 0 /\ Inserted(x) /\ Span(x) = 0
  BY <1>1, <1>3, ZenonT(30) DEF InInsert, MemberInserted, Inserted, ToMemtable,
     CallbackFailed, Span, SpanIf
<1>5. NextNumber'
  <2>1. LastSequence \in Nat /\ seq_inc \in Nat
    BY Zenon DEF TypeOK, GroupTypes, DbTypes
  <2> QED
    BY <1>1, <1>2, <1>3, <1>4, <2>1, SerialNumbers DEF NextNumber
<1>6. ASSUME NEW i \in 1 .. Len(group) PROVE MemberInserted(i)'
  <2>1. MemberInserted(i)
    BY <1>3, ZenonT(30) DEF InInsert
  <2>2. i = pos => NumberedOrRefused(i) /\ Inserted(group[i])
    BY <1>1, <1>3, <1>4, ZenonT(30) DEF NumberedOrRefused
  <2> QED
    BY <1>1, <1>2, <1>3, <2>1, <2>2, NextMember
<1>7. Ranged'
  BY <1>2, <1>3, RangedFrame, Zenon DEF InInsert
<1> QED
  BY <1>1, <1>2, <1>3, <1>5, <1>6, <1>7 DEF InInsert

\* It gives the next batch its number.
LEMMA StartBatchInserts ==
    ASSUME TypeOK, QueueInv, StepPhase, GroupProgress, NEW w \in Writers,
           StartBatch(w)
    PROVE  InInsert'
<1>1. PICK x \in Writers :
         /\ Inserting(w, x) /\ ~CallbackFailed(x)
         /\ sequence' = [sequence EXCEPT ![x] = next_sequence]
  BY Zenon DEF StartBatch
<1>2. UNCHANGED <<pos, cursor, next_sequence, group, kind, callback_status,
                  leader_status, last_sequence, seq_inc, offset, LastSequence>>
  BY ZenonT(30) DEF StartBatch, insertFrame, queueVars
<1>3. InInsert /\ pos \in 1 .. Len(group) /\ x = group[pos]
  BY <1>1, SerialFacts, SMTT(30), SMTT(45) DEF Inserting
<1>4. NextNumber'
  BY <1>2, <1>3, Zenon DEF InInsert, NextNumber
<1>5. ASSUME NEW i \in 1 .. Len(group) PROVE MemberInserted(i)'
  <2>1. CASE i = pos
    <3>1. sequence'[x] = LastSequence + 1 + offset[x]
      BY <1>1, SerialNumbers, Zenon DEF TypeOK, CallTypes
    <3>2. Numbered(i)'
      BY <1>2, <1>3, <2>1, <3>1, Zenon DEF Numbered
    <3>3. ~CallbackFailed(group[i])'
      BY <1>1, <1>2, <1>3, <2>1, Zenon DEF CallbackFailed
    <3> QED
      BY <1>2, <1>3, <2>1, <3>2, <3>3 DEF MemberInserted
  <2>2. CASE i # pos
    <3>1. group[i] \in Writers /\ group[i] # x
      BY <1>1, <1>3, <2>2, SerialFacts, Zenon DEF Inserting
    <3>2. UNCHANGED sequence[group[i]]
      BY <1>1, <1>2, <3>1, Zenon DEF TypeOK, CallTypes
    <3>3. MemberInserted(i)
      BY <1>3, Zenon DEF InInsert
    <3>4. /\ NumberedOrRefused(i) => NumberedOrRefused(i)'
          /\ Inserted(group[i]) => Inserted(group[i])'
      BY <1>2, <3>2, MemberFrame, Zenon
    <3> QED
      BY <1>2, <2>2, <3>2, <3>3, <3>4, Zenon DEF MemberInserted
  <2> QED
    BY <2>1, <2>2, ZenonT(30)
<1>6. Ranged'
  BY <1>2, <1>3, RangedFrame, Zenon DEF InInsert
<1> QED
  BY <1>2, <1>3, <1>4, <1>5, <1>6, Zenon DEF InInsert

\* It inserts a key.
LEMMA InsertSerialInserts ==
    ASSUME TypeOK, QueueInv, StepPhase, GroupProgress, NEW w \in Writers,
           InsertSerial(w)
    PROVE  InInsert'
<1>1. PICK x \in Writers :
         Inserting(w, x) /\ cursor' = [cursor EXCEPT ![x] = @ + 1]
  BY Zenon DEF InsertSerial, InsertKey
<1>2. UNCHANGED <<pos, sequence, next_sequence, group, kind, callback_status,
                  leader_status, last_sequence, seq_inc, offset, LastSequence>>
  BY ZenonT(30) DEF InsertSerial, insertFrame, queueVars
<1>3. InInsert /\ pos \in 1 .. Len(group) /\ x = group[pos]
  BY <1>1, SerialFacts DEF Inserting
<1>4. NextNumber'
  BY <1>2, <1>3, Zenon DEF InInsert, NextNumber
<1>5. ASSUME NEW i \in 1 .. Len(group) PROVE MemberInserted(i)'
  <2>1. MemberInserted(i)
    BY <1>3, Zenon DEF InInsert
  <2>2. i # pos => UNCHANGED cursor[group[i]]
    <3>1. i # pos => group[i] \in Writers /\ group[i] # x
      BY <1>1, <1>3, SerialFacts, Zenon DEF Inserting
    <3> QED
      BY <1>1, <1>2, <3>1, Zenon DEF TypeOK, CallTypes
  <2>3. /\ Numbered(i) => Numbered(i)'
        /\ NumberedOrRefused(i) => NumberedOrRefused(i)'
        /\ CallbackFailed(group[i])' = CallbackFailed(group[i])
        /\ i # pos /\ Inserted(group[i]) => Inserted(group[i])'
    BY <1>2, <2>2, MemberFrame, Zenon
  <2>4. i < pos => i # pos
    BY <1>3
  <2> QED
    BY <1>2, <2>1, <2>3, <2>4, Zenon DEF MemberInserted
<1>6. Ranged'
  BY <1>2, <1>3, RangedFrame, Zenon DEF InInsert
<1> QED
  BY <1>2, <1>3, <1>4, <1>5, <1>6, Zenon DEF InInsert

\* It goes on to the next batch.
LEMMA FinishBatchInserts ==
    ASSUME TypeOK, QueueInv, StepPhase, GroupProgress, NEW w \in Writers,
           FinishBatch(w)
    PROVE  InInsert'
<1>1. PICK x \in Writers :
         /\ Inserting(w, x) /\ sequence[x] # 0 /\ Inserted(x)
         /\ next_sequence' = next_sequence + SerialSpan(x) /\ pos' = pos + 1
  BY Zenon DEF FinishBatch
<1>2. UNCHANGED <<sequence, cursor, group, kind, callback_status,
                  leader_status, last_sequence, seq_inc, offset, LastSequence>>
  BY Zenon DEF FinishBatch, insertFrame, queueVars
<1>3. InInsert /\ pos \in 1 .. Len(group) /\ x = group[pos] /\ Len(group) \in Nat
  BY <1>1, SerialFacts DEF Inserting
<1>4. Numbered(pos) /\ callback_status[x] = "OK"
  BY <1>1, <1>3, Zenon DEF InInsert, MemberInserted, CallbackFailed
<1>5. SerialSpan(x) = Span(x)
  <2>1. CASE ~ToMemtable(x)
    <3>1. kind[x].disable_memtable /\ kind[x].batch_cnt = 1
      BY <1>4, <2>1, KindFacts, Zenon DEF ToMemtable, CallbackFailed
    <3> QED
      BY <1>4, <2>1, <3>1, Zenon DEF SerialSpan, Span, SpanIf
  <2> QED
    BY <2>1, Zenon DEF SerialSpan
<1>6. NextNumber'
  <2>1. LastSequence \in Nat /\ seq_inc \in Nat
    BY Zenon DEF TypeOK, GroupTypes, DbTypes
  <2> QED
    BY <1>1, <1>2, <1>3, <1>5, <2>1, SerialNumbers, SMTT(30), SMTT(45) DEF NextNumber
<1>7. ASSUME NEW i \in 1 .. Len(group) PROVE MemberInserted(i)'
  <2>1. MemberInserted(i)
    BY <1>3, Zenon DEF InInsert
  <2>2. i = pos => NumberedOrRefused(i) /\ Inserted(group[i])
    BY <1>1, <1>3, <1>4, Zenon DEF NumberedOrRefused, CallbackFailed
  <2> QED
    BY <1>1, <1>2, <1>3, <2>1, <2>2, NextMember
<1>8. Ranged'
  BY <1>2, <1>3, RangedFrame, ZenonT(30) DEF InInsert
<1>9. (pos <= Len(group) + 1)' /\ (leader_status = "OK")'
  BY <1>1, <1>2, <1>3, SMTT(30), SMTT(45) DEF InInsert
<1>10. \A i \in 1 .. Len(group') : MemberInserted(i)'
  BY <1>2, <1>7, Zenon
<1> QED
  BY <1>6, <1>8, <1>9, <1>10, Zenon DEF InInsert

\* At the end of the serial insertion the group is ready.
LEMMA FinishSerialReadies ==
    ASSUME TypeOK, QueueInv, StepPhase, GroupProgress, NEW w \in Writers,
           FinishSerial(w)
    PROVE  Ready'
<1>1. UNCHANGED <<sequence, cursor, group, kind, callback_status, diverged,
                  leader_status, last_sequence, seq_inc, offset, LastSequence>>
  BY Zenon DEF FinishSerial, insertFrame, queueVars
<1>2. InInsert /\ pos \in Nat /\ Len(group) \in Nat /\ pos > Len(group)
  BY SerialFacts, Zenon DEF FinishSerial
<1>3. ASSUME NEW i \in 1 .. Len(group)
      PROVE  /\ NumberedOrRefused(i)' /\ Inserted(group[i])'
             /\ sequence'[group[i]] # 0 => Numbered(i)' /\ ~CallbackFailed(group[i])'
  <2>1. NumberedOrRefused(i) /\ Inserted(group[i])
    BY <1>2 DEF InInsert, MemberInserted
  <2>2. NumberedOrRefused(i)' /\ Inserted(group[i])'
    BY <1>1, <2>1, MemberFrame, Zenon
  <2> QED
    BY <1>1, <2>2, Zenon DEF NumberedOrRefused
<1>4. Ranged'
  BY <1>1, <1>2, RangedFrame, Zenon DEF InInsert
<1> QED
  BY <1>1, <1>3, <1>4, Zenon DEF Ready

\* A failed insert leaves the group ready, with the memtables diverged.
LEMMA FailSerialReadies ==
    ASSUME TypeOK, QueueInv, StepPhase, GroupProgress, NEW w \in Writers,
           FailSerial(w)
    PROVE  Ready'
<1>1. UNCHANGED <<sequence, group, kind, callback_status, leader_status,
                  last_sequence, seq_inc, offset, LastSequence>>
  BY Zenon DEF FailSerial, insertFrame, queueVars
<1>2. diverged' = TRUE /\ step[w] = "insert"
  BY Zenon DEF FailSerial, Inserting
<1>3. InInsert /\ pos \in Nat
  BY <1>2, SerialFacts, Zenon
<1>4. ASSUME NEW i \in 1 .. Len(group), sequence'[group[i]] # 0
      PROVE  Numbered(i)' /\ ~CallbackFailed(group[i])'
  <2>1. MemberInserted(i) /\ sequence[group[i]] # 0
    BY <1>1, <1>3, <1>4, ZenonT(30) DEF InInsert
  <2>2. Numbered(i) /\ ~CallbackFailed(group[i])
    BY <1>3, <2>1, SMTT(30), SMTT(45) DEF MemberInserted, NumberedOrRefused
  <2> QED
    BY <1>1, <2>2, MemberFrame, Zenon
<1>5. Ranged'
  BY <1>1, <1>3, RangedFrame, Zenon DEF InInsert
<1> QED
  BY <1>1, <1>2, <1>4, <1>5, Zenon DEF Ready

\* The serial insertion keeps what is known of the group.
LEMMA SerialProgress ==
    ASSUME TypeOK, QueueInv, StepPhase, GroupProgress, NEW w \in Writers,
           \/ SkipBatch(w) \/ StartBatch(w) \/ InsertSerial(w) \/ FailSerial(w)
           \/ FinishBatch(w) \/ FinishSerial(w)
    PROVE  GroupProgress'
<1>1. step[w] = "insert"
  BY Zenon DEF SkipBatch, StartBatch, InsertSerial, FailSerial, FinishBatch,
     FinishSerial, Inserting
<1>2. phase[w] = "leader" /\ leader_status = "OK"
  BY <1>1, SerialFacts, Zenon DEF InInsert
<1>3. UNCHANGED leader_status
  BY Zenon DEF SkipBatch, StartBatch, InsertSerial, FailSerial, FinishBatch,
     FinishSerial, insertFrame
<1>4. CASE SkipBatch(w) \/ StartBatch(w) \/ InsertSerial(w) \/ FinishBatch(w)
  <2>1. UNCHANGED step
    <3>1. SkipBatch(w) => UNCHANGED step BY Zenon DEF SkipBatch
    <3>2. StartBatch(w) => UNCHANGED step BY Zenon DEF StartBatch
    <3>3. InsertSerial(w) => UNCHANGED step BY Zenon DEF InsertSerial, InsertKey
    <3>4. FinishBatch(w) => UNCHANGED step BY Zenon DEF FinishBatch
    <3> QED BY <1>4, <3>1, <3>2, <3>3, <3>4, Zenon
  <2>2. step' = [step EXCEPT ![w] = "insert"]
    BY <1>1, <2>1, Zenon DEF TypeOK, CallTypes
  <2>3. InInsert'
    BY <1>4, SkipBatchInserts, StartBatchInserts, InsertSerialInserts,
       FinishBatchInserts, Zenon
  <2>4. Stage(w)'
    BY <1>1, <2>1, <2>3, Zenon DEF Stage
  <2> QED
    BY <1>1, <1>2, <2>2, <2>4, ActorStep, Zenon DEF ActorSteps, LeaderSteps
<1>5. CASE FinishSerial(w) \/ FailSerial(w)
  <2>1. step' = [step EXCEPT ![w] = "check"]
    BY <1>5, Zenon DEF FinishSerial, FailSerial, Goto
  <2>2. Ready'
    BY <1>5, FinishSerialReadies, FailSerialReadies, Zenon
  <2>3. step'[w] = "check"
    BY <2>1, Zenon DEF TypeOK, CallTypes
  <2>4. Stage(w)'
    BY <1>2, <1>3, <2>2, <2>3, Zenon DEF Stage
  <2> QED
    BY <1>1, <1>2, <2>1, <2>4, ActorStep, Zenon DEF ActorSteps, LeaderSteps
<1> QED
  BY <1>4, <1>5, Zenon

-----------------------------------------------------------------------------

\* the parallel insertion
LEMMA AssignProgress ==
    ASSUME TypeOK, QueueInv, StepPhase, GroupProgress, NEW w \in Writers,
           AssignSequence(w)
    PROVE  GroupProgress'
<1>1. /\ step[w] = "assign" /\ step' = [step EXCEPT ![w] = "assign"]
      /\ phase[w] = "leader"
  BY Zenon DEF AssignSequence, StepPhase, LeaderSteps, TypeOK, CallTypes
<1>2. InAssign
  BY <1>1, Zenon DEF GroupProgress
<1>3. PICK p \in 1 .. Len(group), x \in Writers :
         /\ p = pos /\ x = group[p] /\ Len(group) \in Nat
         /\ \A i \in 1 .. Len(group) : group[i] \in Writers /\ (group[i] = x => i = p)
  <2>1. pos <= Len(group) /\ pos \in Nat \ {0} /\ Len(group) \in Nat
    BY GroupFacts, Zenon DEF AssignSequence, TypeOK, GroupTypes
  <2> QED
    BY <2>1, GroupFacts
<1>4. /\ pos' = p + 1
      /\ UNCHANGED <<group, kind, status, callback_status, cursor,
                     leader_status, last_sequence, seq_inc, offset, LastSequence>>
      /\ IF CallbackFailed(x)
         THEN UNCHANGED <<sequence, next_sequence>>
         ELSE /\ sequence' = [sequence EXCEPT ![x] = next_sequence]
              /\ next_sequence' = next_sequence + Span(x)
  BY <1>3, Zenon DEF AssignSequence, insertFrame, queueVars
<1>5. Ranged'
  BY <1>2, <1>4, ZenonT(30) DEF InAssign, Ranged, Chain, Span, SpanIf
<1>6. next_sequence = LastSequence + 1 + offset[x]
  BY <1>2, <1>3 DEF InAssign, NextNumber
<1>7. /\ offset[x] \in Nat /\ Span(x) \in Nat /\ LastSequence \in Nat
      /\ p = Len(group) => seq_inc = offset[x] + Span(x)
      /\ p < Len(group) => offset[group[p + 1]] = offset[x] + Span(x)
  BY <1>2, <1>3, KindFacts, Zenon
     DEF InAssign, Ranged, Chain, TypeOK, GroupTypes, DbTypes
<1>8. next_sequence' = next_sequence + Span(x)
  <2>1. CASE CallbackFailed(x)
    BY <1>4, <1>6, <1>7, <2>1 DEF Span, SpanIf, CallbackFailed
  <2>2. CASE ~CallbackFailed(x)
    BY <1>4, <2>2, ZenonT(30)
  <2> QED
    BY <2>1, <2>2, Zenon
<1>9. NextNumber'
  BY <1>3, <1>4, <1>6, <1>7, <1>8, SMTT(30), SMTT(45) DEF NextNumber
<1>10. ASSUME NEW i \in 1 .. Len(group)
       PROVE  /\ IF i < pos' THEN NumberedOrRefused(i)' ELSE sequence'[group[i]] = 0
              /\ cursor'[group[i]] = 0 /\ status'[group[i]] = "OK"
  <2>1. cursor'[group[i]] = 0 /\ status'[group[i]] = "OK"
    BY <1>2, <1>4, ZenonT(30) DEF InAssign
  <2>2. CASE i = p
    <3>1. sequence[x] = 0
      BY <1>2, <1>3 DEF InAssign
    <3>2. NumberedOrRefused(p)'
      BY <1>3, <1>4, <1>6, <3>1, ZenonT(30)
         DEF NumberedOrRefused, Numbered, CallbackFailed, TypeOK, CallTypes
    <3> QED
      BY <1>3, <1>4, <2>1, <2>2, <3>2, SMTT(30), SMTT(45)
  <2>3. CASE i # p
    <3>1. sequence'[group[i]] = sequence[group[i]]
      BY <1>3, <1>4, <2>3, ZenonT(30) DEF TypeOK, CallTypes
    <3>2. CASE i < p
      <4>1. NumberedOrRefused(i)
        BY <1>2, <1>3, <3>2, Zenon DEF InAssign
      <4>2. NumberedOrRefused(i)'
        BY <1>4, <3>1, <4>1, Zenon DEF NumberedOrRefused, Numbered, CallbackFailed
      <4> QED
        BY <1>4, <2>1, <3>2, <4>2, SMTT(30), SMTT(45)
    <3>3. CASE i > p
      BY <1>2, <1>3, <1>4, <2>1, <3>1, <3>3, SMTT(30), SMTT(45) DEF InAssign
    <3> QED
      BY <1>3, <2>3, <3>2, <3>3
  <2> QED
    BY <2>2, <2>3, Zenon
<1>11. InAssign'
  BY <1>2, <1>3, <1>4, <1>5, <1>9, <1>10 DEF InAssign
<1> QED
  BY <1>1, <1>11, ActorStep, Zenon
     DEF Stage, ActorSteps, LeaderSteps, TypeOK, CallTypes

\* The members are launched when all of them are numbered.
LEMMA LaunchProgress ==
    ASSUME TypeOK, QueueInv, StepPhase, GroupProgress, NEW w \in Writers,
           LaunchParallelMemTableWriters(w)
    PROVE  GroupProgress'
<1>1. /\ step[w] = "assign" /\ phase[w] = "leader" /\ group # <<>>
      /\ w \in Members(group) /\ pos > Len(group)
  BY LeaderFacts, Zenon DEF LaunchParallelMemTableWriters, StepPhase, LeaderSteps
<1>2. InAssign
  BY <1>1, Zenon DEF GroupProgress
<1>3. /\ UNCHANGED <<group, kind, status, callback_status, sequence, cursor,
                     leader_status, last_sequence, seq_inc, offset, LastSequence>>
      /\ step' = [x \in Writers |-> IF x \in Members(group) THEN "parallel" ELSE step[x]]
  BY Zenon DEF LaunchParallelMemTableWriters, LaunchParallel, groupVars, dbVars
<1>4. \A i \in 1 .. Len(group) : NumberedOrRefused(i) /\ status[group[i]] = "OK"
  <2> SUFFICES ASSUME NEW i \in 1 .. Len(group)
               PROVE  NumberedOrRefused(i) /\ status[group[i]] = "OK"
    BY Zenon
  <2>1. i < pos
    BY <1>1, GroupFacts DEF TypeOK, GroupTypes
  <2> QED
    BY <1>2, <2>1, Zenon DEF InAssign
<1>5. InParallel'
  <2>1. Ranged' /\ leader_status' = "OK"
    BY <1>2, <1>3, ZenonT(30) DEF InAssign, Ranged, Chain, Span, SpanIf
  <2>2. \A i \in 1 .. Len(group) : NumberedOrRefused(i)'
    BY <1>3, <1>4, Zenon DEF NumberedOrRefused, Numbered, CallbackFailed
  <2> QED
    BY <1>3, <2>1, <2>2, Zenon DEF InParallel
<1>6. \A x \in Members(group) : step'[x] = "parallel" /\ status'[x] = "OK"
  <2> SUFFICES ASSUME NEW x \in Members(group)
               PROVE  step'[x] = "parallel" /\ status'[x] = "OK"
    BY Zenon
  <2>1. x \in Writers /\ \E i \in 1 .. Len(group) : x = group[i]
    BY GroupFacts, Zenon
  <2>2. status[x] = "OK"
    BY <1>4, <2>1, Zenon
  <2> QED
    BY <1>3, <2>1, <2>2, Zenon
<1>7. \A x \in Writers \ Members(group) :
         step'[x] \notin ActorSteps \cup {"enter", "parallel", "waiting"}
  <2>1. \A x \in Writers : x # w =>
           step[x] \notin ActorSteps /\ step[x] \notin {"parallel", "waiting"}
    BY <1>1, OneActor, Zenon DEF ActorSteps, LeaderSteps
  <2> QED
    BY <1>1, <1>3, <2>1, Zenon DEF StepPhase
<1> QED
  BY <1>5, <1>6, <1>7, Zenon DEF GroupProgress, ActorSteps, LeaderSteps, ClosingSteps

\* A parallel writer changes nothing but its own cursor and status.
LEMMA ParallelProgress ==
    ASSUME TypeOK, QueueInv, StepPhase, GroupProgress, NEW w \in Writers,
           InsertParallel(w) \/ FailParallel(w)
    PROVE  GroupProgress'
<1>1. step[w] = "parallel" /\ UNCHANGED step
  BY Zenon DEF InsertParallel, FailParallel, InsertKey
<1>2. InParallel
  BY <1>1, Zenon DEF GroupProgress
<1>3. UNCHANGED <<group, kind, callback_status, sequence, leader_status,
                  last_sequence, seq_inc, offset, LastSequence>>
  BY Zenon DEF InsertParallel, FailParallel, insertFrame, queueVars
<1>4. InParallel'
  BY <1>2, <1>3, ZenonT(30) DEF InParallel, Ranged, Chain, Span, SpanIf, NumberedOrRefused,
     Numbered, CallbackFailed
<1>5. \A v \in Writers : step[v] \notin ActorSteps \cup {"enter"}
  BY <1>1, NoActor, Zenon DEF StepPhase
<1>6. \/ status' = status /\ diverged' = diverged
      \/ diverged' = TRUE
  BY Zenon DEF InsertParallel, FailParallel, InsertKey
<1>7. \A v \in Writers : step[v] = "waiting" => Inserted(v)' \/ diverged'
  <2> SUFFICES ASSUME NEW v \in Writers, step[v] = "waiting" PROVE Inserted(v)' \/ diverged'
    BY Zenon
  <2>1. Inserted(v) \/ diverged
    BY Zenon DEF GroupProgress
  <2>2. v # w => cursor'[v] = cursor[v]
    BY Zenon DEF InsertParallel, FailParallel, InsertKey, TypeOK, CallTypes
  <2>3. diverged => diverged'
    BY <1>6, ZenonT(30)
  <2> QED
    BY <1>1, <1>3, <2>1, <2>2, <2>3, Zenon DEF Inserted, ToMemtable, CallbackFailed
<1>8. \A v \in Writers : step[v] = "parallel" /\ status'[v] # "OK" => diverged'
  <2> SUFFICES ASSUME NEW v \in Writers, step[v] = "parallel", status'[v] # "OK"
               PROVE  diverged'
    BY Zenon
  <2>1. CASE status' = status /\ diverged' = diverged
    <3>1. diverged
      BY <2>1, Zenon DEF GroupProgress
    <3> QED
      BY <2>1, <3>1, Zenon
  <2>2. CASE diverged' = TRUE
    BY <2>2, Zenon
  <2> QED
    BY <1>6, <2>1, <2>2, Zenon
<1> QED
  BY <1>1, <1>4, <1>5, <1>7, <1>8, Zenon
     DEF GroupProgress, ActorSteps, LeaderSteps, ClosingSteps

\* When the last parallel writer reports, every member has inserted.
LEMMA CompleteProgress ==
    ASSUME TypeOK, QueueInv, QueueInv', StepPhase, StepPhase', GroupProgress,
           NEW w \in Writers, CompleteParallelMemTableWriter(w)
    PROVE  GroupProgress'
<1>1. /\ step[w] = "parallel" /\ (Inserted(w) \/ diverged)
      /\ w \in Members(group)
  BY NoActor, Zenon DEF CompleteParallelMemTableWriter, GroupProgress
<1>2. InParallel
  BY <1>1, Zenon DEF GroupProgress
<1>3. UNCHANGED <<group, kind, callback_status, sequence, cursor, leader_status,
                  last_sequence, seq_inc, offset, LastSequence, diverged>>
  BY Zenon DEF CompleteParallelMemTableWriter, CompleteParallel, dbVars
<1>4. InParallel'
  BY <1>2, <1>3, Zenon
     DEF InParallel, Ranged, Chain, Span, SpanIf, NumberedOrRefused,
     Numbered, CallbackFailed
<1>5. \A v \in Writers : step[v] \notin ActorSteps \cup {"enter"}
  BY <1>1, NoActor, Zenon DEF StepPhase
<1>6. \A v \in Writers : v # w => step'[v] = step[v] /\ status'[v] = status[v]
  BY Zenon DEF CompleteParallelMemTableWriter, Goto, TypeOK, CallTypes
<1>7. \A v \in Writers : Inserted(v) \/ diverged => Inserted(v)' \/ diverged'
  BY <1>3, Zenon DEF Inserted, ToMemtable, CallbackFailed
<1>8. CASE running > 1
  <2>1. step'[w] = "waiting"
    BY <1>8, Zenon DEF CompleteParallelMemTableWriter, Goto, TypeOK, CallTypes
  <2> QED
    BY <1>1, <1>3, <1>4, <1>5, <1>6, <1>7, <2>1, Zenon
       DEF GroupProgress, ActorSteps, LeaderSteps, ClosingSteps
<1>9. CASE ~(running > 1)
  <2>1. step'[w] = "release" /\ phase'[w] = "closing"
    BY <1>9, Zenon DEF CompleteParallelMemTableWriter, CompleteParallel, Goto, TypeOK,
       CallTypes, QueueTypeOK
  <2>2. \A v \in Members(group) : v # w => phase'[v] = "waiting"
    <3>1. \A v \in Members(group)' : phase'[v] \in Launched
      BY <1>1, <1>3, <2>1, Zenon DEF QueueInv, LaunchedTogether, Launched, Members
    <3>2. \A v \in Writers : v # w => phase'[v] # "closing"
      BY <2>1, Zenon DEF QueueInv, ClosingIsUnique
    <3>3. \A v \in Writers : phase'[v] # "parallel"
      BY <2>1, Zenon DEF QueueInv, LastOneCloses, ParallelWriters
    <3> QED
      <4> Members(group)' = Members(group)
        BY <1>3, Zenon DEF Members
      <4>1. \A v \in Members(group) : v \in Writers
        BY GroupFacts, Zenon
      <4>2. ASSUME NEW v \in Members(group), v # w PROVE phase'[v] = "waiting"
        BY <3>1, <3>2, <3>3, <4>1, <4>2, Zenon DEF Launched
      <4> QED
        BY <4>2, Zenon
  <2>3. \A v \in Members(group) : v # w => step'[v] = "waiting"
    <3> SUFFICES ASSUME NEW v \in Writers, v # w, phase'[v] = "waiting"
                 PROVE  step'[v] = "waiting"
      BY <2>2, GroupFacts, Zenon
    <3>1. step'[v] \in Steps
      BY <1>6, Zenon DEF TypeOK, CallTypes
    <3> QED
      BY <3>1, Zenon DEF StepPhase, Steps, LeaderSteps, ClosingSteps
  <2>4. \A v \in Members(group) : Inserted(v)' \/ diverged'
    BY <1>1, <1>6, <1>7, <2>3, GroupFacts, Zenon DEF GroupProgress
  <2>5. Ready'
    <3>1. ASSUME NEW i \in 1 .. Len(group)
          PROVE  /\ sequence'[group[i]] # 0 => Numbered(i)' /\ ~CallbackFailed(group[i])'
                 /\ ~diverged' => NumberedOrRefused(i)' /\ Inserted(group[i])'
      <4>1. NumberedOrRefused(i)'
        BY <1>3, <1>4, Zenon DEF InParallel
      <4>2. sequence'[group[i]] # 0 => Numbered(i)' /\ ~CallbackFailed(group[i])'
        BY <1>3, <4>1, Zenon DEF NumberedOrRefused, Numbered, CallbackFailed
      <4>3. PICK v \in Members(group) : v = group[i]
        BY GroupFacts, Zenon
      <4>4. Inserted(v)' \/ diverged'
        BY <2>4, <4>3, Zenon
      <4>5. Inserted(group[i])' \/ diverged'
        BY <1>3, <4>3, <4>4, Zenon
      <4> QED
        BY <4>1, <4>2, <4>5, Zenon
    <3> QED
      BY <1>3, <1>4, <3>1, Zenon DEF Ready, InParallel
  <2>6. \A v \in Writers : v # w => step'[v] # "parallel"
    BY <2>1, Zenon DEF StepPhase, QueueInv, LastOneCloses, ParallelWriters
  <2> QED
    BY <1>5, <1>6, <1>7, <2>1, <2>5, <2>6, Zenon
       DEF GroupProgress, ActorSteps, LeaderSteps, ClosingSteps
<1> QED
  BY <1>8, <1>9, Zenon

\* the end of a group
LEMMA StatusCheckProgress ==
    ASSUME TypeOK, QueueInv, StepPhase, GroupProgress, NEW w \in Writers,
           WriteStatusCheck(w)
    PROVE  GroupProgress'
<1>1. step[w] = "check" /\ UNCHANGED stageVars
      /\ step' = [step EXCEPT ![w] = IF leader_status = "OK" THEN "release" ELSE "exit"]
  BY Zenon DEF WriteStatusCheck, stageVars, queueVars, groupVars, Goto
<1>2. CASE leader_status = "OK"
  <2>1. Ready'
    BY <1>1, <1>2, StageFrame, ZenonT(30) DEF GroupProgress
  <2>2. step' = [step EXCEPT ![w] = "release"] /\ step'[w] = "release"
    BY <1>1, <1>2, Zenon DEF TypeOK, CallTypes
  <2> QED
    BY <1>1, <2>1, <2>2, ActorStep, ZenonT(30)
       DEF Stage, ActorSteps, LeaderSteps, ClosingSteps, stageVars
<1>3. CASE leader_status # "OK"
  <2>1. Abandoned
    BY <1>1, <1>3, Zenon DEF GroupProgress
  <2>2. Leaving
    BY <1>3, <2>1, Zenon DEF Abandoned, Leaving, Settled
  <2>3. Leaving'
    BY <1>1, <2>2, StageFrame, Zenon
  <2>4. step' = [step EXCEPT ![w] = "exit"] /\ step'[w] = "exit"
    BY <1>1, <1>3, Zenon DEF TypeOK, CallTypes
  <2> QED
    BY <1>1, <2>3, <2>4, ActorStep, Zenon
       DEF Stage, ActorSteps, LeaderSteps, ClosingSteps, stageVars
<1> QED
  BY <1>2, <1>3, Zenon

\* The pre-release callbacks leave the group ready.
LEMMA PreReleaseProgress ==
    ASSUME TypeOK, QueueInv, StepPhase, GroupProgress, NEW w \in Writers,
           PreRelease(w)
    PROVE  GroupProgress'
<1>1. /\ step[w] = "release" /\ step' = [step EXCEPT ![w] = "publish"]
      /\ UNCHANGED <<group, kind, callback_status, sequence, cursor, last_sequence,
                     seq_inc, offset, LastSequence, diverged>>
  BY Zenon DEF PreRelease, queueVars, Goto
<1>2. Ready
  BY <1>1, Zenon DEF GroupProgress
<1>3. Ready'
  BY <1>1, <1>2, Zenon DEF Ready, Ranged, Chain, Span, SpanIf, Numbered,
     NumberedOrRefused, Inserted, ToMemtable, CallbackFailed
<1> QED
  BY <1>1, <1>3, ActorStep, Zenon
     DEF Stage, ActorSteps, LeaderSteps, ClosingSteps, TypeOK, CallTypes

\* SetLastSequence settles every member of the group.
LEMMA PublishProgress ==
    ASSUME TypeOK, QueueInv, StepPhase, GroupProgress, NEW w \in Writers,
           SetLastSequence(w)
    PROVE  GroupProgress'
<1>1. /\ step[w] = "publish" /\ step' = [step EXCEPT ![w] = "exit"]
      /\ LastSequence' = last_sequence
      /\ UNCHANGED <<group, kind, callback_status, sequence, cursor, diverged>>
  BY Zenon DEF SetLastSequence, queueVars, groupVars, Goto
<1>2. Ready
  BY <1>1, Zenon DEF GroupProgress
<1>3. ASSUME NEW i \in 1 .. Len(group)
      PROVE  /\ Settled(group[i])'
             /\ ~diverged /\ ~CallbackFailed(group[i]) => sequence[group[i]] # 0
  <2>1. PICK x \in Writers : x = group[i]
    BY GroupFacts, Zenon
  <2>2. /\ offset[x] + Span(x) <= seq_inc /\ last_sequence = LastSequence + seq_inc
        /\ sequence[x] # 0 => sequence[x] = LastSequence + 1 + offset[x]
        /\ ~diverged => Inserted(x)
        /\ ~diverged /\ ~CallbackFailed(x) => sequence[x] = LastSequence + 1 + offset[x]
    BY <1>2, <2>1, Zenon DEF Ready, Ranged, Chain, Numbered, NumberedOrRefused
  <2>3. offset[x] \in Nat /\ Span(x) \in Nat /\ seq_inc \in Nat /\ LastSequence \in Nat
    BY KindFacts, ZenonT(30) DEF TypeOK, GroupTypes, DbTypes
  <2>4. sequence'[x] # 0 => sequence'[x] + Span(x)' <= LastSequence' + 1
    <3>1. Span(x)' = Span(x)
      BY <1>1, Zenon DEF Span, SpanIf
    <3>2. sequence'[x] = sequence[x] /\ LastSequence' = LastSequence + seq_inc
      BY <1>1, <2>2, Zenon
    <3>3. sequence[x] # 0 => sequence[x] = LastSequence + 1 + offset[x]
      BY <2>2, Zenon
    <3>4. offset[x] + Span(x) <= seq_inc
      BY <2>2, Zenon
    <3> HIDE DEF Span
    <3> QED
      BY <2>3, <3>1, <3>2, <3>3, <3>4, SMTT(30), SMTT(45)
  <2>5. ~diverged' => Inserted(x)'
    BY <1>1, <2>2, Zenon DEF Inserted, ToMemtable, CallbackFailed
  <2>6. Settled(x)'
    BY <2>4, <2>5, Zenon DEF Settled
  <2>7. ~diverged /\ ~CallbackFailed(x) => sequence[x] # 0
    BY <2>2, <2>3
  <2> QED
    BY <1>1, <2>1, <2>6, <2>7, Zenon
<1>4. Leaving'
  BY <1>1, <1>3, Zenon DEF Leaving, CallbackFailed
<1> QED
  BY <1>1, <1>4, ActorStep, Zenon
     DEF Stage, ActorSteps, LeaderSteps, ClosingSteps, TypeOK, CallTypes

\* When a group has left nobody acts for one.
LEMMA ExitProgress ==
    ASSUME TypeOK, QueueInv, StepPhase, GroupProgress, NEW w \in Writers,
           ExitAsBatchGroupLeader(w)
    PROVE  GroupProgress'
<1>1. /\ step[w] = "exit" /\ ExitGroup(w)
      /\ step' = [x \in Writers |-> IF x \in Members(group) THEN "done" ELSE step[x]]
  BY Zenon DEF ExitAsBatchGroupLeader
<1>2. w \in Members(group) /\ \A v \in Writers : v # w => step[v] \notin ActorSteps
  BY <1>1, OneActor, Zenon DEF ActorSteps, ClosingSteps
<1>3. \A v \in Writers \ Members(group) : phase[v] \notin Launched \cup {"leader"}
  BY <1>1, ExitGroupFacts, Zenon
<1>4. \A v \in Writers : step'[v] \notin ActorSteps \cup {"enter", "parallel", "waiting"}
  <2> SUFFICES ASSUME NEW v \in Writers
               PROVE  step'[v] \notin ActorSteps \cup {"enter", "parallel", "waiting"}
    BY Zenon
  <2>1. CASE v \in Members(group)
    BY <1>1, <2>1, Zenon DEF ActorSteps, LeaderSteps, ClosingSteps
  <2>2. CASE v \notin Members(group)
    BY <1>1, <1>2, <1>3, <2>2, Zenon DEF StepPhase, Launched
  <2> QED
    BY <2>1, <2>2, Zenon
<1> QED
  BY <1>4, Zenon DEF GroupProgress, ActorSteps, LeaderSteps, ClosingSteps

\* steps of a call outside a group
LEMMA OutsideProgress ==
    ASSUME TypeOK, QueueInv, StepPhase, GroupProgress, NoState, NEW w \in Writers,
           \/ JoinBatchGroup(w) \/ RejectCall(w) \/ UnbatchedSwitch(w)
           \/ PreprocessWrite(w)
    PROVE  GroupProgress'
<1>1. CASE JoinBatchGroup(w) \/ RejectCall(w)
  <2>1. UNCHANGED stageVars
    BY <1>1, Zenon DEF JoinBatchGroup, RejectCall, Link, queueVars, groupVars, dbVars, stageVars
  <2>2. /\ step'[w] \in {"joined", "unbatched", "done"}
        /\ \A v \in Writers : v # w => step'[v] = step[v]
    BY <1>1, Zenon DEF JoinBatchGroup, RejectCall, Goto, TypeOK, CallTypes
  <2>3. \A v \in Writers : step'[v] = "waiting" => Inserted(v)' \/ diverged'
    BY <2>1, <2>2, StageFrame, Zenon DEF GroupProgress, stageVars
  <2>4. /\ InCallbacks => InCallbacks'
        /\ InAssign => InAssign'
    BY <2>1, StageFrame, Zenon
  <2>5. /\ InInsert => InInsert'
        /\ InParallel => InParallel'
    BY <2>1, StageFrame, Zenon
  <2>6. /\ Ready => Ready'
        /\ Abandoned => Abandoned'
        /\ Leaving => Leaving'
    BY <2>1, StageFrame, Zenon
  <2>7. /\ last_sequence' = last_sequence /\ LastSequence' = LastSequence
        /\ status' = status /\ diverged' = diverged /\ leader_status' = leader_status
    BY <2>1, Zenon DEF stageVars
  <2>8. ASSUME NEW v \in Writers, v # w
        PROVE  /\ step'[v] = step[v]
               /\ step'[v] = "enter" => last_sequence' = LastSequence'
               /\ step'[v] = "callbacks" => InCallbacks'
               /\ step'[v] = "assign" => InAssign'
               /\ step'[v] = "insert" => InInsert'
               /\ step'[v] = "parallel" => InParallel'
               /\ step'[v] = "parallel" /\ status'[v] # "OK" => diverged'
               /\ step'[v] = "check" => IF leader_status' = "OK" THEN Ready' ELSE Abandoned'
               /\ step'[v] \in {"release", "publish"} => Ready'
               /\ step'[v] = "exit" => Leaving'
    BY <2>2, <2>4, <2>5, <2>6, <2>7, <2>8, Zenon DEF GroupProgress
  <2>9. step'[w] \notin {"enter", "callbacks", "assign", "insert", "parallel", "check",
                        "release", "publish", "exit"}
    BY <2>2, ZenonT(30)
  <2> QED
    BY <2>3, <2>8, <2>9, Zenon DEF GroupProgress
<1>2. CASE UnbatchedSwitch(w) \/ PreprocessWrite(w)
  <2>1. phase[w] = "leader" /\ group = <<>>
    BY <1>2, Zenon DEF UnbatchedSwitch, PreprocessWrite, ExitAlone, StepPhase
  <2>2. \A v \in Writers : step[v] \notin ActorSteps \cup {"parallel", "waiting"}
    BY <2>1, LoneLeader, Zenon
  <2>3. \A v \in Writers : v # w => step[v] # "enter"
    BY <2>1, LeaderFacts, Zenon DEF StepPhase
  <2>4. /\ step'[w] \in {"enter", "done"}
        /\ \A v \in Writers : v # w => step'[v] = step[v]
    BY <1>2, Zenon DEF UnbatchedSwitch, PreprocessWrite, Goto, TypeOK, CallTypes
  <2>5. step'[w] = "enter" => last_sequence' = LastSequence'
    <3>1. CASE UnbatchedSwitch(w)
      BY <3>1, Zenon DEF UnbatchedSwitch, Goto, TypeOK, CallTypes
    <3>2. CASE PreprocessWrite(w)
      <4>1. last_sequence' = LastSequence
        BY <3>2, Zenon DEF PreprocessWrite
      <4>2. LastSequence' = LastSequence + 0 \/ LastSequence' = LastSequence
        BY <3>2, Zenon DEF PreprocessWrite, WriteRecoverableState, NoState
      <4> QED
        BY <4>1, <4>2 DEF TypeOK, DbTypes
    <3> QED
      BY <1>2, <3>1, <3>2, Zenon
  <2> QED
    BY <2>2, <2>3, <2>4, <2>5, Zenon
       DEF GroupProgress, ActorSteps, LeaderSteps, ClosingSteps
<1> QED
  BY <1>1, <1>2, Zenon

=============================================================================
