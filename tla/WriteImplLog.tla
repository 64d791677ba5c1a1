---------------------------- MODULE WriteImplLog ----------------------------
(***************************************************************************)
(* The log of WriteImpl.tla: that what was acknowledged is in it, which    *)
(* calls are in a record, that a refused call leaves no trace, that replay *)
(* numbers the batches of a record as the insertion did, and what may      *)
(* follow a failed append.                                                 *)
(***************************************************************************)
EXTENDS WriteImplTypes

(***************************************************************************)
(* What the calls that were told OK know of the log (LogWritten).          *)
(***************************************************************************)
\* Without persistent batches there is never a state to restore.
LEMMA StepKeepsNoState ==
    ASSUME NoPersistentState, TypeOK, QueueInv, NoState, NEW w \in Writers, Step(w)
    PROVE  NoState'
<1>1. CASE UnbatchedSwitch(w) \/ PreprocessWrite(w)
  <2>1. LastSequence + 1 .. LastSequence + 0 = {}
    BY DEF TypeOK, DbTypes
  <2>2. WriteRecoverableState \/ UNCHANGED <<restored, recoverable>>
    BY <1>1, Zenon DEF UnbatchedSwitch, PreprocessWrite
  <2> QED
    BY <2>1, <2>2, Zenon DEF WriteRecoverableState, NoState
<1>2. CASE WriteToWAL(w)
  <2>1. CacheState => recoverable' = recoverable
    <3>1. \A i \in 1 .. Len(group) : ~kind[group[i]].persistent
      BY GroupFacts, KindFacts, Zenon DEF NoPersistentState
    <3> QED
      BY <3>1, Zenon DEF CacheState
  <2> QED
    BY <1>2, <2>1, Zenon DEF WriteToWAL, NoState
<1>3. CASE ~(UnbatchedSwitch(w) \/ PreprocessWrite(w) \/ WriteToWAL(w))
  <2>1. UNCHANGED <<restored, recoverable>>
    BY <1>3, Zenon
       DEF Step, JoinBatchGroup, RejectCall, EnterAsBatchGroupLeader,
       CheckCallback, SkipBatch, StartBatch, InsertSerial, FailSerial,
       FinishBatch, FinishSerial, AssignSequence, LaunchParallelMemTableWriters,
       InsertParallel, FailParallel, CompleteParallelMemTableWriter,
       WriteStatusCheck, PreRelease, SetLastSequence, ExitAsBatchGroupLeader,
       insertFrame, dbVars
  <2> QED
    BY <2>1, Zenon DEF NoState
<1> QED
  BY <1>1, <1>2, <1>3, Zenon

-----------------------------------------------------------------------------
\* the log
LEMMA LogGrows ==
    ASSUME TypeOK, QueueInv, synced <= Len(wal), NEW w \in Writers, Step(w), kind' = kind
    PROVE  /\ synced' <= Len(wal')
           /\ \A x \in Writers : Durable(x) => Durable(x)'
<1>1. wal \in Seq(WalRecord) /\ synced \in Nat /\ Len(wal) \in Nat
  BY DEF TypeOK, DbTypes
<1>2. CASE UNCHANGED <<wal, synced>>
  BY <1>2, Zenon DEF Durable
<1>3. ASSUME NEW r, wal' = Append(wal, r), synced' \in {synced, Len(wal) + 1}
      PROVE  /\ synced' <= Len(wal')
             /\ \A x \in Writers : Durable(x) => Durable(x)'
  <2>1. /\ Len(wal') = Len(wal) + 1 /\ synced' >= synced /\ synced' <= Len(wal')
        /\ \A i \in 1 .. Len(wal) : wal'[i] = wal[i]
    BY <1>1, <1>3
  <2> SUFFICES ASSUME NEW x \in Writers, Durable(x) PROVE Durable(x)'
    BY <2>1, Zenon
  <2>2. PICK i \in 1 .. Len(wal) :
           wal[i].ok /\ x \in wal[i].batches /\ (kind[x].sync => i <= synced)
    BY Zenon DEF Durable
  <2>3. i \in 1 .. Len(wal') /\ wal'[i] = wal[i] /\ (kind'[x].sync => i <= synced')
    BY <1>1, <1>3, <2>1, <2>2, SMTT(30), SMTT(45)
  <2> QED
    BY <2>2, <2>3, Zenon DEF Durable
<1>4. CASE WriteToWAL(w)
  <2>1. \/ UNCHANGED <<wal, synced>>
        \/ \E r : wal' = Append(wal, r) /\ synced' \in {synced, Len(wal) + 1}
    BY <1>4, Zenon DEF WriteToWAL
  <2> QED
    BY <1>2, <1>3, <2>1, Zenon
<1>5. CASE ~WriteToWAL(w)
  <2>1. UNCHANGED <<wal, synced>>
    BY <1>5, Zenon
       DEF Step, JoinBatchGroup, RejectCall, UnbatchedSwitch, PreprocessWrite,
       EnterAsBatchGroupLeader, CheckCallback, SkipBatch, StartBatch,
       InsertSerial, FailSerial, FinishBatch, FinishSerial, AssignSequence,
       LaunchParallelMemTableWriters, InsertParallel, FailParallel,
       CompleteParallelMemTableWriter, WriteStatusCheck, PreRelease,
       SetLastSequence, ExitAsBatchGroupLeader, insertFrame, dbVars
  <2> QED
    BY <1>2, <2>1, Zenon
<1> QED
  BY <1>4, <1>5, Zenon

\* A group whose leader disables the log has no member that wants it, and one
\* with a member that wants a sync has a leader that syncs.
LEMMA LeaderLogs ==
    ASSUME TypeOK, QueueInv, GroupRules, NEW w \in Writers, group # <<>>, w = group[1],
           NEW i \in 1 .. Len(group)
    PROVE  /\ kind[w].disable_wal => kind[group[i]].disable_wal
           /\ kind[group[i]].sync => kind[w].sync
<1>1. CASE i = 1
  BY <1>1, Zenon
<1>2. CASE i # 1
  <2>1. MayFollow(kind[w], kind[group[i]])
    BY <1>2, GroupFacts DEF GroupRules
  <2> QED
    BY <2>1, Zenon DEF MayFollow
<1> QED
  BY <1>1, <1>2, Zenon

AfterLog == {"insert", "assign", "parallel", "waiting", "check", "release",
             "publish", "exit"}

\* WriteToWAL logs every member that wants it.
LEMMA StepKeepsLogWritten ==
    ASSUME TypeOK, QueueInv, QueueInv', StepPhase, GroupRules, GroupProgress,
           LogWritten, synced <= Len(wal), NEW w \in Writers, Step(w)
    PROVE  LogWritten'
<1>1. /\ kind' = kind /\ step \in [Writers -> Steps]
      /\ \A x \in Writers : Durable(x) => Durable(x)'
  BY StepFrame, LogGrows, Zenon DEF TypeOK, CallTypes
<1>2. \A i \in 1 .. Len(group) : group[i] \in Writers
  BY GroupFacts, Zenon
<1>3. CASE \/ JoinBatchGroup(w) \/ RejectCall(w) \/ UnbatchedSwitch(w)
           \/ PreprocessWrite(w) \/ EnterAsBatchGroupLeader(w) \/ CheckCallback(w)
           \/ ExitAsBatchGroupLeader(w)
  <2>1. CASE JoinBatchGroup(w) \/ RejectCall(w)
    <3>1. /\ UNCHANGED <<group, callback_status, leader_status>>
          /\ \A v \in Writers : step'[v] \in AfterLog => step[v] \in AfterLog
      BY <1>1, <2>1, Zenon DEF JoinBatchGroup, RejectCall, Link, Goto, queueVars,
         groupVars, AfterLog
    <3>2. ASSUME NEW v \in Writers, step'[v] \in AfterLog, leader_status' = "OK",
                 NEW i \in 1 .. Len(group), ~CallbackFailed(group[i]),
                 ~kind[group[i]].disable_wal
          PROVE  Durable(group[i])'
      <4>1. Durable(group[i])
        BY <3>1, <3>2, Zenon DEF LogWritten, AfterLog
      <4>2. PICK x \in Writers : x = group[i]
        BY <1>2, Zenon
      <4>3. Durable(x)'
        BY <1>1, <4>1, <4>2, Zenon
      <4> QED
        BY <3>1, <4>2, <4>3, Zenon
    <3> QED
      BY <1>1, <3>1, <3>2, Zenon DEF LogWritten, AfterLog, CallbackFailed
  <2>2. CASE UnbatchedSwitch(w) \/ PreprocessWrite(w) \/ EnterAsBatchGroupLeader(w)
    <3>1. phase[w] = "leader" /\ group = <<>>
      BY <2>2, Zenon
         DEF UnbatchedSwitch, PreprocessWrite, EnterAsBatchGroupLeader,
         ExitAlone, StepPhase
    <3>2. \A v \in Writers : step[v] \notin AfterLog
      BY <3>1, LoneLeader, Zenon DEF AfterLog, ActorSteps, LeaderSteps, ClosingSteps
    <3>3. /\ \A v \in Writers : v # w => step'[v] = step[v]
          /\ step'[w] \in {"done", "enter", "callbacks"} \/ leader_status' # "OK"
      BY <1>1, <2>2, Zenon
         DEF UnbatchedSwitch, PreprocessWrite, EnterAsBatchGroupLeader, Goto
    <3> QED
      BY <3>2, <3>3, Zenon DEF LogWritten, AfterLog
  <2>3. CASE CheckCallback(w)
    <3>1. step[w] = "callbacks" /\ phase[w] = "leader" /\ step' = step
      BY <2>3, Zenon DEF CheckCallback, StepPhase, LeaderSteps
    <3>2. \A v \in Writers : step[v] \notin AfterLog
      BY <3>1, OneActor, Zenon
         DEF AfterLog, ActorSteps, LeaderSteps, ClosingSteps
    <3> QED
      BY <3>1, <3>2, Zenon DEF LogWritten, AfterLog
  <2>4. CASE ExitAsBatchGroupLeader(w)
    <3>1. group' = <<>>
      BY <2>4, ExitGroupFacts, Zenon DEF ExitAsBatchGroupLeader
    <3> QED
      BY <3>1, SMTT(60), SMTT(45) DEF LogWritten
  <2> QED
    BY <1>3, <2>1, <2>2, <2>3, <2>4, Zenon
<1>4. CASE WriteToWAL(w)
  <2>1. /\ group # <<>> /\ w = group[1] /\ UNCHANGED <<group, callback_status>>
    BY <1>4, LeaderFacts, Zenon
       DEF WriteToWAL, StepPhase, LeaderSteps, queueVars
  <2>2. ASSUME NEW i \in 1 .. Len(group), leader_status' = "OK",
               ~CallbackFailed(group[i]), ~kind[group[i]].disable_wal
        PROVE  Durable(group[i])'
    <3>1. ~kind[w].disable_wal
      BY <2>1, <2>2, LeaderLogs, Zenon
    <3>2. PICK ok \in BOOLEAN :
             /\ wal' = Append(wal, [seq |-> last_sequence + 1, order |-> group,
                                    batches |-> MergeBatch, ok |-> ok])
             /\ leader_status' = (IF ok THEN "OK" ELSE "IOError")
             /\ synced' = IF ok /\ kind[w].sync THEN Len(wal) + 1 ELSE synced
      BY <1>4, <3>1, Zenon DEF WriteToWAL
    <3>3. ok
      BY <2>2, <3>2, Zenon
    <3>4. PICK x \in Writers : x = group[i]
      BY <1>2, Zenon
    <3>5. x \in MergeBatch
      BY <2>2, <3>4, GroupFacts, Zenon DEF MergeBatch
    <3>6. kind[x].sync => kind[w].sync
      BY <2>1, <3>4, LeaderLogs, Zenon
    <3>7. Len(wal') = Len(wal) + 1 /\ Len(wal) \in Nat
          /\ wal'[Len(wal) + 1] = [seq |-> last_sequence + 1, order |-> group,
                                   batches |-> MergeBatch, ok |-> ok]
      BY <3>2, SMTT(60), SMTT(45) DEF TypeOK, DbTypes
    <3>8. kind'[x].sync => Len(wal) + 1 <= synced'
      BY <1>1, <3>2, <3>3, <3>6, <3>7, SMTT(60), SMTT(45)
    <3>9. Durable(x)'
      <4>1. PICK k \in 1 .. Len(wal') : k = Len(wal) + 1
        BY <3>7, SMTT(30), SMTT(45)
      <4>2. wal'[k].ok /\ x \in wal'[k].batches /\ (kind'[x].sync => k <= synced')
        BY <3>3, <3>5, <3>7, <3>8, <4>1, SMTT(60), SMTT(45)
      <4> QED
        BY <4>2, Zenon DEF Durable
    <3> QED
      BY <2>1, <3>4, <3>9, Zenon
  <2> QED
    BY <1>1, <2>1, <2>2, Zenon DEF LogWritten, CallbackFailed
<1>5. CASE ~ \/ JoinBatchGroup(w) \/ RejectCall(w) \/ UnbatchedSwitch(w)
             \/ PreprocessWrite(w) \/ EnterAsBatchGroupLeader(w) \/ CheckCallback(w)
             \/ ExitAsBatchGroupLeader(w) \/ WriteToWAL(w)
  <2>1. step[w] \in AfterLog
    BY <1>5, Zenon DEF Step, SkipBatch, StartBatch, InsertSerial, FailSerial,
       FinishBatch, FinishSerial, Inserting, AssignSequence,
       LaunchParallelMemTableWriters, InsertParallel, FailParallel,
       CompleteParallelMemTableWriter, WriteStatusCheck, PreRelease,
       SetLastSequence, AfterLog
  <2>2. group' = group /\ callback_status' = callback_status
    <3>1. group' = group
      BY <1>5, GroupFrame, Zenon
    <3>2. callback_status' = callback_status
      BY <1>5, Zenon DEF Step, SkipBatch, StartBatch, InsertSerial, FailSerial,
         FinishBatch, FinishSerial, AssignSequence,
         LaunchParallelMemTableWriters, InsertParallel, FailParallel,
         CompleteParallelMemTableWriter, WriteStatusCheck, PreRelease,
         SetLastSequence, insertFrame
    <3> QED
      BY <3>1, <3>2, Zenon
  <2>3. leader_status' = "OK" => leader_status = "OK"
    BY <1>5, Zenon DEF Step, SkipBatch, StartBatch, InsertSerial, FailSerial,
       FinishBatch, FinishSerial, AssignSequence,
       LaunchParallelMemTableWriters, InsertParallel, FailParallel,
       CompleteParallelMemTableWriter, WriteStatusCheck, PreRelease,
       SetLastSequence, insertFrame, groupVars
  <2>4. ASSUME leader_status' = "OK", NEW i \in 1 .. Len(group),
               ~CallbackFailed(group[i]), ~kind[group[i]].disable_wal
        PROVE  Durable(group[i])'
    <3>1. Durable(group[i])
      BY <2>1, <2>3, <2>4, Zenon DEF LogWritten, AfterLog
    <3>2. PICK x \in Writers : x = group[i]
      BY <1>2, Zenon
    <3>3. Durable(x)'
      BY <1>1, <3>1, <3>2, Zenon
    <3> QED
      BY <2>2, <3>2, <3>3, Zenon
  <2> QED
    BY <1>1, <2>2, <2>4, Zenon DEF LogWritten, CallbackFailed
<1> QED
  BY <1>3, <1>4, <1>5, Zenon

\* A call that returns OK has been logged.
LEMMA StepKeepsLogOfReturned ==
    ASSUME TypeOK, QueueInv, StepPhase, Returned, LogWritten, LogOfReturned,
           NEW w \in Writers, Step(w)
    PROVE  LogOfReturned'
<1>1. /\ kind' = kind /\ synced' <= Len(wal')
      /\ \A x \in Writers : Durable(x) => Durable(x)'
  BY StepFrame, LogGrows, Zenon DEF LogOfReturned
<1> SUFFICES ASSUME NEW x \in Writers, result'[x] = "OK", kind[x].batch,
                    ~kind[x].disable_wal
             PROVE  Durable(x)'
  BY <1>1, Zenon DEF LogOfReturned, AcknowledgedIsDurable
<1>2. CASE result[x] = "OK"
  BY <1>1, <1>2, Zenon DEF LogOfReturned, AcknowledgedIsDurable
<1>3. CASE result[x] # "OK"
  <2>1. \/ (RejectCall(w) \/ UnbatchedSwitch(w)) /\ x = w
        \/ ExitAsBatchGroupLeader(w) /\ x \in Members(group)
    <3>1. CASE RejectCall(w) \/ UnbatchedSwitch(w)
      BY <1>3, <3>1, SMTT(30), SMTT(45) DEF RejectCall, UnbatchedSwitch, TypeOK, CallTypes
    <3>2. CASE ExitAsBatchGroupLeader(w)
      BY <1>3, <3>2, Zenon DEF ExitAsBatchGroupLeader
    <3>3. CASE ~ \/ RejectCall(w) \/ UnbatchedSwitch(w) \/ ExitAsBatchGroupLeader(w)
      <4>1. UNCHANGED result
        BY <3>3, Zenon DEF Step, JoinBatchGroup, PreprocessWrite,
           EnterAsBatchGroupLeader, CheckCallback, WriteToWAL, SkipBatch,
           StartBatch, InsertSerial, FailSerial, FinishBatch, FinishSerial,
           AssignSequence, LaunchParallelMemTableWriters, InsertParallel,
           FailParallel, CompleteParallelMemTableWriter, WriteStatusCheck,
           PreRelease, SetLastSequence, insertFrame
      <4> QED
        BY <1>3, <4>1, Zenon
    <3> QED
      BY <3>1, <3>2, <3>3, Zenon
  <2>2. CASE (RejectCall(w) \/ UnbatchedSwitch(w)) /\ x = w
    BY <2>2, Zenon DEF RejectCall, UnbatchedSwitch, Returned, TypeOK, CallTypes
  <2>3. CASE ExitAsBatchGroupLeader(w) /\ x \in Members(group)
    <3>1. step[w] = "exit" /\ leader_status = "OK" /\ ~CallbackFailed(x)
      BY <2>3, Zenon
         DEF ExitAsBatchGroupLeader, ExitStatus, FinalStatus, CallbackFailed
    <3>2. PICK i \in 1 .. Len(group) : x = group[i]
      BY <2>3, GroupFacts, Zenon
    <3>3. Durable(x)
      BY <3>1, <3>2, Zenon DEF LogWritten
    <3> QED
      BY <1>1, <3>3, Zenon
  <2> QED
    BY <2>1, <2>2, <2>3, Zenon
<1> QED
  BY <1>2, <1>3, Zenon

-----------------------------------------------------------------------------
(***************************************************************************)
(* The records of the log.  Nothing here is said of LastSequence, so that  *)
(* no assumption on the kinds of calls is needed.                          *)
(***************************************************************************)
Logged(w) == \E i \in 1 .. Len(wal) : w \in Members(wal[i].order)

Fresh(w) == sequence[w] = 0 /\ cursor[w] = 0 /\ ~Logged(w)

\* a call that no leader has taken up
NotTakenUp ==
    \A w \in Writers : w \notin Members(group) /\ step[w] # "done" =>
        Fresh(w) /\ ~CallbackFailed(w)

\* all callbacks are checked before the group is logged
CallbacksFirst ==
    \A w \in Writers : step[w] = "callbacks" =>
        \A x \in Members(group) : Fresh(x)

Pending == \A w \in Writers : step[w] # "done" => result[w] = "none"

\* a record holds the batches of its group that were not refused, and a
\* group that has been logged has been logged as a whole
RecordOK(r) ==
    /\ r.order # <<>>
    /\ \A x \in Writers : x \in r.batches <=>
          x \in Members(r.order) /\ ~CallbackFailed(x)
    /\ \A x \in Members(group) : x \in Members(r.order) => r.order = group

RecordsKept == \A i \in 1 .. Len(wal) : RecordOK(wal[i])

Refused ==
    \A w \in Writers : CallbackFailed(w) =>
        sequence[w] = 0 /\ cursor[w] = 0 /\ result[w] # "OK"

TraceInv ==
    StepPhase /\ Pending /\ NotTakenUp /\ CallbacksFirst /\ RecordsKept /\ Refused

-----------------------------------------------------------------------------
\* the i-th record is the one WriteToWAL appends
Appended(w, i) ==
    /\ WriteToWAL(w) /\ i = Len(wal) + 1 /\ Len(wal') = Len(wal) + 1
    /\ wal'[i].seq = last_sequence + 1 /\ wal'[i].order = group
    /\ wal'[i].batches = MergeBatch
    /\ leader_status' = IF wal'[i].ok THEN "OK" ELSE "IOError"

\* Records stay; the log grows in WriteToWAL only, by a record of the group.
LEMMA WalStep ==
    ASSUME TypeOK, NEW w \in Writers, Step(w)
    PROVE  /\ Len(wal) \in Nat /\ Len(wal') \in Nat
           /\ \A i \in 1 .. Len(wal) : i \in 1 .. Len(wal') /\ wal'[i] = wal[i]
           /\ \/ wal' = wal
              \/ Appended(w, Len(wal) + 1)
           /\ \A i \in 1 .. Len(wal') : i \in 1 .. Len(wal) \/ Appended(w, i)
<1>1. CASE wal' = wal
  BY <1>1 DEF TypeOK, DbTypes
<1>2. ASSUME WriteToWAL(w), NEW r, wal' = Append(wal, r), r.seq = last_sequence + 1,
             r.order = group, r.batches = MergeBatch,
             leader_status' = IF r.ok THEN "OK" ELSE "IOError"
      PROVE  /\ Len(wal) \in Nat /\ Len(wal') \in Nat
             /\ \A i \in 1 .. Len(wal) : i \in 1 .. Len(wal') /\ wal'[i] = wal[i]
             /\ Appended(w, Len(wal) + 1)
             /\ \A i \in 1 .. Len(wal') : i \in 1 .. Len(wal) \/ Appended(w, i)
  <2>1. /\ Len(wal) \in Nat /\ Len(wal') = Len(wal) + 1 /\ wal'[Len(wal) + 1] = r
        /\ \A i \in 1 .. Len(wal) : wal'[i] = wal[i]
    BY <1>2 DEF TypeOK, DbTypes
  <2>2. Appended(w, Len(wal) + 1)
    BY <1>2, <2>1, Zenon DEF Appended
  <2>3. \A i \in 1 .. Len(wal') : i \in 1 .. Len(wal) \/ i = Len(wal) + 1
    BY <2>1
  <2>4. \A i \in 1 .. Len(wal) : i \in 1 .. Len(wal')
    BY <2>1
  <2>5. Len(wal') \in Nat
    BY <2>1
  <2> QED
    BY <2>1, <2>2, <2>3, <2>4, <2>5, Zenon
<1>3. CASE WriteToWAL(w) /\ wal' # wal
  <2>1. PICK ok \in BOOLEAN :
            /\ wal' = Append(wal, [seq |-> last_sequence + 1, order |-> group,
                                   batches |-> MergeBatch, ok |-> ok])
            /\ leader_status' = IF ok THEN "OK" ELSE "IOError"
    BY <1>3, Zenon DEF WriteToWAL
  <2> DEFINE r == [seq |-> last_sequence + 1, order |-> group,
                   batches |-> MergeBatch, ok |-> ok]
  <2>2. /\ r.seq = last_sequence + 1 /\ r.order = group /\ r.batches = MergeBatch
        /\ r.ok <=> ok
    BY Zenon
  <2>3. leader_status' = IF r.ok THEN "OK" ELSE "IOError"
    BY <2>1, <2>2, Zenon
  <2>4. wal' = Append(wal, r)
    BY <2>1, Zenon
  <2> HIDE DEF r
  <2> QED
    BY <1>2, <1>3, <2>2, <2>3, <2>4, Zenon
<1>4. CASE ~WriteToWAL(w)
  <2>1. wal' = wal
    BY <1>4, Zenon
       DEF Step, JoinBatchGroup, RejectCall, UnbatchedSwitch, PreprocessWrite,
       EnterAsBatchGroupLeader, CheckCallback, SkipBatch, StartBatch,
       InsertSerial, FailSerial, FinishBatch, FinishSerial, AssignSequence,
       LaunchParallelMemTableWriters, InsertParallel, FailParallel,
       CompleteParallelMemTableWriter, WriteStatusCheck, PreRelease,
       SetLastSequence, ExitAsBatchGroupLeader, insertFrame, dbVars
  <2> QED
    BY <1>1, <2>1, Zenon
<1> QED
  BY <1>1, <1>3, <1>4, Zenon

\* Only a member of the group that is being logged comes into the log.
LEMMA LoggedStep ==
    ASSUME TypeOK, NEW w \in Writers, Step(w), NEW v
    PROVE  /\ Logged(v) => Logged(v)'
           /\ Logged(v)' => Logged(v) \/ (WriteToWAL(w) /\ v \in Members(group))
<1>1. Logged(v)' => \E i \in 1 .. Len(wal') : v \in Members(wal'[i].order)
  BY Zenon DEF Logged, Members
<1>2. ASSUME NEW i \in 1 .. Len(wal'), v \in Members(wal'[i].order)
      PROVE  Logged(v) \/ (WriteToWAL(w) /\ v \in Members(group))
  <2>1. CASE i \in 1 .. Len(wal)
    BY <1>2, <2>1, WalStep, Zenon DEF Logged
  <2>2. CASE Appended(w, i)
    BY <1>2, <2>2, Zenon DEF Appended
  <2> QED
    BY <2>1, <2>2, WalStep, Zenon
<1>3. ASSUME Logged(v) PROVE Logged(v)'
  <2>1. PICK i \in 1 .. Len(wal) : v \in Members(wal[i].order)
    BY <1>3, Zenon DEF Logged
  <2>2. i \in 1 .. Len(wal') /\ v \in Members(wal'[i].order)
    BY <2>1, WalStep, Zenon
  <2> QED
    BY <2>2, Zenon DEF Logged, Members
<1> QED
  BY <1>1, <1>2, <1>3, Zenon

\* Writer::CheckCallback sets the status of a member of the group.
LEMMA CallbackStep ==
    ASSUME TypeOK, QueueInv, NEW w \in Writers, Step(w), NEW v \in Writers,
           callback_status'[v] # callback_status[v]
    PROVE  CheckCallback(w) /\ step[w] = "callbacks" /\ v \in Members(group)
<1>1. CheckCallback(w)
  BY Zenon
     DEF Step, JoinBatchGroup, RejectCall, UnbatchedSwitch, PreprocessWrite,
     EnterAsBatchGroupLeader, WriteToWAL, SkipBatch, StartBatch,
     InsertSerial, FailSerial, FinishBatch, FinishSerial, AssignSequence,
     LaunchParallelMemTableWriters, InsertParallel, FailParallel,
     CompleteParallelMemTableWriter, WriteStatusCheck, PreRelease,
     SetLastSequence, ExitAsBatchGroupLeader, insertFrame
<1>2. step[w] = "callbacks" /\ pos \in 1 .. Len(group)
  BY <1>1, GroupFacts DEF CheckCallback, TypeOK, GroupTypes
<1>3. \E cb : callback_status' = [callback_status EXCEPT ![group[pos]] = cb]
  BY <1>1, Zenon DEF CheckCallback
<1>4. v = group[pos]
  BY <1>3, Zenon DEF TypeOK, CallTypes
<1> QED
  BY <1>1, <1>2, <1>4, GroupFacts, Zenon

\* A sequence number goes to the member the loop over the group has reached.
LEMMA NumberStep ==
    ASSUME TypeOK, QueueInv, NEW w \in Writers, Step(w), NEW v \in Writers,
           sequence'[v] # sequence[v]
    PROVE  /\ StartBatch(w) \/ AssignSequence(w)
           /\ step[w] \in {"insert", "assign"}
           /\ pos \in 1 .. Len(group) /\ v = group[pos]
           /\ ~CallbackFailed(v) /\ sequence'[v] = next_sequence
<1>1. StartBatch(w) \/ AssignSequence(w)
  BY Zenon
     DEF Step, JoinBatchGroup, RejectCall, UnbatchedSwitch, PreprocessWrite,
     EnterAsBatchGroupLeader, CheckCallback, WriteToWAL, SkipBatch,
     InsertSerial, FailSerial, FinishBatch, FinishSerial,
     LaunchParallelMemTableWriters, InsertParallel, FailParallel,
     CompleteParallelMemTableWriter, WriteStatusCheck, PreRelease,
     SetLastSequence, ExitAsBatchGroupLeader
<1>2. /\ step[w] \in {"insert", "assign"} /\ pos <= Len(group)
      /\ ~CallbackFailed(group[pos])
      /\ sequence' = [sequence EXCEPT ![group[pos]] = next_sequence]
  BY <1>1, Zenon DEF StartBatch, Inserting, AssignSequence
<1>3. pos \in 1 .. Len(group)
  BY <1>2, GroupFacts DEF TypeOK, GroupTypes
<1>4. v = group[pos] /\ sequence'[v] = next_sequence
  BY <1>2, Zenon DEF TypeOK, CallTypes
<1> QED
  BY <1>1, <1>2, <1>3, <1>4, Zenon

\* No key of a refused batch is inserted.
LEMMA CursorStep ==
    ASSUME TypeOK, QueueInv, NEW w \in Writers, Step(w), NEW v \in Writers,
           cursor'[v] # cursor[v]
    PROVE  step[w] \in {"insert", "parallel"} /\ ~CallbackFailed(v)
<1>1. InsertSerial(w) \/ InsertParallel(w)
  BY Zenon
     DEF Step, JoinBatchGroup, RejectCall, UnbatchedSwitch, PreprocessWrite,
     EnterAsBatchGroupLeader, CheckCallback, WriteToWAL, SkipBatch,
     StartBatch, FailSerial, FinishBatch, FinishSerial, AssignSequence,
     LaunchParallelMemTableWriters, FailParallel,
     CompleteParallelMemTableWriter, WriteStatusCheck, PreRelease,
     SetLastSequence, ExitAsBatchGroupLeader
<1>2. PICK x \in Writers : /\ step[w] \in {"insert", "parallel"} /\ ~CallbackFailed(x)
                           /\ cursor' = [cursor EXCEPT ![x] = @ + 1]
  BY <1>1, Zenon DEF InsertSerial, Inserting, InsertParallel, InsertKey, Inserted, ToMemtable
<1>3. v = x
  BY <1>2, Zenon DEF TypeOK, CallTypes
<1> QED
  BY <1>2, <1>3, Zenon

\* What a call returns is set once, when it returns, and is not OK for a
\* refused call.
LEMMA ResultStep ==
    ASSUME TypeOK, QueueInv, StepPhase, NotTakenUp, NEW w \in Writers, Step(w),
           NEW v \in Writers, result'[v] # result[v]
    PROVE  /\ step'[v] = "done"
           /\ result'[v] = "OK" => ~CallbackFailed(v)
<1>1. /\ step \in [Writers -> Steps]
      /\ result \in [Writers -> Statuses \cup {"none"}]
  BY Zenon DEF TypeOK, CallTypes
<1>2. CASE RejectCall(w)
  BY <1>1, <1>2, Zenon DEF RejectCall, Goto
<1>3. CASE UnbatchedSwitch(w)
  <2>1. /\ step[w] = "unbatched" /\ ExitAlone(w)
        /\ step' = [step EXCEPT ![w] = "done"]
        /\ \E s \in SwitchResults : result' = [result EXCEPT ![w] = s]
    BY <1>3, Zenon DEF UnbatchedSwitch, Goto
  <2>2. v = w /\ step'[w] = "done"
    BY <1>1, <2>1, Zenon
  <2>3. w \notin Members(group)
    BY <2>1, ExitAloneFacts DEF Members
  <2> QED
    BY <2>1, <2>2, <2>3, Zenon DEF NotTakenUp
<1>4. CASE ExitAsBatchGroupLeader(w)
  <2>1. v \in Members(group) /\ step'[v] = "done" /\ result'[v] = ExitStatus(v)
    BY <1>1, <1>4, Zenon DEF ExitAsBatchGroupLeader
  <2>2. ExitStatus(v) = "OK" => ~CallbackFailed(v)
    BY Zenon DEF ExitStatus, FinalStatus, CallbackFailed
  <2> QED
    BY <2>1, <2>2, Zenon
<1>5. RejectCall(w) \/ UnbatchedSwitch(w) \/ ExitAsBatchGroupLeader(w)
  BY Zenon
     DEF Step, JoinBatchGroup, PreprocessWrite, EnterAsBatchGroupLeader,
     CheckCallback, WriteToWAL, SkipBatch, StartBatch,
     InsertSerial, FailSerial, FinishBatch, FinishSerial, AssignSequence,
     LaunchParallelMemTableWriters, InsertParallel, FailParallel,
     CompleteParallelMemTableWriter, WriteStatusCheck, PreRelease,
     SetLastSequence, insertFrame
<1> QED
  BY <1>2, <1>3, <1>4, <1>5, Zenon

\* where a step of w takes a call
LEMMA PlaceStep ==
    ASSUME TypeOK, NEW w \in Writers, Step(w), NEW v \in Writers, step'[v] # step[v]
    PROVE  \/ step'[v] \notin {"enter", "callbacks", "assign", "insert"}
           \/ v = w /\ PreprocessWrite(w) /\ step'[v] = "enter"
           \/ /\ v = w /\ EnterAsBatchGroupLeader(w)
              /\ leader_status = "OK" /\ step'[v] = "callbacks"
           \/ v = w /\ WriteToWAL(w) /\ step'[v] \in {"assign", "insert"}
<1>1. step \in [Writers -> Steps]
  BY Zenon DEF TypeOK, CallTypes
<1>2. CASE PreprocessWrite(w)
  BY <1>1, <1>2, Zenon DEF PreprocessWrite, Goto
<1>3. CASE EnterAsBatchGroupLeader(w)
  BY <1>1, <1>3, Zenon DEF EnterAsBatchGroupLeader, Goto
<1>4. CASE WriteToWAL(w)
  BY <1>1, <1>4, Zenon DEF WriteToWAL, Goto
<1>5. CASE LaunchParallelMemTableWriters(w) \/ ExitAsBatchGroupLeader(w)
  BY <1>1, <1>5, Zenon DEF LaunchParallelMemTableWriters, ExitAsBatchGroupLeader
<1>6. CASE \/ JoinBatchGroup(w) \/ RejectCall(w) \/ UnbatchedSwitch(w)
           \/ CompleteParallelMemTableWriter(w) \/ WriteStatusCheck(w)
           \/ PreRelease(w) \/ SetLastSequence(w) \/ FailSerial(w)
           \/ FinishSerial(w)
  BY <1>1, <1>6, Zenon
     DEF JoinBatchGroup, RejectCall, UnbatchedSwitch, CompleteParallelMemTableWriter,
     WriteStatusCheck, PreRelease, SetLastSequence, FailSerial, FinishSerial, Goto
<1>7. CASE \/ CheckCallback(w) \/ SkipBatch(w) \/ StartBatch(w)
           \/ InsertSerial(w) \/ FinishBatch(w) \/ AssignSequence(w)
           \/ InsertParallel(w) \/ FailParallel(w)
  BY <1>7, Zenon
     DEF CheckCallback, SkipBatch, StartBatch, InsertSerial, FinishBatch,
     AssignSequence, InsertParallel, FailParallel, InsertKey
<1> QED
  BY <1>2, <1>3, <1>4, <1>5, <1>6, <1>7, Zenon DEF Step

\* While a leader is at work for its group, others can only join or be
\* rejected.
LEMMA Bystander ==
    ASSUME TypeOK, QueueInv, StepPhase, NEW a \in Writers, step[a] \in LeaderSteps,
           NEW w \in Writers, w # a, Step(w)
    PROVE  /\ UNCHANGED <<group, callback_status, sequence, cursor, leader_status,
                          next_sequence, pos, wal, bg_error>>
           /\ step'[a] = step[a]
<1>1. phase[a] = "leader" /\ step[a] \in ActorSteps
  BY Zenon DEF StepPhase, ActorSteps
<1>2. /\ step[w] \notin ActorSteps \cup {"parallel", "enter"}
      /\ phase[w] # "leader"
  BY <1>1, OneActor, LeaderFacts, Zenon DEF StepPhase
<1>3. JoinBatchGroup(w) \/ RejectCall(w)
  BY <1>2, ZenonT(30)
     DEF Step, UnbatchedSwitch, ExitAlone, PreprocessWrite,
     EnterAsBatchGroupLeader, CheckCallback, WriteToWAL, SkipBatch, StartBatch,
     InsertSerial, FailSerial, FinishBatch, FinishSerial, Inserting,
     AssignSequence, LaunchParallelMemTableWriters, InsertParallel,
     FailParallel, CompleteParallelMemTableWriter, WriteStatusCheck, PreRelease,
     SetLastSequence, ExitAsBatchGroupLeader, ActorSteps, LeaderSteps, ClosingSteps
<1>4. UNCHANGED <<group, callback_status, sequence, cursor, leader_status,
                  next_sequence, pos, wal, bg_error>>
  BY <1>3, Zenon DEF JoinBatchGroup, Link, RejectCall, queueVars, groupVars, dbVars
<1>5. step'[a] = step[a]
  BY <1>3, Zenon DEF JoinBatchGroup, RejectCall, Goto, TypeOK, CallTypes
<1> QED
  BY <1>4, <1>5, Zenon

-----------------------------------------------------------------------------
\* A call keeps out of the log while nothing is done for it.
LEMMA StaysFresh ==
    ASSUME TypeOK, NEW w \in Writers, Step(w), NEW v \in Writers, Fresh(v),
           sequence'[v] = sequence[v], cursor'[v] = cursor[v],
           v \in Members(group) => ~WriteToWAL(w)
    PROVE  Fresh(v)'
  BY LoggedStep, Zenon DEF Fresh

\* A call outside the group is not touched before a leader takes it up.
LEMMA StepKeepsNotTakenUp ==
    ASSUME TypeOK, QueueInv, StepPhase, NotTakenUp, NEW w \in Writers, Step(w)
    PROVE  NotTakenUp'
<1> SUFFICES ASSUME NEW v \in Writers, v \notin Members(group)', step'[v] # "done"
             PROVE  Fresh(v)' /\ ~CallbackFailed(v)'
  BY Zenon DEF NotTakenUp
<1>1. v \notin Members(group)
  <2>1. CASE group' = group
    BY <2>1, Zenon DEF Members
  <2>2. CASE ExitAsBatchGroupLeader(w)
    BY <2>2, Zenon DEF ExitAsBatchGroupLeader
  <2> QED
    BY <2>1, <2>2, GroupFrame, Zenon
<1>2. step[v] # "done"
  BY StepFrame, Zenon
<1>3. Fresh(v) /\ ~CallbackFailed(v)
  BY <1>1, <1>2, Zenon DEF NotTakenUp
<1>4. /\ sequence'[v] = sequence[v] /\ cursor'[v] = cursor[v]
      /\ callback_status'[v] = callback_status[v]
  BY <1>1, StepFrame, Zenon
<1>5. Fresh(v)'
  BY <1>1, <1>3, <1>4, StaysFresh, Zenon
<1> QED
  BY <1>3, <1>4, <1>5, Zenon DEF CallbackFailed

\* The members of a new group are calls no leader has taken up.
LEMMA NewGroup ==
    ASSUME TypeOK, QueueInv, QueueInv', StepPhase, NotTakenUp, NEW w \in Writers,
           EnterAsBatchGroupLeader(w)
    PROVE  /\ Members(group) = {}
           /\ \A x \in Members(group)' : x \in Writers /\ Fresh(x)
<1>1. phase[w] = "leader" /\ group = <<>> /\ phase' = phase
  BY Zenon DEF EnterAsBatchGroupLeader, FormGroup
<1>2. Members(group) = {}
  BY <1>1, LoneLeader, Zenon
<1>3. group' \in Seq(Writers) /\ queue' \in Seq(Writers)
  BY Zenon DEF QueueInv, QueueTypeOK
<1>4. \A x \in Members(group)' : x \in Writers /\ x \in Members(queue)'
  BY <1>3 DEF QueueInv, GroupIsPrefix, Members
<1>5. \A x \in Members(group)' : phase[x] \notin {"idle", "completed"}
  BY <1>1, <1>4, Zenon DEF QueueInv, LinkedPhases
<1>6. \A x \in Members(group)' : step[x] # "done"
  BY <1>4, <1>5, Zenon DEF StepPhase
<1> QED
  BY <1>2, <1>4, <1>6, Zenon DEF NotTakenUp

\* Nothing is done for a group before its callbacks have been checked.
LEMMA StepKeepsCallbacksFirst ==
    ASSUME TypeOK, QueueInv, QueueInv', StepPhase, NotTakenUp, CallbacksFirst,
           NEW w \in Writers, Step(w)
    PROVE  CallbacksFirst'
<1> SUFFICES ASSUME NEW v \in Writers, step'[v] = "callbacks",
                    NEW x \in Members(group)'
             PROVE  Fresh(x)'
  BY Zenon DEF CallbacksFirst
<1>1. x \in Writers
  BY DEF QueueInv, QueueTypeOK, Members
<1>2. CASE step[v] = "callbacks"
  <2>1. step[v] \in LeaderSteps /\ step[v] \in ActorSteps
    BY <1>2, Zenon DEF LeaderSteps, ActorSteps
  <2>2. group' = group /\ UNCHANGED <<sequence, cursor>> /\ ~WriteToWAL(w)
    <3>1. CASE w = v
      <4>1. ~WriteToWAL(w)
        BY <3>1, Zenon DEF WriteToWAL, Goto, TypeOK, CallTypes
      <4>2. CheckCallback(w)
        BY <1>2, <3>1, <4>1, ZenonT(30)
           DEF Step, JoinBatchGroup, RejectCall, UnbatchedSwitch, PreprocessWrite,
           EnterAsBatchGroupLeader, SkipBatch, StartBatch, InsertSerial, FailSerial,
           FinishBatch, FinishSerial, Inserting, AssignSequence,
           LaunchParallelMemTableWriters, InsertParallel, FailParallel,
           CompleteParallelMemTableWriter, WriteStatusCheck, PreRelease,
           SetLastSequence, ExitAsBatchGroupLeader
      <4> QED
        BY <4>1, <4>2, Zenon DEF CheckCallback, queueVars
    <3>2. CASE w # v
      <4>1. step[w] \notin ActorSteps
        BY <2>1, <3>2, OneActor, Zenon
      <4> QED
        BY <2>1, <3>2, <4>1, Bystander, Zenon
           DEF WriteToWAL, ActorSteps, LeaderSteps
    <3> QED
      BY <3>1, <3>2, Zenon
  <2>3. x \in Members(group)
    BY <2>2, Zenon DEF Members
  <2>4. Fresh(x)
    BY <1>2, <2>3, Zenon DEF CallbacksFirst
  <2> QED
    BY <1>1, <2>2, <2>4, StaysFresh, Zenon
<1>3. CASE step[v] # "callbacks"
  <2>1. EnterAsBatchGroupLeader(w)
    BY <1>3, PlaceStep, Zenon
  <2>2. x \notin Members(group) /\ Fresh(x)
    BY <2>1, NewGroup, Zenon
  <2>3. UNCHANGED <<sequence, cursor>>
    BY <2>1, Zenon DEF EnterAsBatchGroupLeader
  <2> QED
    BY <1>1, <2>2, <2>3, StaysFresh, Zenon
<1> QED
  BY <1>2, <1>3, Zenon

\* A call that has not returned has no result.
LEMMA StepKeepsPending ==
    ASSUME TypeOK, QueueInv, StepPhase, NotTakenUp, Pending, NEW w \in Writers, Step(w)
    PROVE  Pending'
<1> SUFFICES ASSUME NEW v \in Writers, step'[v] # "done" PROVE result'[v] = "none"
  BY Zenon DEF Pending
<1>1. step[v] # "done"
  BY StepFrame, Zenon
<1>2. result'[v] = result[v]
  BY ResultStep, Zenon
<1> QED
  BY <1>1, <1>2, Zenon DEF Pending

\* A refused call is given no number, no key of it is inserted and it is not
\* told OK.
LEMMA StepKeepsRefused ==
    ASSUME TypeOK, QueueInv, TraceInv, NEW w \in Writers, Step(w)
    PROVE  Refused'
<1> SUFFICES ASSUME NEW v \in Writers, CallbackFailed(v)'
             PROVE  sequence'[v] = 0 /\ cursor'[v] = 0 /\ result'[v] # "OK"
  BY Zenon DEF Refused
<1>1. StepPhase /\ Pending /\ NotTakenUp /\ CallbacksFirst /\ Refused
  BY Zenon DEF TraceInv
<1>2. CASE callback_status'[v] # callback_status[v]
  <2>1. CheckCallback(w) /\ step[w] = "callbacks" /\ v \in Members(group)
    BY <1>2, CallbackStep, Zenon
  <2>2. sequence[v] = 0 /\ cursor[v] = 0
    BY <1>1, <2>1, Zenon DEF CallbacksFirst, Fresh
  <2>3. result[v] = "none"
    BY <1>1, <2>1, StepFrame, Zenon DEF Pending
  <2> QED
    BY <2>1, <2>2, <2>3, Zenon DEF CheckCallback
<1>3. CASE callback_status'[v] = callback_status[v]
  <2>1. CallbackFailed(v)
    BY <1>3, Zenon DEF CallbackFailed
  <2>2. sequence[v] = 0 /\ cursor[v] = 0 /\ result[v] # "OK"
    BY <1>1, <2>1, Zenon DEF Refused
  <2>3. sequence'[v] = sequence[v] /\ cursor'[v] = cursor[v]
    BY <2>1, NumberStep, CursorStep, Zenon
  <2>4. result'[v] # "OK"
    BY <1>1, <2>1, <2>2, ResultStep, Zenon
  <2> QED
    BY <2>2, <2>3, <2>4, Zenon
<1> QED
  BY <1>2, <1>3, Zenon

\* Who is in a record is known to the callbacks when the record is written,
\* and does not change.
LEMMA LoggedAreChecked ==
    ASSUME TypeOK, QueueInv, CallbacksFirst, NEW w \in Writers, Step(w),
           NEW v \in Writers, Logged(v)
    PROVE  callback_status'[v] = callback_status[v]
  BY CallbackStep, Zenon DEF CallbacksFirst, Fresh

\* Records and groups stay together.
LEMMA StepKeepsRecords ==
    ASSUME TypeOK, TypeOK', QueueInv, QueueInv', TraceInv, NEW w \in Writers, Step(w)
    PROVE  RecordsKept'
<1> SUFFICES ASSUME NEW i \in 1 .. Len(wal') PROVE RecordOK(wal[i])'
  BY Zenon DEF RecordsKept
<1>1. StepPhase /\ NotTakenUp /\ CallbacksFirst /\ RecordsKept
  BY Zenon DEF TraceInv
<1>2. CASE i \in 1 .. Len(wal)
  <2>1. wal'[i] = wal[i] /\ RecordOK(wal[i])
    BY <1>1, <1>2, WalStep, Zenon DEF RecordsKept
  <2>2. \A x \in Members(wal[i].order) : Logged(x)
    BY <1>2, Zenon DEF Logged
  <2>3. \A x \in Writers : x \in wal[i].batches <=>
            x \in Members(wal[i].order) /\ ~CallbackFailed(x)'
    BY <1>1, <2>1, <2>2, LoggedAreChecked, Zenon DEF RecordOK, CallbackFailed
  <2>4. \A x \in Members(group)' : x \in Members(wal[i].order) => wal[i].order = group'
    <3>1. CASE group' = group
      BY <2>1, <3>1, Zenon DEF RecordOK, Members
    <3>2. CASE EnterAsBatchGroupLeader(w)
      BY <1>1, <2>2, <3>2, NewGroup, Zenon DEF Fresh
    <3>3. CASE group' = <<>>
      BY <3>3 DEF Members
    <3> QED
      BY <1>1, <3>1, <3>2, <3>3, GroupFrame, Zenon
  <2>5. wal[i].order # <<>>
    BY <2>1, Zenon DEF RecordOK
  <2> QED
    BY <2>1, <2>3, <2>4, <2>5, Zenon DEF RecordOK, Members
<1>3. CASE Appended(w, i)
  <2>1. WriteToWAL(w) /\ wal'[i].order = group /\ wal'[i].batches = MergeBatch
    BY <1>3, Zenon DEF Appended
  <2>2. group' = group /\ callback_status' = callback_status /\ step[w] = "callbacks"
    BY <2>1, Zenon DEF WriteToWAL, queueVars
  <2>3. group # <<>>
    BY <1>1, <2>2, OneActor, Zenon DEF ActorSteps, LeaderSteps
  <2>4. \A x \in Writers : x \in MergeBatch <=> x \in Members(group) /\ ~CallbackFailed(x)'
    BY <2>2, Zenon DEF MergeBatch, CallbackFailed
  <2> QED
    BY <2>1, <2>2, <2>3, <2>4, Zenon DEF RecordOK, Members
<1> QED
  BY <1>2, <1>3, WalStep, Zenon

-----------------------------------------------------------------------------
(***************************************************************************)
(* Replay.  The number of the j-th call of a record is the record's own,   *)
(* or follows the numbers of the last earlier call that was not refused.   *)
(***************************************************************************)
Refusals == {w \in Writers : CallbackFailed(w)}

Room == [w \in Writers |-> SpanIf(w, "OK")]

Earlier(R, s, j) == {i \in 1 .. j - 1 : s[i] \notin R}

\* q is the number after those the first j - 1 calls of s have been given (f)
\* and take (d), the ones in R left out
Follows(R, f, d, s, j, q, base) ==
    \/ Earlier(R, s, j) = {} /\ q = base
    \/ \E i \in Earlier(R, s, j) :
          /\ \A k \in Earlier(R, s, j) : k <= i
          /\ f[s[i]] # 0 /\ q = f[s[i]] + d[s[i]]

NumbersFollow(r) ==
    \A j \in 1 .. Len(r.order) :
        ~CallbackFailed(r.order[j]) /\ sequence[r.order[j]] # 0 =>
            Follows(Refusals, sequence, Room, r.order, j, sequence[r.order[j]], r.seq)

NumbersAgree == \A i \in 1 .. Len(wal) : NumbersFollow(wal[i])

\* the loop that numbers a group: what is behind pos has its numbers, what is
\* ahead has none, and next_sequence is the one that follows
NumberingAt(l) ==
    /\ next_sequence # 0
    /\ \A j \in 1 .. Len(group) : j > pos => sequence[group[j]] = 0
    /\ pos \in 1 .. Len(group) /\ sequence[group[pos]] # 0 =>
          l = "insert" /\ sequence[group[pos]] = next_sequence
    /\ \A i \in 1 .. Len(wal) : wal[i].order = group =>
          Follows(Refusals, sequence, Room, group, pos, next_sequence, wal[i].seq)

Numbering ==
    \A w \in Writers : step[w] \in {"insert", "assign"} => NumberingAt(step[w])

\* The first number is the record's.
LEMMA FollowsFirst ==
    ASSUME NEW R, NEW f, NEW d, NEW s, NEW base
    PROVE  Follows(R, f, d, s, 1, base, base)
<1>1. Earlier(R, s, 1) = {}
  BY DEF Earlier
<1> QED
  BY <1>1, Zenon DEF Follows

\* A refused call takes none.
LEMMA FollowsSkip ==
    ASSUME NEW R, NEW f, NEW d, NEW s, NEW j \in Nat \ {0}, NEW q, NEW base,
           s[j] \in R, Follows(R, f, d, s, j, q, base)
    PROVE  Follows(R, f, d, s, j + 1, q, base)
<1>1. Earlier(R, s, j + 1) = Earlier(R, s, j)
  BY DEF Earlier
<1> QED
  BY <1>1, Zenon DEF Follows

\* Another call takes its own.
LEMMA FollowsNext ==
    ASSUME NEW R, NEW f, NEW d, NEW s, NEW j \in Nat \ {0}, NEW base,
           s[j] \notin R, f[s[j]] # 0
    PROVE  Follows(R, f, d, s, j + 1, f[s[j]] + d[s[j]], base)
<1>1. j \in Earlier(R, s, j + 1) /\ \A k \in Earlier(R, s, j + 1) : k <= j
  BY DEF Earlier
<1> QED
  BY <1>1, Zenon DEF Follows

\* Later numbers change nothing.
LEMMA FollowsKept ==
    ASSUME NEW R, NEW f, NEW d, NEW s, NEW j, NEW q, NEW base, NEW R2, NEW f2,
           \A i \in 1 .. j - 1 : /\ s[i] \in R2 <=> s[i] \in R
                                 /\ f[s[i]] # 0 => f2[s[i]] = f[s[i]],
           Follows(R, f, d, s, j, q, base)
    PROVE  Follows(R2, f2, d, s, j, q, base)
<1>1. Earlier(R2, s, j) = Earlier(R, s, j)
  BY Zenon DEF Earlier
<1>2. \A i \in Earlier(R, s, j) : f[s[i]] # 0 => f2[s[i]] = f[s[i]]
  BY Zenon DEF Earlier
<1> QED
  BY <1>1, <1>2, Zenon DEF Follows

\* what a call that is not refused takes does not depend on the state
LEMMA RoomFacts ==
    ASSUME TypeOK, NEW x \in Writers, ~CallbackFailed(x)
    PROVE  Span(x) = Room[x] /\ SerialSpan(x) = Room[x] /\ Room[x] \in Nat
<1>1. /\ kind[x].count \in Nat /\ kind[x].batch_cnt \in Nat
      /\ kind[x].disable_memtable => kind[x].batch_cnt = 1
  BY KindFacts, Zenon
<1>2. callback_status[x] = "OK" /\ Room[x] = SpanIf(x, "OK")
  BY Zenon DEF CallbackFailed, Room
<1> QED
  BY <1>1, <1>2 DEF Span, SpanIf, SerialSpan, ToMemtable, CallbackFailed

\* How many numbers a batch takes up never changes.
LEMMA RoomStays ==
    ASSUME TypeOK, QueueInv, StepPhase, NEW w \in Writers, Step(w)
    PROVE  Room' = Room
<1>1. kind' = kind
  BY StepFrame, Zenon
<1> QED
  BY <1>1, Zenon DEF Room, SpanIf

\* A call keeps the number it has been given.
LEMMA NumbersStay ==
    ASSUME TypeOK, QueueInv, Numbering, NEW w \in Writers, Step(w), NEW v \in Writers,
           sequence[v] # 0
    PROVE  sequence'[v] = sequence[v]
<1> SUFFICES ASSUME sequence'[v] # sequence[v] PROVE FALSE
  BY Zenon
<1>1. /\ StartBatch(w) \/ AssignSequence(w)
      /\ pos \in 1 .. Len(group) /\ v = group[pos]
  BY NumberStep, Zenon
<1>2. CASE StartBatch(w)
  BY <1>1, <1>2, Zenon DEF StartBatch, Inserting
<1>3. CASE AssignSequence(w)
  <2>1. step[w] = "assign"
    BY <1>3, Zenon DEF AssignSequence
  <2>2. NumberingAt("assign")
    BY <2>1, Zenon DEF Numbering
  <2> QED
    BY <1>1, <2>2, Zenon DEF NumberingAt
<1> QED
  BY <1>1, <1>2, <1>3, Zenon

\* the members of a record are calls, and are logged
LEMMA RecordFacts ==
    ASSUME TypeOK, NEW i \in 1 .. Len(wal)
    PROVE  /\ Len(wal[i].order) \in Nat /\ wal[i].order \in Seq(Writers)
           /\ wal[i].batches \subseteq Writers
           /\ \A j \in 1 .. Len(wal[i].order) :
                 /\ wal[i].order[j] \in Writers
                 /\ wal[i].order[j] \in Members(wal[i].order)
                 /\ Logged(wal[i].order[j])
<1>1. wal[i] \in WalRecord
  BY DEF TypeOK, DbTypes
<1>2. wal[i].order \in Seq(Writers) /\ wal[i].batches \subseteq Writers
  BY <1>1, Zenon DEF WalRecord
<1>3. /\ Len(wal[i].order) \in Nat
      /\ \A j \in 1 .. Len(wal[i].order) : wal[i].order[j] \in Writers
  BY <1>2
<1>4. \A j \in 1 .. Len(wal[i].order) : wal[i].order[j] \in Members(wal[i].order)
  BY Zenon DEF Members
<1> QED
  BY <1>2, <1>3, <1>4, Zenon DEF Logged

\* A step changes nothing in what a record's numbers follow from.
LEMMA RecordStays ==
    ASSUME TypeOK, QueueInv, TraceInv, Numbering, NEW w \in Writers, Step(w),
           NEW i \in 1 .. Len(wal), NEW j \in Nat \ {0}, j <= Len(wal[i].order) + 1, NEW q,
           Follows(Refusals, sequence, Room, wal[i].order, j, q, wal[i].seq)
    PROVE  Follows(Refusals', sequence', Room', wal[i].order, j, q, wal[i].seq)
<1> DEFINE s == wal[i].order
<1>1. \A k \in 1 .. j - 1 : k \in 1 .. Len(s)
  BY RecordFacts
<1>2. \A k \in 1 .. j - 1 : s[k] \in Writers /\ Logged(s[k])
  BY <1>1, RecordFacts, Zenon
<1>3. StepPhase /\ CallbacksFirst
  BY Zenon DEF TraceInv
<1>4. \A k \in 1 .. j - 1 : s[k] \in Refusals' <=> s[k] \in Refusals
  BY <1>2, <1>3, LoggedAreChecked, Zenon DEF Refusals, CallbackFailed
<1>5. \A k \in 1 .. j - 1 : sequence[s[k]] # 0 => sequence'[s[k]] = sequence[s[k]]
  BY <1>2, NumbersStay, Zenon
<1>6. Follows(Refusals', sequence', Room, s, j, q, wal[i].seq)
  BY <1>4, <1>5, FollowsKept, Zenon
<1> QED
  BY <1>3, <1>6, RoomStays, Zenon

\* The numbers of logged calls are the ones replay will give them.
LEMMA StepKeepsNumbersAgree ==
    ASSUME TypeOK, QueueInv, TraceInv, Numbering, NumbersAgree,
           NEW w \in Writers, Step(w)
    PROVE  NumbersAgree'
<1> SUFFICES ASSUME NEW i \in 1 .. Len(wal'), NEW j \in 1 .. Len(wal'[i].order),
                    callback_status'[wal'[i].order[j]] = "OK",
                    sequence'[wal'[i].order[j]] # 0
             PROVE  Follows(Refusals', sequence', Room', wal'[i].order, j,
                            sequence'[wal'[i].order[j]], wal'[i].seq)
  BY Zenon DEF NumbersAgree, NumbersFollow, CallbackFailed
<1>1. StepPhase /\ CallbacksFirst /\ RecordsKept
  BY Zenon DEF TraceInv
<1>2. CASE i \in 1 .. Len(wal)
  <2> DEFINE s == wal[i].order
             x == s[j]
  <2>1. wal'[i] = wal[i]
    BY <1>2, WalStep, Zenon
  <2>2. /\ j \in 1 .. Len(s) /\ x \in Writers /\ x \in Members(s) /\ Logged(x)
        /\ j \in Nat \ {0} /\ j <= Len(s) + 1
    BY <1>2, <2>1, RecordFacts
  <2>3. ~CallbackFailed(x)
    BY <1>1, <2>1, <2>2, LoggedAreChecked, Zenon DEF CallbackFailed
  <2>4. CASE sequence'[x] = sequence[x]
    <3>1. Follows(Refusals, sequence, Room, s, j, sequence[x], wal[i].seq)
      BY <1>2, <2>1, <2>2, <2>3, <2>4, Zenon DEF NumbersAgree, NumbersFollow
    <3> QED
      BY <1>2, <2>1, <2>2, <2>4, <3>1, RecordStays, Zenon
  <2>5. CASE sequence'[x] # sequence[x]
    <3>1. /\ step[w] \in {"insert", "assign"} /\ pos \in 1 .. Len(group)
          /\ x = group[pos] /\ sequence'[x] = next_sequence
      BY <2>2, <2>5, NumberStep, Zenon
    <3>2. x \in Members(group)
      BY <3>1, GroupFacts, Zenon
    <3>3. s = group
      BY <1>1, <1>2, <2>2, <3>2, Zenon DEF RecordsKept, RecordOK
    <3>4. j = pos
      BY <2>2, <3>1, <3>3, GroupFacts, ZenonT(30)
    <3>5. Follows(Refusals, sequence, Room, s, j, next_sequence, wal[i].seq)
      BY <1>2, <3>1, <3>3, <3>4, Zenon DEF Numbering, NumberingAt
    <3> QED
      BY <1>2, <2>1, <2>2, <3>1, <3>5, RecordStays, Zenon
  <2> QED
    BY <2>4, <2>5, Zenon
<1>3. CASE Appended(w, i)
  <2>1. WriteToWAL(w) /\ wal'[i].order = group
    BY <1>3, Zenon DEF Appended
  <2>2. step[w] = "callbacks" /\ sequence' = sequence
    BY <2>1, Zenon DEF WriteToWAL
  <2>3. group[j] \in Members(group)
    BY <2>1, GroupFacts, Zenon
  <2> QED
    BY <1>1, <2>1, <2>2, <2>3, Zenon DEF CallbacksFirst, Fresh
<1> QED
  BY <1>2, <1>3, WalStep, Zenon

\* The serial loop and the numbering of a parallel group go on where they are.
LEMMA StepKeepsNumbering ==
    ASSUME TypeOK, QueueInv, TraceInv, Numbering, NEW w \in Writers, Step(w)
    PROVE  Numbering'
<1> SUFFICES ASSUME NEW v \in Writers, step'[v] \in {"insert", "assign"}
             PROVE  NumberingAt(step[v])'
  BY Zenon DEF Numbering
<1>1. StepPhase /\ CallbacksFirst /\ Refused
  BY Zenon DEF TraceInv
<1>2. CASE step[v] \notin {"insert", "assign"}
  <2>1. WriteToWAL(w)
    BY <1>2, PlaceStep, Zenon
  <2>2. /\ step[w] = "callbacks" /\ pos' = 1 /\ next_sequence' = last_sequence + 1
        /\ sequence' = sequence /\ group' = group
    BY <2>1, Zenon DEF WriteToWAL, queueVars
  <2>3. next_sequence' # 0
    BY <2>2 DEF TypeOK, GroupTypes
  <2>4. \A j \in 1 .. Len(group) : sequence[group[j]] = 0 /\ ~Logged(group[j])
    BY <1>1, <2>2, GroupFacts, Zenon DEF CallbacksFirst, Fresh
  <2>5. group # <<>> /\ 1 \in 1 .. Len(group)
    BY <1>1, <2>2, OneActor, GroupFacts DEF ActorSteps, LeaderSteps
  <2>6. ASSUME NEW i \in 1 .. Len(wal'), wal'[i].order = group
        PROVE  Follows(Refusals', sequence', Room', group, 1, next_sequence', wal'[i].seq)
    <3>1. i \notin 1 .. Len(wal)
      BY <2>4, <2>5, <2>6, WalStep, RecordFacts, Zenon
    <3>2. wal'[i].seq = next_sequence'
      BY <2>2, <3>1, WalStep, Zenon DEF Appended
    <3> QED
      BY <3>2, FollowsFirst, Zenon
  <2> QED
    BY <2>2, <2>3, <2>4, <2>6, Zenon DEF NumberingAt
<1>3. CASE step[v] \in {"insert", "assign"} /\ w # v
  <2>1. /\ UNCHANGED <<group, callback_status, sequence, next_sequence, pos, wal>>
        /\ step'[v] = step[v]
    BY <1>1, <1>3, Bystander, Zenon DEF LeaderSteps
  <2>2. NumberingAt(step[v])
    BY <1>3, Zenon DEF Numbering
  <2>3. Refusals' = Refusals /\ Room' = Room
    BY <1>1, <2>1, RoomStays, Zenon DEF Refusals, CallbackFailed
  <2> QED
    BY <2>1, <2>2, <2>3, Zenon DEF NumberingAt
<1>4. CASE step[v] \in {"insert", "assign"} /\ w = v
  <2> DEFINE x == group[pos]
  <2>1. NumberingAt(step[v])
    BY <1>4, Zenon DEF Numbering
  <2>2. \/ SkipBatch(w) \/ StartBatch(w) \/ InsertSerial(w) \/ FinishBatch(w)
        \/ AssignSequence(w)
    <3>1. ~FailSerial(w) /\ ~FinishSerial(w)
      BY <1>4, Zenon DEF FailSerial, FinishSerial, Goto, TypeOK, CallTypes
    <3>2. w \in Members(group)
      BY <1>1, <1>4, OneActor, Zenon DEF ActorSteps, LeaderSteps
    <3>3. ~LaunchParallelMemTableWriters(w)
      BY <1>4, <3>2, Zenon DEF LaunchParallelMemTableWriters
    <3> QED
      BY <1>4, <3>1, <3>3, ZenonT(30)
         DEF Step, JoinBatchGroup, RejectCall, UnbatchedSwitch, PreprocessWrite,
         EnterAsBatchGroupLeader, CheckCallback, WriteToWAL, InsertParallel,
         FailParallel, CompleteParallelMemTableWriter, WriteStatusCheck, PreRelease,
         SetLastSequence, ExitAsBatchGroupLeader
  <2>3. /\ UNCHANGED <<step, group, callback_status, wal>> /\ pos <= Len(group)
    BY <2>2, Zenon DEF SkipBatch, StartBatch, InsertSerial, FinishBatch, AssignSequence,
       Inserting, InsertKey, insertFrame, queueVars
  <2>4. /\ pos \in 1 .. Len(group) /\ pos \in Nat \ {0} /\ x \in Writers
        /\ next_sequence \in Nat /\ Len(group) \in Nat
    BY <2>3, GroupFacts DEF TypeOK, GroupTypes
  <2>5. Refusals' = Refusals /\ Room' = Room
    BY <1>1, <2>3, RoomStays, Zenon DEF Refusals, CallbackFailed
  <2>6. \A j \in 1 .. Len(group) : j # pos => sequence'[group[j]] = sequence[group[j]]
    BY <2>4, NumberStep, GroupFacts, ZenonT(30)
  <2>7. ASSUME pos' = pos + 1, next_sequence' # 0,
               \A i \in 1 .. Len(wal) : wal[i].order = group =>
                   Follows(Refusals, sequence', Room, group, pos + 1, next_sequence', wal[i].seq)
        PROVE  NumberingAt(step[v])'
    <3>1. \A j \in 1 .. Len(group) : j > pos => sequence'[group[j]] = 0
      BY <2>1, <2>4, <2>6 DEF NumberingAt
    <3>2. \A j \in 1 .. Len(group) : j > pos + 1 => sequence'[group[j]] = 0
      BY <2>4, <3>1
    <3>3. pos + 1 \in 1 .. Len(group) => sequence'[group[pos + 1]] = 0
      BY <2>4, <3>1
    <3> QED
      BY <2>3, <2>5, <2>7, <3>2, <3>3, Zenon DEF NumberingAt
  <2>8. CASE SkipBatch(w)
    <3>1. /\ pos' = pos + 1 /\ UNCHANGED <<sequence, next_sequence>>
          /\ CallbackFailed(x)
      BY <2>8, Zenon DEF SkipBatch, Inserting
    <3>2. x \in Refusals
      BY <2>4, <3>1, Zenon DEF Refusals
    <3>3. \A i \in 1 .. Len(wal) : wal[i].order = group =>
              Follows(Refusals, sequence, Room, group, pos + 1, next_sequence, wal[i].seq)
      BY <2>1, <2>4, <3>2, FollowsSkip, Zenon DEF NumberingAt
    <3> QED
      BY <2>1, <2>7, <3>1, <3>3, Zenon DEF NumberingAt
  <2>9. CASE StartBatch(w)
    <3>1. /\ step[w] = "insert" /\ sequence[x] = 0
          /\ UNCHANGED <<pos, next_sequence>>
          /\ sequence' = [sequence EXCEPT ![x] = next_sequence]
      BY <2>9, Zenon DEF StartBatch, Inserting
    <3>2. sequence'[x] = next_sequence
      BY <2>4, <3>1, Zenon DEF TypeOK, CallTypes
    <3>3. \A j \in 1 .. Len(group) : j > pos => sequence'[group[j]] = 0
      BY <2>1, <2>4, <2>6 DEF NumberingAt
    <3>4. \A k \in 1 .. pos - 1 :
             /\ group[k] \in Refusals <=> group[k] \in Refusals
             /\ sequence[group[k]] # 0 => sequence'[group[k]] = sequence[group[k]]
      BY <2>4, <2>6
    <3>5. ASSUME NEW i \in 1 .. Len(wal), wal[i].order = group
          PROVE  Follows(Refusals, sequence', Room, group, pos, next_sequence, wal[i].seq)
      <4>1. Follows(Refusals, sequence, Room, group, pos, next_sequence, wal[i].seq)
        BY <2>1, <3>5, Zenon DEF NumberingAt
      <4> QED
        BY <3>4, <4>1, FollowsKept
    <3> QED
      BY <1>4, <2>1, <2>3, <2>5, <3>1, <3>2, <3>3, <3>5, Zenon DEF NumberingAt
  <2>10. CASE InsertSerial(w)
    <3>1. UNCHANGED <<pos, next_sequence, sequence>>
      BY <2>10, Zenon DEF InsertSerial
    <3> QED
      BY <2>1, <2>3, <2>5, <3>1, Zenon DEF NumberingAt
  <2>11. CASE FinishBatch(w)
    <3>1. /\ pos' = pos + 1 /\ UNCHANGED sequence /\ sequence[x] # 0
          /\ next_sequence' = next_sequence + SerialSpan(x)
      BY <2>11, Zenon DEF FinishBatch, Inserting
    <3>2. ~CallbackFailed(x) /\ sequence[x] = next_sequence
      BY <1>1, <2>1, <2>4, <3>1, Zenon DEF Refused, NumberingAt
    <3>3. SerialSpan(x) = Room[x] /\ Room[x] \in Nat
      BY <2>4, <3>2, RoomFacts, Zenon
    <3>4. next_sequence' = sequence[x] + Room[x] /\ next_sequence' # 0
      BY <2>1, <2>4, <3>1, <3>2, <3>3 DEF NumberingAt
    <3>5. x \notin Refusals
      BY <3>2, Zenon DEF Refusals
    <3>6. \A b : Follows(Refusals, sequence, Room, group, pos + 1, sequence[x] + Room[x], b)
      BY <2>4, <3>1, <3>5, FollowsNext, Zenon
    <3> QED
      BY <2>7, <3>1, <3>4, <3>6, Zenon
  <2>12. CASE AssignSequence(w) /\ CallbackFailed(x)
    <3>1. pos' = pos + 1 /\ UNCHANGED <<sequence, next_sequence>>
      BY <2>12, Zenon DEF AssignSequence
    <3>2. x \in Refusals
      BY <2>4, <2>12, Zenon DEF Refusals
    <3>3. \A i \in 1 .. Len(wal) : wal[i].order = group =>
              Follows(Refusals, sequence, Room, group, pos + 1, next_sequence, wal[i].seq)
      BY <2>1, <2>4, <3>2, FollowsSkip, Zenon DEF NumberingAt
    <3> QED
      BY <2>1, <2>7, <3>1, <3>3, Zenon DEF NumberingAt
  <2>13. CASE AssignSequence(w) /\ ~CallbackFailed(x)
    <3>1. /\ pos' = pos + 1 /\ next_sequence' = next_sequence + Span(x)
          /\ sequence' = [sequence EXCEPT ![x] = next_sequence]
      BY <2>13, Zenon DEF AssignSequence
    <3>2. sequence'[x] = next_sequence
      BY <2>4, <3>1, Zenon DEF TypeOK, CallTypes
    <3>3. Span(x) = Room[x] /\ Room[x] \in Nat
      BY <2>4, <2>13, RoomFacts, Zenon
    <3>4. /\ next_sequence' = sequence'[x] + Room[x] /\ next_sequence' # 0
          /\ sequence'[x] # 0
      BY <2>1, <2>4, <3>1, <3>2, <3>3, SMTT(30), SMTT(45) DEF NumberingAt
    <3>5. x \notin Refusals
      BY <2>13, Zenon DEF Refusals
    <3>6. \A b : Follows(Refusals, sequence', Room, group, pos + 1, sequence'[x] + Room[x], b)
      BY <2>4, <3>4, <3>5, FollowsNext, Zenon
    <3> QED
      BY <2>7, <3>1, <3>4, <3>6, Zenon
  <2> QED
    BY <2>2, <2>8, <2>9, <2>10, <2>11, <2>12, <2>13, Zenon
<1> QED
  BY <1>2, <1>3, <1>4, Zenon

-----------------------------------------------------------------------------
(***************************************************************************)
(* After a failed append.  The leader reaches WriteStatusCheck before      *)
(* another group can write, and then every later leader is turned away.    *)
(***************************************************************************)
LastBad ==
    /\ wal # <<>> /\ ~wal[Len(wal)].ok
    /\ ~CallbackFailed(wal[Len(wal)].order[1])

WillStop(w) == step[w] = "check" /\ leader_status = "IOError" /\ ~CallbackFailed(w)

Stopped ==
    /\ bg_error
    /\ \A w \in Writers :
          step[w] # "callbacks" /\ (step[w] = "enter" => leader_status # "OK")

StopsWriting ==
    ParanoidChecks /\ LastBad => Stopped \/ \E w \in Writers : WillStop(w)

\* the leader of a record
LEMMA FirstOfRecord ==
    ASSUME TypeOK, TraceInv, NEW i \in 1 .. Len(wal)
    PROVE  wal[i].order[1] \in Writers /\ Logged(wal[i].order[1])
<1>1. wal[i].order # <<>>
  BY Zenon DEF TraceInv, RecordsKept, RecordOK
<1>2. 1 \in 1 .. Len(wal[i].order)
  BY <1>1, RecordFacts
<1> QED
  BY <1>2, RecordFacts, Zenon

\* A record of unknown fate is the last one because it was, or because its
\* append has just failed.
LEMMA LastBadStep ==
    ASSUME TypeOK, QueueInv, TraceInv, NEW w \in Writers, Step(w), LastBad'
    PROVE  \/ wal' = wal /\ LastBad
           \/ WillStop(w)'
<1>1. StepPhase /\ CallbacksFirst
  BY Zenon DEF TraceInv
<1>2. CASE wal' = wal
  <2>1. wal # <<>> /\ ~wal[Len(wal)].ok
    BY <1>2, Zenon DEF LastBad
  <2>2. Len(wal) \in 1 .. Len(wal)
    BY <2>1 DEF TypeOK, DbTypes
  <2>3. callback_status'[wal[Len(wal)].order[1]] = callback_status[wal[Len(wal)].order[1]]
    BY <1>1, <2>2, FirstOfRecord, LoggedAreChecked, Zenon
  <2> QED
    BY <1>2, <2>1, <2>3, Zenon DEF LastBad, CallbackFailed
<1>3. CASE Appended(w, Len(wal) + 1)
  <2>1. /\ WriteToWAL(w) /\ Len(wal') = Len(wal) + 1
        /\ wal'[Len(wal')].order = group
        /\ leader_status' = IF wal'[Len(wal')].ok THEN "OK" ELSE "IOError"
    BY <1>3, Zenon DEF Appended
  <2>2. /\ leader_status' = "IOError" /\ callback_status'[group[1]] = "OK"
    BY <2>1, Zenon DEF LastBad, CallbackFailed
  <2>3. step[w] = "callbacks" /\ step'[w] = "check"
    BY <2>1, <2>2, Zenon DEF WriteToWAL, Goto, TypeOK, CallTypes
  <2>4. step[w] \in LeaderSteps /\ step[w] \in ActorSteps
    BY <2>3, Zenon DEF LeaderSteps, ActorSteps
  <2>5. w = group[1]
    BY <1>1, <2>4, OneActor, Zenon DEF StepPhase
  <2> QED
    BY <2>2, <2>3, <2>5, Zenon DEF WillStop, CallbackFailed
<1> QED
  BY <1>2, <1>3, WalStep, Zenon

\* Once stopped, no later leader gets as far as the log.
LEMMA StaysStopped ==
    ASSUME TypeOK, QueueInv, TraceInv, NEW w \in Writers, Step(w), Stopped
    PROVE  Stopped'
<1>1. bg_error'
  BY Zenon
     DEF Stopped, Step, JoinBatchGroup, RejectCall, UnbatchedSwitch, PreprocessWrite,
     EnterAsBatchGroupLeader, CheckCallback, WriteToWAL, SkipBatch, StartBatch,
     InsertSerial, FailSerial, FinishBatch, FinishSerial, AssignSequence,
     LaunchParallelMemTableWriters, InsertParallel, FailParallel,
     CompleteParallelMemTableWriter, WriteStatusCheck, PreRelease,
     SetLastSequence, ExitAsBatchGroupLeader, insertFrame, dbVars
<1>2. PreprocessWrite(w) => leader_status' # "OK"
  BY Zenon DEF Stopped, PreprocessWrite
<1>3. leader_status # "OK" => leader_status' # "OK"
  <2>1. ~WriteToWAL(w)
    BY Zenon DEF Stopped, WriteToWAL
  <2>2. PreRelease(w) => leader_status' \in {leader_status, "PreReleaseError"}
    BY Zenon DEF PreRelease
  <2>3. ~PreprocessWrite(w) /\ ~PreRelease(w) => leader_status' = leader_status
    BY <2>1, ZenonT(30)
       DEF Step, JoinBatchGroup, RejectCall, UnbatchedSwitch,
       EnterAsBatchGroupLeader, CheckCallback, SkipBatch, StartBatch,
       InsertSerial, FailSerial, FinishBatch, FinishSerial, AssignSequence,
       LaunchParallelMemTableWriters, InsertParallel, FailParallel,
       CompleteParallelMemTableWriter, WriteStatusCheck,
       SetLastSequence, ExitAsBatchGroupLeader, insertFrame, groupVars
  <2> QED
    BY <1>2, <2>2, <2>3, Zenon
<1>4. ASSUME NEW v \in Writers
      PROVE  step'[v] # "callbacks" /\ (step'[v] = "enter" => leader_status' # "OK")
  <2>1. CASE step'[v] = step[v]
    BY <1>3, <2>1, Zenon DEF Stopped
  <2>2. CASE step'[v] # step[v]
    <3>1. ~(EnterAsBatchGroupLeader(w) /\ leader_status = "OK")
      BY Zenon DEF Stopped, EnterAsBatchGroupLeader
    <3> QED
      BY <1>2, <2>2, <3>1, PlaceStep, Zenon
  <2> QED
    BY <2>1, <2>2, Zenon
<1> QED
  BY <1>1, <1>4, ZenonT(30) DEF Stopped

\* WriteStatusCheck stops writing before another group is formed.
LEMMA StopperStops ==
    ASSUME TypeOK, QueueInv, TraceInv, ParanoidChecks, NEW w \in Writers, Step(w),
           NEW a \in Writers, WillStop(a)
    PROVE  WillStop(a)' \/ Stopped'
<1>1. StepPhase /\ step[a] \in LeaderSteps /\ step[a] \in ActorSteps
  BY Zenon DEF TraceInv, WillStop, LeaderSteps, ActorSteps
<1>2. CASE w # a
  BY <1>1, <1>2, Bystander, Zenon DEF WillStop, CallbackFailed
<1>3. CASE w = a
  <2>1. WriteStatusCheck(a)
    BY <1>3, ZenonT(30)
       DEF WillStop, Step, JoinBatchGroup, RejectCall, UnbatchedSwitch, PreprocessWrite,
       EnterAsBatchGroupLeader, CheckCallback, WriteToWAL, SkipBatch, StartBatch,
       InsertSerial, FailSerial, FinishBatch, FinishSerial, Inserting,
       AssignSequence, LaunchParallelMemTableWriters, InsertParallel, FailParallel,
       CompleteParallelMemTableWriter, PreRelease, SetLastSequence,
       ExitAsBatchGroupLeader
  <2>2. bg_error'
    BY <2>1, Zenon DEF WillStop, WriteStatusCheck
  <2>3. step'[a] = "exit" /\ \A v \in Writers : v # a => step'[v] = step[v]
    BY <2>1, Zenon DEF WillStop, WriteStatusCheck, Goto, TypeOK, CallTypes
  <2>4. \A v \in Writers : v # a => step[v] # "callbacks" /\ step[v] # "enter"
    <3>1. group # <<>> /\ \A v \in Writers : v # a => step[v] \notin ActorSteps
      BY <1>1, OneActor, Zenon
    <3> QED
      BY <1>1, <3>1, Zenon DEF StepPhase, ActorSteps, LeaderSteps
  <2> QED
    BY <2>2, <2>3, <2>4, ZenonT(30) DEF Stopped
<1> QED
  BY <1>2, <1>3, Zenon

\* No step lets a group be logged after a failed append.
LEMMA StepKeepsStopsWriting ==
    ASSUME TypeOK, QueueInv, TraceInv, StopsWriting, NEW w \in Writers, Step(w)
    PROVE  StopsWriting'
<1> SUFFICES ASSUME ParanoidChecks, LastBad'
             PROVE  Stopped' \/ \E v \in Writers : WillStop(v)'
  BY Zenon DEF StopsWriting
<1> QED
  BY LastBadStep, StaysStopped, StopperStops, Zenon DEF StopsWriting

\* Nothing is appended after a failed append.
LEMMA StepKeepsNothingAfter ==
    ASSUME TypeOK, QueueInv, TraceInv, StopsWriting, NothingAfterFailedAppend,
           NEW w \in Writers, Step(w)
    PROVE  NothingAfterFailedAppend'
<1> SUFFICES ASSUME ParanoidChecks, NEW i \in 1 .. Len(wal'), i < Len(wal')
             PROVE  wal'[i].ok \/ callback_status'[wal'[i].order[1]] # "OK"
  BY Zenon DEF NothingAfterFailedAppend, CallbackFailed
<1>1. StepPhase /\ CallbacksFirst
  BY Zenon DEF TraceInv
<1>2. i \in 1 .. Len(wal) /\ wal'[i] = wal[i]
  <2>1. i \in 1 .. Len(wal)
    BY WalStep DEF Appended
  <2> QED
    BY <2>1, WalStep, Zenon
<1>3. callback_status'[wal[i].order[1]] = callback_status[wal[i].order[1]]
  BY <1>1, <1>2, FirstOfRecord, LoggedAreChecked, Zenon
<1>4. CASE i < Len(wal)
  BY <1>2, <1>3, <1>4, Zenon DEF NothingAfterFailedAppend, CallbackFailed
<1>5. CASE ~(i < Len(wal))
  <2>1. i = Len(wal) /\ wal # <<>> /\ wal' # wal
    BY <1>2, <1>5, WalStep
  <2>2. step[w] = "callbacks"
    BY <2>1, WalStep, Zenon DEF Appended, WriteToWAL
  <2>3. ~Stopped
    BY <2>2, Zenon DEF Stopped
  <2>4. \A a \in Writers : ~WillStop(a)
    BY <1>1, <2>2, OneActor, Zenon DEF WillStop, ActorSteps, LeaderSteps
  <2>5. ~LastBad
    BY <2>3, <2>4, Zenon DEF StopsWriting
  <2> QED
    BY <1>2, <1>3, <2>1, <2>5, Zenon DEF LastBad, CallbackFailed
<1> QED
  BY <1>4, <1>5, Zenon

-----------------------------------------------------------------------------
LogInv ==
    TraceInv /\ NumbersAgree /\ Numbering /\ StopsWriting /\ NothingAfterFailedAppend

\* Initially the log is empty and nobody has been checked.
LEMMA InitLogInv == Init => LogInv
<1> SUFFICES ASSUME Init PROVE LogInv
  BY Zenon
<1>1. wal = <<>> /\ Len(wal) = 0
  BY Zenon DEF Init
<1>2. \A w \in Writers : /\ step[w] = "start" /\ result[w] = "none" /\ phase[w] = "idle"
                         /\ callback_status[w] = "OK"
                         /\ sequence[w] = 0 /\ cursor[w] = 0
  BY Zenon DEF Init, QueueInit
<1>3. StepPhase /\ Pending /\ CallbacksFirst /\ Refused
  BY <1>2, Zenon DEF StepPhase, LeaderSteps, ClosingSteps, Pending, CallbacksFirst, Refused,
     CallbackFailed
<1>4. NotTakenUp
  BY <1>1, <1>2 DEF NotTakenUp, Fresh, Logged, CallbackFailed
<1>5. RecordsKept /\ NumbersAgree /\ NothingAfterFailedAppend
  BY <1>1 DEF RecordsKept, NumbersAgree, NothingAfterFailedAppend
<1>6. Numbering
  BY <1>2, Zenon DEF Numbering
<1>7. StopsWriting
  BY <1>1, Zenon DEF StopsWriting, LastBad
<1> QED
  BY <1>3, <1>4, <1>5, <1>6, <1>7, Zenon DEF LogInv, TraceInv

\* The invariant of the log is kept by every step.
LEMMA NextKeepsLogInv ==
    ASSUME TypeOK, TypeOK', QueueInv, QueueInv', LogInv, [Next]_vars
    PROVE  LogInv'
<1>0. TraceInv /\ NumbersAgree /\ Numbering /\ StopsWriting /\ NothingAfterFailedAppend
  BY Zenon DEF LogInv
<1>1. ASSUME NEW w \in Writers, Step(w) PROVE LogInv'
  <2>1. StepPhase /\ Pending /\ NotTakenUp /\ CallbacksFirst
    BY <1>0, Zenon DEF TraceInv
  <2>2. StepPhase' /\ Pending' /\ NotTakenUp' /\ CallbacksFirst'
    BY <1>1, <2>1, StepKeepsStepPhase, StepKeepsPending, StepKeepsNotTakenUp,
       StepKeepsCallbacksFirst, Zenon
  <2>3. RecordsKept' /\ Refused'
    BY <1>0, <1>1, StepKeepsRecords, StepKeepsRefused, Zenon
  <2>4. NumbersAgree' /\ Numbering'
    BY <1>0, <1>1, StepKeepsNumbersAgree, StepKeepsNumbering, Zenon
  <2>5. StopsWriting' /\ NothingAfterFailedAppend'
    BY <1>0, <1>1, StepKeepsStopsWriting, StepKeepsNothingAfter, Zenon
  <2> QED
    BY <2>2, <2>3, <2>4, <2>5, Zenon DEF LogInv, TraceInv
<1>2. CASE BackgroundError \/ Finished \/ UNCHANGED vars
  <2>1. /\ UNCHANGED <<phase, group, kind, step, callback_status, sequence, cursor, result,
                       leader_status, next_sequence, pos, wal>>
        /\ bg_error => bg_error'
    <3>1. CASE BackgroundError
      BY <3>1, Zenon DEF BackgroundError, queueVars, callVars, groupVars
    <3>2. CASE UNCHANGED vars
      BY <3>2, Zenon DEF vars, queueVars, callVars, groupVars, dbVars
    <3> QED
      BY <1>2, <3>1, <3>2, Zenon DEF Finished
  <2>2. TraceInv'
    <3>1. StepPhase' /\ Pending' /\ Refused'
      BY <1>0, <2>1, Zenon DEF TraceInv, StepPhase, Pending, Refused, CallbackFailed
    <3>2. NotTakenUp' /\ CallbacksFirst'
      <4>1. Members(group)' = Members(group) /\ \A v : Fresh(v) => Fresh(v)'
        BY <2>1, Zenon DEF Fresh, Logged, Members
      <4> QED
        BY <1>0, <2>1, <4>1, Zenon DEF TraceInv, NotTakenUp, CallbacksFirst, CallbackFailed
    <3>3. RecordsKept'
      <4>1. \A r : RecordOK(r) => RecordOK(r)'
        BY <2>1, Zenon DEF RecordOK, Members, CallbackFailed
      <4>2. \A i \in 1 .. Len(wal) : RecordOK(wal[i])
        BY <1>0, Zenon DEF TraceInv, RecordsKept
      <4> QED
        BY <2>1, <4>1, <4>2, Zenon DEF RecordsKept
    <3> QED
      BY <3>1, <3>2, <3>3, Zenon DEF TraceInv
  <2>3. Refusals' = Refusals /\ Room' = Room
    BY <2>1, Zenon DEF Refusals, Room, SpanIf, CallbackFailed
  <2>4. NumbersAgree' /\ Numbering'
    BY <1>0, <2>1, <2>3, Zenon DEF NumbersAgree, NumbersFollow, Numbering, NumberingAt,
       CallbackFailed
  <2>5. StopsWriting' /\ NothingAfterFailedAppend'
    BY <1>0, <2>1, Zenon DEF StopsWriting, LastBad, Stopped, WillStop,
       NothingAfterFailedAppend, CallbackFailed
  <2> QED
    BY <2>2, <2>4, <2>5, Zenon DEF LogInv
<1> QED
  BY <1>1, <1>2, Zenon DEF Next

\* What the invariant says of refused calls.
LEMMA LogInvRefused ==
    ASSUME LogInv PROVE RefusedLeavesNoTrace
<1> SUFFICES ASSUME NEW w \in Writers, CallbackFailed(w)
             PROVE  /\ sequence[w] = 0 /\ cursor[w] = 0 /\ result[w] # "OK"
                    /\ \A r \in Members(wal) : w \notin r.batches
  BY Zenon DEF RefusedLeavesNoTrace
<1>1. Refused /\ RecordsKept
  BY Zenon DEF LogInv, TraceInv
<1>2. \A i \in 1 .. Len(wal) : w \notin wal[i].batches
  BY <1>1, Zenon DEF RecordsKept, RecordOK
<1> QED
  BY <1>1, <1>2, Zenon DEF Refused, Members

\* What it says of replay.
LEMMA LogInvReplay ==
    ASSUME TypeOK, LogInv PROVE ReplayAgrees
<1> SUFFICES ASSUME NEW r \in Members(wal), NEW j \in 1 .. Len(r.order),
                    r.order[j] \in r.batches, sequence[r.order[j]] # 0
             PROVE  LET earlier == {i \in 1 .. j - 1 : r.order[i] \in r.batches}
                    IN  \/ earlier = {} /\ sequence[r.order[j]] = r.seq
                        \/ \E i \in earlier :
                              /\ \A k \in earlier : k <= i
                              /\ sequence[r.order[j]] = sequence[r.order[i]] + Span(r.order[i])
  BY Zenon DEF ReplayAgrees
<1> DEFINE s == r.order
           earlier == {i \in 1 .. j - 1 : s[i] \in r.batches}
<1>0. PICK i \in 1 .. Len(wal) : r = wal[i]
  BY Zenon DEF Members
<1>1. RecordOK(r) /\ NumbersFollow(r)
  BY <1>0, Zenon DEF LogInv, TraceInv, RecordsKept, NumbersAgree
<1>2. \A k \in 1 .. Len(s) : s[k] \in r.batches <=> s[k] \notin Refusals
  BY <1>0, <1>1, RecordFacts, Zenon DEF RecordOK, Refusals
<1>3. \A k \in 1 .. j - 1 : k \in 1 .. Len(s)
  BY <1>0, RecordFacts
<1>4. earlier = Earlier(Refusals, s, j)
  BY <1>2, <1>3, Zenon DEF Earlier
<1>5. \A l \in earlier : Span(s[l]) = Room[s[l]]
  BY <1>0, <1>2, <1>3, RecordFacts, RoomFacts, Zenon DEF Refusals
<1>6. Follows(Refusals, sequence, Room, s, j, sequence[s[j]], r.seq)
  BY <1>0, <1>1, <1>2, RecordFacts, Zenon DEF NumbersFollow, Refusals
<1> QED
  BY <1>4, <1>5, <1>6, Zenon DEF Follows

=============================================================================
