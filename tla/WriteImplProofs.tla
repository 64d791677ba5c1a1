-------------------------- MODULE WriteImplProofs --------------------------
(***************************************************************************)
(* What WriteImpl.tla promises, proved for any finite set of calls.  The   *)
(* theorems about sequence numbers and visibility are for kinds of calls   *)
(* in which no batch is a latest persistent state (with one, the numbers   *)
(* of a group are not unique: see StaleLastSequence in the README); the    *)
(* theorems about the log are for all.                                     *)
(***************************************************************************)
EXTENDS WriteImplLog, WriteQueueProofs

-----------------------------------------------------------------------------
(***************************************************************************)
(* The write path uses the queue as WriteQueue allows, so the queue's      *)
(* invariant is available throughout.                                      *)
(***************************************************************************)
LEMMA StepUsesQueue == Next => [QueueNext]_queueVars
<1> SUFFICES ASSUME Next PROVE [QueueNext]_queueVars
  BY Zenon
<1>1. CASE BackgroundError
  BY <1>1, Zenon DEF BackgroundError
<1>2. CASE Finished
  BY <1>2 DEF Finished, vars
<1>3. ASSUME NEW w \in Writers, Step(w) PROVE [QueueNext]_queueVars
  <2>1. CASE JoinBatchGroup(w)
    BY <2>1, Zenon DEF JoinBatchGroup, QueueNext
  <2>2. CASE UnbatchedSwitch(w)
    BY <2>2, Zenon DEF UnbatchedSwitch, QueueNext
  <2>3. CASE EnterAsBatchGroupLeader(w)
    BY <2>3, Zenon DEF EnterAsBatchGroupLeader, QueueNext
  <2>4. CASE LaunchParallelMemTableWriters(w)
    BY <2>4, Zenon DEF LaunchParallelMemTableWriters, QueueNext
  <2>5. CASE CompleteParallelMemTableWriter(w)
    BY <2>5, Zenon DEF CompleteParallelMemTableWriter, QueueNext
  <2>6. CASE ExitAsBatchGroupLeader(w)
    BY <2>6, ZenonT(30) DEF ExitAsBatchGroupLeader, QueueNext
  <2>7. CASE RejectCall(w) \/ PreprocessWrite(w) \/ CheckCallback(w)
             \/ WriteToWAL(w) \/ WriteStatusCheck(w) \/ PreRelease(w)
             \/ SetLastSequence(w)
    BY <2>7, Zenon DEF RejectCall, PreprocessWrite, CheckCallback, WriteToWAL,
       WriteStatusCheck, PreRelease, SetLastSequence
  <2>8. CASE SkipBatch(w) \/ StartBatch(w) \/ FinishBatch(w) \/ FinishSerial(w)
    BY <2>8, Zenon DEF SkipBatch, StartBatch, FinishBatch, FinishSerial, insertFrame
  <2>9. CASE InsertSerial(w) \/ FailSerial(w)
    BY <2>9, Zenon DEF InsertSerial, FailSerial, insertFrame
  <2>10. CASE AssignSequence(w) \/ InsertParallel(w) \/ FailParallel(w)
    BY <2>10, Zenon DEF AssignSequence, InsertParallel, FailParallel, insertFrame
  <2> QED
    BY <1>3, <2>1, <2>2, <2>3, <2>4, <2>5, <2>6, <2>7, <2>8, <2>9, <2>10, ZenonT(30) DEF Step
<1> QED
  BY <1>1, <1>2, <1>3 DEF Next

\* The queue discipline holds throughout the write path.
THEOREM WritePathKeepsQueue == Spec => []QueueInv
<1>1. Init => QueueInv
  BY InitQueueInv, Zenon DEF Init
<1>2. QueueInv /\ [Next]_vars => QueueInv'
  <2> SUFFICES ASSUME QueueInv, [Next]_vars PROVE QueueInv'
    BY Zenon
  <2>1. [QueueNext]_queueVars
    BY StepUsesQueue, Zenon DEF vars
  <2> QED
    BY <2>1, QueueNextPreserves, Zenon
<1> QED
  BY <1>1, <1>2, PTL DEF Spec

\* Every variable keeps its type, whatever the calls and the faults are.
THEOREM WriteTypes == Spec => []TypeOK
<1>1. TypeOK /\ QueueInv /\ QueueInv' /\ [Next]_vars => TypeOK'
  <2> SUFFICES ASSUME TypeOK, QueueInv, QueueInv', [Next]_vars PROVE TypeOK'
    BY Zenon
  <2>1. QueueTypeOK'
    BY Zenon DEF QueueInv
  <2>2. CASE UNCHANGED vars
    BY <2>1, <2>2, ZenonT(30) DEF vars, callVars, groupVars, dbVars, TypeOK, CallTypes,
       GroupTypes, DbTypes
  <2>3. CASE BackgroundError
    BY <2>1, <2>3 DEF BackgroundError, callVars, groupVars, TypeOK, CallTypes,
       GroupTypes, DbTypes
  <2>4. CASE Finished
    BY <2>2, <2>4 DEF Finished
  <2>5. ASSUME NEW w \in Writers, Step(w) PROVE TypeOK'
    BY <2>1, <2>5, StepKeepsCallTypes, StepKeepsGroupTypes, StepKeepsDbTypes,
       SMTT(30), SMTT(45)
       DEF TypeOK
  <2> QED
    BY <2>2, <2>3, <2>4, <2>5 DEF Next
<1> QED
  BY InitTypeOK, <1>1, WritePathKeepsQueue, PTL DEF Spec

-----------------------------------------------------------------------------
\* No step of a call breaks the stage of the group.
LEMMA StepKeepsGroupProgress ==
    ASSUME WriteInv, QueueInv, QueueInv', StepPhase', NEW w \in Writers, Step(w)
    PROVE  GroupProgress'
  BY OutsideProgress, EnterProgress, CheckCallbackProgress, WriteToWALProgress,
     SerialProgress, AssignProgress, LaunchProgress, ParallelProgress,
     CompleteProgress, StatusCheckProgress, PreReleaseProgress, PublishProgress,
     ExitProgress, SMTT(30), SMTT(45)
     DEF WriteInv, Step

\* The invariant holds initially.
LEMMA InitWriteInv == Init => WriteInv
<1> SUFFICES ASSUME Init PROVE WriteInv
  BY Zenon
<1>1. TypeOK
  BY InitTypeOK, Zenon
<1>2. StepPhase /\ GroupRules
  BY DEF Init, QueueInit, StepPhase, LeaderSteps, ClosingSteps, GroupRules
<1>3. NotStarted /\ Returned /\ GroupProgress /\ LogWritten
  BY Zenon DEF Init, NotStarted, Untouched, Returned, GroupProgress, LogWritten
<1>4. SequencesAreUnique
  BY Zenon DEF Init, SequencesAreUnique, Taken
<1>5. LogOfReturned /\ NoState
  BY DEF Init, LogOfReturned, AcknowledgedIsDurable, NoState
<1> QED
  BY <1>1, <1>2, <1>3, <1>4, <1>5, ZenonT(30) DEF WriteInv

\* Every step keeps the invariant.
LEMMA NextKeepsWriteInv ==
    ASSUME NoPersistentState, QueueInv, QueueInv', WriteInv, TypeOK', [Next]_vars
    PROVE  WriteInv'
<1>1. ASSUME NEW w \in Writers, Step(w) PROVE WriteInv'
  <2>1. StepPhase' /\ GroupRules' /\ NotStarted'
    BY <1>1, StepKeepsStepPhase, StepKeepsGroupRules, StepKeepsNotStarted,
         SMTT(30), SMTT(45) DEF WriteInv
  <2>2. GroupProgress' /\ NoState'
    BY <1>1, <2>1, StepKeepsGroupProgress, StepKeepsNoState, ZenonT(30) DEF WriteInv
  <2>3. Returned' /\ SequencesAreUnique'
    BY <1>1, <2>2, StepKeepsReturned, StepKeepsUnique, ZenonT(30) DEF WriteInv
  <2>4. LogWritten' /\ LogOfReturned'
    BY <1>1, StepKeepsLogWritten, StepKeepsLogOfReturned DEF WriteInv, LogOfReturned
  <2> QED
    BY <2>1, <2>2, <2>3, <2>4, ZenonT(30) DEF WriteInv
<1>2. CASE BackgroundError \/ Finished \/ UNCHANGED vars
  <2>1. UNCHANGED <<queueVars, callVars, groupVars, LastSequence, wal, synced,
                    recoverable, restored, diverged>>
    BY <1>2, Zenon DEF BackgroundError, Finished, vars, dbVars
  <2>2. UNCHANGED stageVars /\ UNCHANGED <<step, phase, result, wal, synced,
                                          recoverable, restored>>
    BY <2>1, Zenon DEF queueVars, callVars, groupVars, stageVars
  <2>3. StepPhase' /\ GroupRules'
    BY <2>2, Zenon DEF WriteInv, StepPhase, GroupRules, MayFollow, stageVars
  <2>4. NotStarted' /\ Returned'
    BY <2>2, ZenonT(30) DEF WriteInv, NotStarted, Untouched, Members, Returned, Settled,
       Span, SpanIf, Inserted, ToMemtable, CallbackFailed, stageVars
  <2>5. GroupProgress'
    <3>1. \A v \in Writers : Inserted(v) \/ diverged => Inserted(v)' \/ diverged'
      BY <2>2, Zenon DEF Inserted, ToMemtable, CallbackFailed, stageVars
    <3> QED
      BY <2>2, <3>1, StageFrame, ZenonT(30) DEF WriteInv, GroupProgress, stageVars
  <2>6. SequencesAreUnique' /\ NoState'
    BY <2>2 DEF WriteInv, SequencesAreUnique, Taken, Span, SpanIf, NoState, stageVars
  <2>7. LogWritten' /\ LogOfReturned'
    BY <2>2, Zenon DEF WriteInv, LogWritten, LogOfReturned, AcknowledgedIsDurable,
       Durable, CallbackFailed, stageVars
  <2> QED
    BY <2>3, <2>4, <2>5, <2>6, <2>7, ZenonT(30) DEF WriteInv
<1> QED
  BY <1>1, <1>2 DEF Next

\* Together with the queue's invariant, WriteInv is inductive: in every state
\* WriteImpl reaches, what the group's range, the log and the memtables hold
\* is determined by where the call that acts for the group has got to.
THEOREM WriteInvariant ==
    ASSUME NoPersistentState PROVE Spec => [](WriteInv /\ QueueInv)
<1>1. Init => WriteInv
  BY InitWriteInv, Zenon
<1>2. WriteInv /\ QueueInv /\ QueueInv' /\ TypeOK' /\ [Next]_vars => WriteInv'
  BY NextKeepsWriteInv, Zenon
<1>3. Spec => []QueueInv /\ []TypeOK
  BY WritePathKeepsQueue, WriteTypes, PTL
<1> QED
  BY <1>1, <1>2, <1>3, PTL DEF Spec

\* Every batch a reader can see in part it can see whole: SetLastSequence
\* publishes a group only when the serial loop or all parallel writers are done.
THEOREM BatchesAreAtomic ==
    ASSUME NoPersistentState PROVE Spec => []NoHalfBatchVisible
<1>1. WriteInv /\ QueueInv => NoHalfBatchVisible
  <2> SUFFICES ASSUME WriteInv, QueueInv, NEW w \in Writers, ~diverged, ToMemtable(w),
                      sequence[w] # 0, sequence[w] <= LastSequence
               PROVE  /\ cursor[w] = kind[w].count
                      /\ sequence[w] + Span(w) <= LastSequence + 1
    BY Zenon DEF NoHalfBatchVisible
  <2>1. TypeOK /\ LastSequence \in Nat /\ offset[w] \in Nat /\ sequence[w] \in Nat
    BY Zenon DEF WriteInv, TypeOK, GroupTypes, DbTypes, CallTypes
  <2>2. CASE Settled(w)
    BY <2>2, ZenonT(30) DEF Settled, Inserted
  <2>3. CASE w \notin Members(group)
    BY <2>2, <2>3, ZenonT(30) DEF WriteInv, NotStarted, Untouched, Returned
  <2>4. CASE w \in Members(group)
    <3>1. PICK i \in 1 .. Len(group) : w = group[i]
      BY <2>4, GroupFacts, Zenon
    <3>2. ~Numbered(i)
      BY <2>1, <3>1 DEF Numbered
    <3>3. ~CallbackFailed(w)
      BY Zenon DEF ToMemtable
    <3>4. PICK a \in Members(group) : step[a] \in ActorSteps \cup {"parallel"}
      <4>1. group # <<>> /\ group \in Seq(Writers) /\ queue # <<>>
        BY <2>4 DEF Members, QueueInv, QueueTypeOK, GroupIsPrefix
      <4>2. PICK a \in Writers : a \in Members(group)
                /\ phase[a] \in {"leader", "parallel", "closing"}
        <5>1. queue[1] = group[1] /\ group[1] \in Writers /\ group[1] \in Members(group)
          BY <4>1 DEF QueueInv, QueueTypeOK, GroupIsPrefix, Members
        <5>2. \/ phase[group[1]] = "leader"
              \/ \E a \in Members(group) : phase[a] \in {"parallel", "closing"}
          BY <4>1, <5>1, ZenonT(30) DEF QueueInv, InCharge
        <5> QED
          BY <5>1, <5>2, GroupFacts, ZenonT(30)
      <4>3. step[a] \in Steps
        BY <2>1 DEF TypeOK, CallTypes
      <4> QED
        BY <4>1, <4>2, <4>3, ZenonT(30)
           DEF WriteInv, StepPhase, Steps, ActorSteps, LeaderSteps, ClosingSteps
    <3>5. a \in Writers
      BY GroupFacts
    <3>6. CASE step[a] = "callbacks"
      BY <3>1, <3>5, <3>6, SMTT(30), SMTT(45) DEF WriteInv, GroupProgress, InCallbacks
    <3>7. CASE step[a] = "assign"
      BY <3>1, <3>2, <3>3, <3>5, <3>7, SMTT(30), SMTT(45)
         DEF WriteInv, GroupProgress, InAssign, NumberedOrRefused
    <3>8. CASE step[a] = "insert"
      <4>1. InInsert
        BY <3>5, <3>8, Zenon DEF WriteInv, GroupProgress
      <4>2. i < pos \/ i = pos \/ i > pos
        BY <2>1 DEF TypeOK, GroupTypes
      <4> QED
        BY <3>1, <3>2, <3>3, <4>1, <4>2, SMTT(30), SMTT(45)
           DEF InInsert, MemberInserted, NumberedOrRefused
    <3>9. CASE step[a] = "parallel"
      BY <3>1, <3>2, <3>3, <3>5, <3>9, SMTT(30), SMTT(45)
         DEF WriteInv, GroupProgress, InParallel, NumberedOrRefused
    <3>10. CASE step[a] \in {"check", "release", "publish"}
      BY <3>1, <3>2, <3>5, <3>10, SMTT(30), SMTT(45)
         DEF WriteInv, GroupProgress, Ready, Abandoned
    <3>11. CASE step[a] = "exit"
      BY <2>2, <3>1, <3>5, <3>11, ZenonT(30) DEF WriteInv, GroupProgress, Leaving
    <3>12. \/ step[a] \in {"callbacks", "assign", "insert", "parallel", "exit"}
           \/ step[a] \in {"check", "release", "publish"}
      BY <3>4, Zenon DEF ActorSteps, LeaderSteps, ClosingSteps
    <3> QED
      BY <3>6, <3>7, <3>8, <3>9, <3>10, <3>11, <3>12, ZenonT(30)
  <2> QED
    BY <2>3, <2>4
<1> QED
  BY <1>1, WriteInvariant, PTL

\* No two writes are given the same sequence number.
THEOREM NumbersAreUnique ==
    ASSUME NoPersistentState PROVE Spec => []SequencesAreUnique
<1>1. WriteInv => SequencesAreUnique
  BY DEF WriteInv
<1> QED
  BY <1>1, WriteInvariant, PTL

\* OK from Write means logged, and synced if the call asked for it.
THEOREM OkMeansDurable ==
    ASSUME NoPersistentState PROVE Spec => []AcknowledgedIsDurable
<1>1. WriteInv => AcknowledgedIsDurable
  BY Zenon DEF WriteInv, LogOfReturned
<1> QED
  BY <1>1, WriteInvariant, PTL

\* OK from Write means that a read that starts now sees the batch.
THEOREM OkMeansVisible ==
    ASSUME NoPersistentState PROVE Spec => []AcknowledgedIsVisible
<1>1. WriteInv => AcknowledgedIsVisible
  <2> SUFFICES ASSUME WriteInv, NEW w \in Writers, result[w] = "OK", kind[w].batch,
                      ~kind[w].disable_memtable, ~diverged
               PROVE  /\ cursor[w] = kind[w].count
                      /\ sequence[w] # 0 /\ sequence[w] + Span(w) <= LastSequence + 1
    BY Zenon DEF AcknowledgedIsVisible
  <2>1. Settled(w) /\ ~CallbackFailed(w) /\ sequence[w] # 0
    BY Zenon DEF WriteInv, Returned
  <2> QED
    BY <2>1, Zenon DEF Settled, Inserted, ToMemtable
<1> QED
  BY <1>1, WriteInvariant, PTL

\* SetLastSequence's assertion: the visible sequence never goes back.
THEOREM VisibleSequenceGrows ==
    ASSUME NoPersistentState PROVE Spec => LastSequenceNeverDecreases
<1>1. WriteInv /\ [Next]_vars => [LastSequence' >= LastSequence]_LastSequence
  <2> SUFFICES ASSUME WriteInv, [Next]_vars
               PROVE  LastSequence' >= LastSequence \/ LastSequence' = LastSequence
    BY Zenon
  <2>1. ASSUME NEW w \in Writers, Step(w) PROVE LastSequence' >= LastSequence
    BY <2>1, StepAdvances, Zenon DEF WriteInv
  <2>2. BackgroundError \/ Finished \/ UNCHANGED vars => LastSequence' = LastSequence
    BY Zenon DEF BackgroundError, Finished, vars, dbVars
  <2> QED
    BY <2>1, <2>2, Zenon DEF Next
<1> QED
  BY <1>1, WriteInvariant, PTL DEF Spec, LastSequenceNeverDecreases

-----------------------------------------------------------------------------
\* Together with the queue's invariant and the types, LogInv is inductive: in
\* every state, with any kinds of calls, a record of the log is a whole group
\* without its refused calls, numbered in the order of the group.
THEOREM LogInvariant == Spec => [](TypeOK /\ LogInv)
<1>1. Init => LogInv
  BY InitLogInv, Zenon
<1>2. LogInv /\ TypeOK /\ TypeOK' /\ QueueInv /\ QueueInv' /\ [Next]_vars => LogInv'
  BY NextKeepsLogInv, Zenon
<1> QED
  BY <1>1, <1>2, WritePathKeepsQueue, WriteTypes, PTL DEF Spec

\* A call refused by its WriteCallback is in no record of the log, takes no
\* sequence number, inserts nothing and is not told OK, although its group
\* goes on.
THEOREM RefusedWritesVanish == Spec => []RefusedLeavesNoTrace
<1>1. LogInv => RefusedLeavesNoTrace
  BY LogInvRefused, Zenon
<1> QED
  BY <1>1, LogInvariant, PTL

\* The numbers recovery gives to the batches of a record, counting from the
\* record's own sequence, are the ones the serial loop of InsertInto and the
\* numbering of a parallel group gave them.
THEOREM ReplayIsConsistent == Spec => []ReplayAgrees
<1>1. TypeOK /\ LogInv => ReplayAgrees
  BY LogInvReplay, SMTT(30), SMTT(45)
<1> QED
  BY <1>1, LogInvariant, PTL

\* With paranoid_checks, WriteStatusCheck stops all writing before another
\* group can append to a log whose last append failed.
THEOREM FailedAppendIsLast == Spec => []NothingAfterFailedAppend
<1>1. LogInv => NothingAfterFailedAppend
  BY Zenon DEF LogInv
<1> QED
  BY <1>1, LogInvariant, PTL

=============================================================================
