----------------------------- MODULE WriteImpl -----------------------------
(***************************************************************************)
(* DBImpl::WriteImpl (db/db_impl_write.cc) with one write queue and no     *)
(* pipelining, over the queue of WriteQueue: the sequence numbers a group  *)
(* is given, the write-ahead log, the serial and the parallel insertion    *)
(* into the memtables, the publication of LastSequence that makes the      *)
(* group visible, and the status every caller gets back.                   *)
(*                                                                         *)
(* A member of Writers is one call.  The order of its keys is kept, their  *)
(* contents are not.                                                       *)
(***************************************************************************)
EXTENDS WriteQueue

CONSTANTS
    Kinds,              \* the calls that may be made
    SeqPerBatch,        \* seq_per_batch_
    AllowConcurrent,    \* allow_concurrent_memtable_write
    ParanoidChecks,     \* paranoid_checks
    WalMayFail,         \* whether AddRecord, Sync or a new log file may fail
    PreReleaseMayFail,  \* whether a PreReleaseCallback may return an error
    BackgroundMayFail   \* whether a flush or compaction may set bg_error_

\* batch: FALSE for EnterUnbatched; bad_cf: the key, if any, that names a
\* missing column family; persistent: IsLatestPersistentState
KindType ==
    [batch : BOOLEAN, sync : BOOLEAN, no_slowdown : BOOLEAN,
     disable_wal : BOOLEAN, disable_memtable : BOOLEAN, merge : BOOLEAN,
     ignore_missing : BOOLEAN, pre_release : BOOLEAN, persistent : BOOLEAN,
     callback : {"none", "batchable", "alone"}, count : Nat, batch_cnt : Nat,
     bad_cf : Nat]

ASSUME KindsTyped == Kinds \subseteq KindType

\* a batch that is not for the memtables has one sub-batch
ASSUME OneSubBatch ==
    \A k \in Kinds : k.disable_memtable => k.batch_cnt = 1

ASSUME SwitchesTyped ==
    /\ SeqPerBatch \in BOOLEAN
    /\ AllowConcurrent \in BOOLEAN
    /\ ParanoidChecks \in BOOLEAN
    /\ WalMayFail \in BOOLEAN
    /\ PreReleaseMayFail \in BOOLEAN
    /\ BackgroundMayFail \in BOOLEAN

VARIABLES
    kind,             \* each call's arguments
    step,             \* where each call is
    status,           \* Writer::status
    callback_status,  \* Writer::callback_status
    sequence,         \* Writer::sequence, 0 until it is assigned
    cursor,           \* how many keys of the batch have been inserted
    result            \* what the call returned
VARIABLES
    leader_status,    \* the leader's local status
    group_status,     \* WriteGroup::status
    last_sequence,    \* the leader's local last_sequence
    seq_inc,          \* the leader's local seq_inc
    parallel,         \* the leader's local parallel
    next_sequence,    \* the sequence the next batch of the group gets
    pos,              \* the member a loop over the group has reached
    offset            \* seq_inc when a writer's callback had been checked
VARIABLES
    LastSequence,     \* VersionSet::last_sequence_
    wal,              \* the records appended to the log
    synced,           \* how many of them are known to be on disk
    bg_error,         \* whether bg_error_ is set
    recoverable,      \* sequence numbers cached_recoverable_state_ will take
    restored,         \* sequence numbers WriteRecoverableState has used
    diverged          \* whether some insert into the memtables has failed

callVars == <<kind, step, status, callback_status, sequence, cursor, result>>
groupVars == <<leader_status, group_status, last_sequence, seq_inc, parallel,
               next_sequence, pos, offset>>
dbVars == <<LastSequence, wal, synced, bg_error, recoverable, restored,
            diverged>>
vars == <<queueVars, callVars, groupVars, dbVars>>

Statuses == {"OK", "Busy", "Incomplete", "IOError", "BgError",
             "InvalidArgument", "PreReleaseError"}

Init ==
    /\ QueueInit
    /\ kind \in [Writers -> Kinds]
    /\ step = [w \in Writers |-> "start"]
    /\ status = [w \in Writers |-> "OK"]
    /\ callback_status = [w \in Writers |-> "OK"]
    /\ sequence = [w \in Writers |-> 0]
    /\ cursor = [w \in Writers |-> 0]
    /\ result = [w \in Writers |-> "none"]
    /\ leader_status = "OK" /\ group_status = "OK"
    /\ last_sequence = 0 /\ seq_inc = 0 /\ next_sequence = 0 /\ pos = 1
    /\ parallel = FALSE
    /\ offset = [w \in Writers |-> 0]
    /\ LastSequence = 0
    /\ wal = <<>> /\ synced = 0
    /\ bg_error = FALSE
    /\ recoverable = 0 /\ restored = {}
    /\ diverged = FALSE

Goto(w, l) == step' = [step EXCEPT ![w] = l]

CallbackFailed(w) == callback_status[w] # "OK"

\* Writer::ShouldWriteToMemtable for a writer no insert has failed for
ToMemtable(w) == ~CallbackFailed(w) /\ ~kind[w].disable_memtable

\* the sequence numbers a writer takes: none if its callback failed, one per
\* sub-batch with seq_per_batch_, otherwise one per key for the memtable
SpanIf(w, cb) ==
    IF cb # "OK" THEN 0
    ELSE IF SeqPerBatch THEN kind[w].batch_cnt
    ELSE IF kind[w].disable_memtable THEN 0 ELSE kind[w].count

Span(w) == SpanIf(w, callback_status[w])

FinalStatus(w, s) == IF s # "OK" THEN s ELSE callback_status[w]

-----------------------------------------------------------------------------
\* JoinBatchGroup, and EnterUnbatched for a call without a batch
JoinBatchGroup(w) ==
    /\ step[w] = "start" /\ ~(kind[w].sync /\ kind[w].disable_wal)
    /\ Link(w)
    /\ Goto(w, IF kind[w].batch THEN "joined" ELSE "unbatched")
    /\ UNCHANGED <<kind, status, callback_status, sequence, cursor, result,
                   groupVars, dbVars>>

\* "Sync writes has to enable WAL."
RejectCall(w) ==
    /\ step[w] = "start" /\ kind[w].sync /\ kind[w].disable_wal
    /\ Goto(w, "done")
    /\ result' = [result EXCEPT ![w] = "InvalidArgument"]
    /\ UNCHANGED <<queueVars, kind, status, callback_status, sequence, cursor,
                   groupVars, dbVars>>

\* a flush or a compaction fails while writes go on
BackgroundError ==
    /\ BackgroundMayFail /\ ~bg_error
    /\ bg_error' = TRUE
    /\ UNCHANGED <<queueVars, callVars, groupVars, LastSequence, wal, synced,
                   recoverable, restored, diverged>>

(***************************************************************************)
(* WriteRecoverableState, called by SwitchMemtable: the cached state goes  *)
(* to the memtable under the next sequence numbers.  It ignores missing    *)
(* column families and has been logged as a valid batch: it does not fail. *)
(***************************************************************************)
WriteRecoverableState ==
    /\ LastSequence' = LastSequence + recoverable
    /\ restored' = restored \cup LastSequence + 1 .. LastSequence + recoverable
    /\ recoverable' = 0

\* what SwitchMemtable may return: the new log file may not be created
SwitchResults == IF WalMayFail THEN {"OK", "IOError"} ELSE {"OK"}

\* a flush or another caller of EnterUnbatched switches the memtable
UnbatchedSwitch(w) ==
    /\ step[w] = "unbatched"
    /\ ExitAlone(w)
    /\ WriteRecoverableState
    /\ Goto(w, "done")
    /\ \E s \in SwitchResults : result' = [result EXCEPT ![w] = s]
    /\ UNCHANGED <<kind, status, callback_status, sequence, cursor, groupVars,
                   wal, synced, bg_error, diverged>>

(***************************************************************************)
(* The leader reads LastSequence before PreprocessWrite, which may switch  *)
(* the memtable (SwitchWAL, HandleWriteBufferFull before the test of       *)
(* bg_error_, ScheduleFlushes after it) and may refuse the write.  A       *)
(* switch that fails is the leader's status, and the cached state has been *)
(* written all the same.                                                   *)
(***************************************************************************)
PreprocessWrite(w) ==
    /\ step[w] = "joined" /\ phase[w] = "leader"
    /\ last_sequence' = LastSequence
    /\ \/ /\ \/ WriteRecoverableState
             \/ UNCHANGED <<LastSequence, restored, recoverable>>
          /\ \/ bg_error /\ leader_status' = "BgError"
             \/ ~bg_error /\ leader_status' = "OK"
             \/ ~bg_error /\ kind[w].no_slowdown /\ leader_status' = "Incomplete"
       \/ WriteRecoverableState /\ leader_status' \in SwitchResults \ {"OK"}
    /\ Goto(w, "enter")
    /\ UNCHANGED <<queueVars, kind, status, callback_status, sequence, cursor,
                   result, group_status, seq_inc, parallel, next_sequence, pos,
                   offset, wal, synced, bg_error, diverged>>

\* what EnterAsBatchGroupLeader asks of a follower of kind k; the limit on the
\* bytes of a group may stop it anywhere
MayFollow(l, k) ==
    /\ ~(k.sync /\ ~l.sync)
    /\ k.no_slowdown = l.no_slowdown
    /\ ~(~k.disable_wal /\ l.disable_wal)
    /\ k.batch
    /\ k.callback # "alone"

\* flawed: the members are counted from zero
EntersAtZero(w) ==
    /\ step[w] = "enter" /\ phase[w] = "leader"
    /\ \E n \in 1 .. Len(queue) :
         /\ \A i \in 2 .. n : MayFollow(kind[w], kind[queue[i]])
         /\ FormGroup(w, n)
         /\ parallel' = (AllowConcurrent /\ n > 1)
    /\ pos' = 0 /\ seq_inc' = 0 /\ group_status' = "OK"
    /\ Goto(w, IF leader_status = "OK" THEN "callbacks" ELSE "check")
    /\ UNCHANGED <<kind, status, callback_status, sequence, cursor, result,
                   leader_status, last_sequence, next_sequence, offset, dbVars>>

EnterAsBatchGroupLeader(w) ==
    /\ step[w] = "enter" /\ phase[w] = "leader"
    /\ \E n \in 1 .. Len(queue) :
         /\ \A i \in 2 .. n : MayFollow(kind[w], kind[queue[i]])
         /\ FormGroup(w, n)
         /\ parallel' = (AllowConcurrent /\ n > 1)
    /\ pos' = 1 /\ seq_inc' = 0 /\ group_status' = "OK"
    /\ Goto(w, IF leader_status = "OK" THEN "callbacks" ELSE "check")
    /\ UNCHANGED <<kind, status, callback_status, sequence, cursor, result,
                   leader_status, last_sequence, next_sequence, offset, dbVars>>

\* Writer::CheckCallback for the next member of the group, and the count of
\* the sequence numbers the group needs
CheckCallback(w) ==
    LET x == group[pos]
    IN  /\ step[w] = "callbacks" /\ pos <= Len(group)
        /\ \E cb \in IF kind[x].callback = "none" THEN {"OK"} ELSE {"OK", "Busy"} :
             /\ callback_status' = [callback_status EXCEPT ![x] = cb]
             /\ seq_inc' = seq_inc + SpanIf(x, cb)
             /\ parallel' = (parallel /\ ~(cb = "OK" /\ kind[x].merge
                                            /\ ~kind[x].disable_memtable))
        /\ offset' = [offset EXCEPT ![x] = seq_inc]
        /\ pos' = pos + 1
        /\ UNCHANGED <<queueVars, kind, step, status, sequence, cursor, result,
                       leader_status, group_status, last_sequence,
                       next_sequence, dbVars>>

\* flawed: refused batches are logged too
MergeAll == Members(group)

\* MergeBatch: the batches that go to the log as one record, in group order
MergeBatch == {x \in Members(group) : ~CallbackFailed(x)}

\* to_be_cached_state: the last batch that is the latest persistent state
CacheState ==
    LET states == {i \in 1 .. Len(group) : /\ group[i] \in MergeBatch
                                           /\ kind[group[i]].persistent}
    IN  \/ states = {} /\ UNCHANGED recoverable
        \/ \E i \in states :
              /\ \A j \in states : j <= i
              /\ recoverable' = IF SeqPerBatch THEN kind[group[i]].batch_cnt
                                               ELSE kind[group[i]].count

(***************************************************************************)
(* WriteToWAL, or nothing if the leader disables the log, and the range of *)
(* sequence numbers of the group.  A failed append or sync leaves a record *)
(* of unknown fate.                                                        *)
(***************************************************************************)
WriteToWAL(w) ==
    /\ step[w] = "callbacks" /\ pos > Len(group)
    /\ \/ /\ kind[w].disable_wal
          /\ leader_status' = "OK"
          /\ UNCHANGED <<wal, synced, recoverable>>
       \/ /\ ~kind[w].disable_wal
          /\ \E ok \in IF WalMayFail THEN BOOLEAN ELSE {TRUE} :
               /\ wal' = Append(wal, [seq |-> last_sequence + 1, order |-> group,
                                      batches |-> MergeBatch, ok |-> ok])
               /\ leader_status' = IF ok THEN "OK" ELSE "IOError"
               /\ synced' = IF ok /\ kind[w].sync THEN Len(wal) + 1 ELSE synced
          /\ CacheState
    /\ next_sequence' = last_sequence + 1
    /\ last_sequence' = last_sequence + seq_inc
    /\ pos' = 1
    /\ Goto(w, IF leader_status' # "OK" THEN "check"
               ELSE IF parallel THEN "assign" ELSE "insert")
    /\ UNCHANGED <<queueVars, kind, status, callback_status, sequence, cursor,
                   result, group_status, seq_inc, parallel, offset,
                   LastSequence, bg_error, restored, diverged>>

-----------------------------------------------------------------------------
(***************************************************************************)
(* MemTableInserter on the next key of x's batch.  A missing column family *)
(* is skipped or ends the batch, by the option of the call that inserts.   *)
(***************************************************************************)
\* flawed: the last key is left out
AllButOneInserted(x) == ~ToMemtable(x) \/ cursor[x] + 1 >= kind[x].count

Inserted(x) == ~ToMemtable(x) \/ cursor[x] = kind[x].count

KeyRefused(x, ignore) == kind[x].bad_cf = cursor[x] + 1 /\ ~ignore

\* flawed: the iterator stays at the last key
InsertWithoutEnd(x, ignore) ==
    /\ ~Inserted(x) /\ ~KeyRefused(x, ignore)
    /\ cursor' = [cursor EXCEPT ![x] = IF @ + 1 < kind[x].count THEN @ + 1 ELSE @]
    /\ UNCHANGED <<step, status, diverged>>

InsertKey(x, ignore) ==
    /\ ~Inserted(x) /\ ~KeyRefused(x, ignore)
    /\ cursor' = [cursor EXCEPT ![x] = @ + 1]
    /\ UNCHANGED <<step, status, diverged>>

\* flawed: a batch that is not for the memtable takes no number
SerialSpanOfMemtable(x) == IF ToMemtable(x) THEN Span(x) ELSE 0

\* The sequence numbers InsertInto(write_group) advances by: for a batch that
\* is not for the memtable, MaybeAdvanceSeq(true)
SerialSpan(x) == IF ToMemtable(x) THEN Span(x) ELSE IF SeqPerBatch THEN 1 ELSE 0

insertFrame == <<queueVars, kind, callback_status, result, leader_status,
                 group_status, last_sequence, seq_inc, parallel, offset,
                 LastSequence, wal, synced, bg_error, recoverable, restored>>

Inserting(w, x) == step[w] = "insert" /\ pos <= Len(group) /\ x = group[pos]

\* InsertInto(write_group): the leader goes over the batches of the group
SkipBatch(w) ==
    \E x \in Writers :
        /\ Inserting(w, x) /\ CallbackFailed(x)
        /\ pos' = pos + 1
        /\ UNCHANGED <<step, status, sequence, cursor, next_sequence, diverged,
                       insertFrame>>

StartBatch(w) ==
    \E x \in Writers :
        /\ Inserting(w, x) /\ ~CallbackFailed(x) /\ sequence[x] = 0
        /\ sequence' = [sequence EXCEPT ![x] = next_sequence]
        /\ UNCHANGED <<step, status, cursor, next_sequence, pos, diverged,
                       insertFrame>>

InsertSerial(w) ==
    \E x \in Writers :
        /\ Inserting(w, x) /\ sequence[x] # 0
        /\ InsertKey(x, kind[w].ignore_missing)
        /\ UNCHANGED <<sequence, next_sequence, pos, insertFrame>>

\* an error ends the loop; it is the failing writer's and the leader's status
FailSerial(w) ==
    \E x \in Writers :
        /\ Inserting(w, x) /\ sequence[x] # 0
        /\ ~Inserted(x) /\ KeyRefused(x, kind[w].ignore_missing)
        /\ status' = [status EXCEPT ![x] = "InvalidArgument",
                                    ![w] = "InvalidArgument"]
        /\ diverged' = TRUE
        /\ Goto(w, "check")
        /\ UNCHANGED <<sequence, cursor, next_sequence, pos, insertFrame>>

FinishBatch(w) ==
    \E x \in Writers :
        /\ Inserting(w, x) /\ sequence[x] # 0 /\ Inserted(x)
        /\ next_sequence' = next_sequence + SerialSpan(x)
        /\ pos' = pos + 1
        /\ UNCHANGED <<step, status, sequence, cursor, diverged, insertFrame>>

FinishSerial(w) ==
    /\ step[w] = "insert" /\ pos > Len(group)
    /\ Goto(w, "check")
    /\ UNCHANGED <<status, sequence, cursor, next_sequence, pos, diverged,
                   insertFrame>>

-----------------------------------------------------------------------------
\* flawed: a number per batch, whatever the number of its keys
AssignPerBatch(w) ==
    /\ step[w] = "assign" /\ pos <= Len(group)
    /\ sequence' = [sequence EXCEPT ![group[pos]] =
                       IF CallbackFailed(group[pos]) THEN @ ELSE next_sequence]
    /\ next_sequence' = next_sequence + 1
    /\ pos' = pos + 1
    /\ UNCHANGED <<step, status, cursor, diverged, insertFrame>>

\* flawed: numbers are set aside for refused batches too
AssignToAll(w) ==
    /\ step[w] = "assign" /\ pos <= Len(group)
    /\ LET x == group[pos]
       IN  /\ next_sequence' = next_sequence + SpanIf(x, "OK")
           /\ sequence' = [sequence EXCEPT ![x] = IF CallbackFailed(x) THEN @
                                                  ELSE next_sequence]
    /\ pos' = pos + 1
    /\ UNCHANGED <<step, status, cursor, diverged, insertFrame>>

\* the leader of a parallel group numbers the batches
AssignSequence(w) ==
    /\ step[w] = "assign" /\ pos <= Len(group)
    /\ LET x == group[pos]
       IN  IF CallbackFailed(x)
           THEN UNCHANGED <<sequence, next_sequence>>
           ELSE /\ sequence' = [sequence EXCEPT ![x] = next_sequence]
                /\ next_sequence' = next_sequence + Span(x)
    /\ pos' = pos + 1
    /\ UNCHANGED <<step, status, cursor, diverged, insertFrame>>

LaunchParallelMemTableWriters(w) ==
    /\ step[w] = "assign" /\ pos > Len(group)
    /\ LaunchParallel(w)
    /\ step' = [x \in Writers |-> IF x \in Members(group) THEN "parallel"
                                                         ELSE step[x]]
    /\ UNCHANGED <<kind, status, callback_status, sequence, cursor, result,
                   groupVars, dbVars>>

\* each member inserts its own batch, with its own options
InsertParallel(w) ==
    /\ step[w] = "parallel" /\ status[w] = "OK"
    /\ InsertKey(w, kind[w].ignore_missing)
    /\ UNCHANGED <<sequence, next_sequence, pos, insertFrame>>

FailParallel(w) ==
    /\ step[w] = "parallel" /\ status[w] = "OK"
    /\ ~Inserted(w) /\ KeyRefused(w, kind[w].ignore_missing)
    /\ status' = [status EXCEPT ![w] = "InvalidArgument"]
    /\ diverged' = TRUE
    /\ UNCHANGED <<step, sequence, cursor, next_sequence, pos, insertFrame>>

CompleteParallelMemTableWriter(w) ==
    LET failed == IF status[w] # "OK" THEN status[w] ELSE group_status
    IN  /\ step[w] = "parallel" /\ (Inserted(w) \/ status[w] # "OK")
        /\ CompleteParallel(w)
        /\ group_status' = failed
        /\ status' = IF running > 1 THEN status ELSE [status EXCEPT ![w] = failed]
        /\ Goto(w, IF running > 1 THEN "waiting" ELSE "release")
        /\ UNCHANGED <<kind, callback_status, sequence, cursor, result,
                       leader_status, last_sequence, seq_inc, parallel,
                       next_sequence, pos, offset, dbVars>>

-----------------------------------------------------------------------------
\* flawed: the error is not kept
WriteStatusIgnored(w) ==
    /\ step[w] = "check"
    /\ Goto(w, IF leader_status = "OK" THEN "release" ELSE "exit")
    /\ UNCHANGED <<queueVars, kind, status, callback_status, sequence, cursor,
                   result, groupVars, dbVars>>

\* WriteStatusCheck, unless the leader's own callback failed
WriteStatusCheck(w) ==
    /\ step[w] = "check"
    /\ bg_error' = (bg_error \/ /\ ParanoidChecks /\ ~CallbackFailed(w)
                                /\ leader_status \notin {"OK", "Busy", "Incomplete"})
    /\ Goto(w, IF leader_status = "OK" THEN "release" ELSE "exit")
    /\ UNCHANGED <<queueVars, kind, status, callback_status, sequence, cursor,
                   result, groupVars, LastSequence, wal, synced, recoverable,
                   restored, diverged>>

(***************************************************************************)
(* The writer that exits runs the pre-release callbacks of the group.  One *)
(* that fails ends the loop; the error stays in the exiting writer's local *)
(* status, which only the leader hands on.                                 *)
(***************************************************************************)
HasPreRelease(x) == ~CallbackFailed(x) /\ kind[x].pre_release

PreRelease(w) ==
    /\ step[w] = "release"
    /\ \/ UNCHANGED leader_status
       \/ /\ PreReleaseMayFail /\ \E x \in Members(group) : HasPreRelease(x)
          /\ leader_status' = IF w = group[1] THEN "PreReleaseError"
                                              ELSE leader_status
    /\ Goto(w, "publish")
    /\ UNCHANGED <<queueVars, kind, status, callback_status, sequence, cursor,
                   result, group_status, last_sequence, seq_inc, parallel,
                   next_sequence, pos, offset, LastSequence, wal, synced,
                   bg_error, recoverable, restored, diverged>>

\* flawed: a follower that closes the group does not publish it
PublishByLeader(w) ==
    /\ step[w] = "publish"
    /\ LastSequence' = IF w = group[1] THEN last_sequence ELSE LastSequence
    /\ Goto(w, "exit")
    /\ UNCHANGED <<queueVars, kind, status, callback_status, sequence, cursor,
                   result, groupVars, wal, synced, bg_error, recoverable,
                   restored, diverged>>

\* flawed: the numbers of a failed group, not yet published, are taken back
TakesBackFailed(w) ==
    /\ step[w] = "publish"
    /\ LastSequence' = IF status[w] # "OK" \/ group_status # "OK"
                       THEN LastSequence - seq_inc ELSE last_sequence
    /\ Goto(w, "exit")
    /\ UNCHANGED <<queueVars, kind, status, callback_status, sequence, cursor,
                   result, groupVars, wal, synced, bg_error, recoverable,
                   restored, diverged>>

\* SetLastSequence makes the group visible
SetLastSequence(w) ==
    /\ step[w] = "publish"
    /\ LastSequence' = last_sequence
    /\ Goto(w, "exit")
    /\ UNCHANGED <<queueVars, kind, status, callback_status, sequence, cursor,
                   result, groupVars, wal, synced, bg_error, recoverable,
                   restored, diverged>>

(***************************************************************************)
(* MemTableInsertStatusCheck, ExitAsBatchGroupLeader or -Follower, and the *)
(* status of every member.  A follower gets the group's; the leader keeps  *)
(* its own.                                                                *)
(***************************************************************************)
\* flawed: the leader's local status is not handed on
ExitStatusOfInsert(x) ==
    FinalStatus(x, IF x = group[1] THEN status[x] ELSE group_status)

ExitStatus(x) ==
    IF leader_status # "OK" THEN leader_status
    ELSE FinalStatus(x, IF x = group[1] THEN status[x] ELSE group_status)

ExitAsBatchGroupLeader(w) ==
    /\ step[w] = "exit"
    /\ ExitGroup(w)
    /\ bg_error' = (bg_error \/ status[w] # "OK")
    /\ result' = [x \in Writers |-> IF x \in Members(group) THEN ExitStatus(x)
                                                           ELSE result[x]]
    /\ step' = [x \in Writers |-> IF x \in Members(group) THEN "done"
                                                         ELSE step[x]]
    /\ UNCHANGED <<kind, status, callback_status, sequence, cursor, groupVars,
                   LastSequence, wal, synced, recoverable, restored,
                   diverged>>

\* every call has returned
Finished ==
    /\ \A w \in Writers : step[w] = "done"
    /\ UNCHANGED vars

Step(w) ==
    \/ JoinBatchGroup(w) \/ RejectCall(w) \/ UnbatchedSwitch(w)
    \/ PreprocessWrite(w) \/ EnterAsBatchGroupLeader(w)
    \/ CheckCallback(w) \/ WriteToWAL(w)
    \/ SkipBatch(w) \/ StartBatch(w) \/ InsertSerial(w) \/ FailSerial(w)
    \/ FinishBatch(w) \/ FinishSerial(w)
    \/ AssignSequence(w) \/ LaunchParallelMemTableWriters(w)
    \/ InsertParallel(w) \/ FailParallel(w) \/ CompleteParallelMemTableWriter(w)
    \/ WriteStatusCheck(w) \/ PreRelease(w) \/ SetLastSequence(w)
    \/ ExitAsBatchGroupLeader(w)

Next == (\E w \in Writers : Step(w)) \/ BackgroundError \/ Finished

Spec == Init /\ [][Next]_vars

\* every call that can take a step is eventually scheduled
FairSpec == Spec /\ \A w \in Writers : WF_vars(Step(w))

-----------------------------------------------------------------------------
(***************************************************************************)
(* One type invariant for the variables of this module.                    *)
(***************************************************************************)
Steps == {"start", "joined", "unbatched", "enter", "callbacks", "insert",
          "assign", "parallel", "waiting", "check", "release", "publish",
          "exit", "done"}

WalRecord == [seq : Nat, order : Seq(Writers), batches : SUBSET Writers,
              ok : BOOLEAN]

CallTypes ==
    /\ kind \in [Writers -> Kinds]
    /\ step \in [Writers -> Steps]
    /\ status \in [Writers -> Statuses]
    /\ callback_status \in [Writers -> {"OK", "Busy"}]
    /\ sequence \in [Writers -> Nat]
    /\ cursor \in [Writers -> Nat]
    /\ result \in [Writers -> Statuses \cup {"none"}]

GroupTypes ==
    /\ leader_status \in Statuses
    /\ group_status \in Statuses
    /\ last_sequence \in Nat
    /\ seq_inc \in Nat
    /\ parallel \in BOOLEAN
    /\ next_sequence \in Nat
    /\ pos \in Nat \ {0}
    /\ offset \in [Writers -> Nat]

DbTypes ==
    /\ LastSequence \in Nat
    /\ wal \in Seq(WalRecord)
    /\ synced \in Nat
    /\ bg_error \in BOOLEAN
    /\ recoverable \in Nat
    /\ restored \subseteq Nat
    /\ diverged \in BOOLEAN

TypeOK == QueueTypeOK /\ CallTypes /\ GroupTypes /\ DbTypes

(***************************************************************************)
(* A batch is visible whole or not at all: once LastSequence, the number   *)
(* every read takes as its snapshot, reaches the first sequence number of  *)
(* a batch, it has passed the last one and every key has been inserted,    *)
(* by the leader or by the parallel writer itself.  An insert that failed  *)
(* voids the promise (MemTableInsertStatusCheck).                          *)
(***************************************************************************)
NoHalfBatchVisible ==
    \A w \in Writers :
        /\ ~diverged /\ ToMemtable(w)
        /\ sequence[w] # 0 /\ sequence[w] <= LastSequence
        => /\ cursor[w] = kind[w].count
           /\ sequence[w] + Span(w) <= LastSequence + 1

(***************************************************************************)
(* No two writes share a sequence number, nor does a write share one with  *)
(* the state WriteRecoverableState restores: the internal keys of a        *)
(* memtable are ordered by it.                                             *)
(***************************************************************************)
Taken(w) == IF sequence[w] = 0 THEN {} ELSE sequence[w] .. sequence[w] + Span(w) - 1

SequencesAreUnique ==
    /\ \A v, w \in Writers : v # w => Taken(v) \cap Taken(w) = {}
    /\ \A w \in Writers : Taken(w) \cap restored = {}

(***************************************************************************)
(* The numbers replay will give: recovery numbers the batches of a log     *)
(* record from the record's own sequence, and must arrive at the numbers   *)
(* the serial and the parallel insertion used (db_impl_write.cc:315,       *)
(* "must be consistent").                                                  *)
(***************************************************************************)
ReplayAgrees ==
    \A r \in Members(wal) : \A j \in 1 .. Len(r.order) :
        LET w == r.order[j]
            earlier == {i \in 1 .. j - 1 : r.order[i] \in r.batches}
        IN  w \in r.batches /\ sequence[w] # 0 =>
                \/ earlier = {} /\ sequence[w] = r.seq
                \/ \E i \in earlier :
                      /\ \A k \in earlier : k <= i
                      /\ sequence[w] = sequence[r.order[i]] + Span(r.order[i])

(***************************************************************************)
(* What OK means to the caller of Write: the batch is in the log unless    *)
(* the call disabled it, on disk if the call asked for sync, and readers   *)
(* that start now see all of it.                                           *)
(***************************************************************************)
Durable(w) ==
    \E i \in 1 .. Len(wal) :
        /\ wal[i].ok /\ w \in wal[i].batches
        /\ kind[w].sync => i <= synced

AcknowledgedIsDurable ==
    \A w \in Writers :
        result[w] = "OK" /\ kind[w].batch /\ ~kind[w].disable_wal => Durable(w)

AcknowledgedIsVisible ==
    \A w \in Writers :
        /\ result[w] = "OK" /\ kind[w].batch /\ ~kind[w].disable_memtable
        /\ ~diverged
        => /\ cursor[w] = kind[w].count
           /\ sequence[w] # 0 /\ sequence[w] + Span(w) <= LastSequence + 1

(***************************************************************************)
(* A write its callback refuses (an optimistic transaction whose           *)
(* validation failed) leaves no trace and learns of it, although the rest  *)
(* of its group goes on.                                                   *)
(***************************************************************************)
RefusedLeavesNoTrace ==
    \A w \in Writers : CallbackFailed(w) =>
        /\ sequence[w] = 0 /\ cursor[w] = 0
        /\ \A r \in Members(wal) : w \notin r.batches
        /\ result[w] # "OK"

(***************************************************************************)
(* With paranoid_checks a failed append ends writing (db_impl_write.cc:673 *)
(* "stop compaction and fail any further writes"): nothing follows a       *)
(* record of unknown fate in the log, unless the leader that wrote it was  *)
(* refused by its own callback, for then WriteStatusCheck is skipped.      *)
(***************************************************************************)
NothingAfterFailedAppend ==
    ParanoidChecks =>
        \A i \in 1 .. Len(wal) :
            i < Len(wal) => wal[i].ok \/ CallbackFailed(wal[i].order[1])

(***************************************************************************)
(* VersionSet::SetLastSequence, "assert(s >= last_sequence_)": the         *)
(* visible sequence never goes back, so a snapshot never loses data.       *)
(***************************************************************************)
LastSequenceNeverDecreases == [][LastSequence' >= LastSequence]_LastSequence

(***************************************************************************)
(* Every call returns, whatever fails.                                     *)
(***************************************************************************)
EveryWriteReturns == <>(\A w \in Writers : result[w] # "none")

=============================================================================
