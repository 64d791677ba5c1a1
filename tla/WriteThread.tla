---------------------------- MODULE WriteThread ----------------------------
(***************************************************************************)
(* Class WriteThread (db/write_thread.{h,cc}): the lock-free list of       *)
(* writers behind newest_writer_, the list of pending memtable writers of  *)
(* a pipelined DB behind newest_memtable_writer_, and the protocol by      *)
(* which the calling threads wake each other.  The threads run the queue   *)
(* part of DBImpl::WriteImpl, PipelinedWriteImpl and EnterUnbatched.       *)
(*                                                                         *)
(* A Writer lives on its thread's stack.  Writers are addresses: thread t  *)
(* constructs the Writers of its calls at the addresses 1, 2 and so on, or *)
(* all at the same one when ReuseFrames holds.  Frame 0 holds the Writer   *)
(* local to WaitForMemTableWriters.                                        *)
(***************************************************************************)
EXTENDS Naturals, Sequences, FiniteSets, SequencesExt

CONSTANTS
    Threads,
    NumFrames,        \* addresses a thread has for the Writers of its calls
    Configs,          \* the configurations a DB may be opened with
    SmallBatch,       \* 128 << 10
    MaxGroupSize,     \* 1 << 20
    NULL

ASSUME BoundsAreNat == NumFrames \in Nat \ {0} /\ SmallBatch \in Nat
                                               /\ MaxGroupSize \in Nat

ASSUME ConfigsTyped ==
    \A c \in Configs :
        {c.reuse, c.pipelined, c.concurrent, c.faults} \subseteq BOOLEAN

VARIABLES
    config,     \* never changes
    newest_writer,
    newest_memtable_writer,
    writer,     \* the Writer at each address
    wgroup,     \* each thread's wal_write_group and memtable_write_group
    pc,         \* where each thread is
    frame,      \* the frame of each thread's current call
    cur,        \* the Writer* a thread's loop has reached
    active      \* the WriteGroup a thread is launching or exiting

vars == <<config, newest_writer, newest_memtable_writer, writer, wgroup, pc, frame,
          cur, active>>

\* enable_pipelined_write_ and allow_concurrent_memtable_write_, the writes a
\* thread may issue, whether a later call may use an earlier call's address,
\* and whether WAL writes and memtable inserts may fail
Pipelined == config.pipelined
AllowConcurrent == config.concurrent
Kinds == config.kinds
ReuseFrames == config.reuse
Faults == config.faults

Writers == Threads \X (0 .. NumFrames)

GroupIds == {"wal", "mem"} \X Threads

me(t) == <<t, frame[t]>>

Dummy(t) == <<t, 0>>

NullBatch == [batch |-> FALSE, sync |-> FALSE, no_slowdown |-> FALSE,
              disable_wal |-> FALSE, disable_memtable |-> FALSE,
              merge |-> FALSE, callback |-> "none", size |-> 0]

\* asleep: the thread is in StateCV().wait
NewWriter(k) == [kind |-> k, state |-> "INIT", link_older |-> NULL,
                 link_newer |-> NULL, write_group |-> NULL, status |-> "ok",
                 callback_failed |-> FALSE, asleep |-> FALSE]

\* original_last is ExitAsBatchGroupLeader's local last_writer, exit_status
\* its argument, and parallel the caller's in_parallel_group
NewGroup == [leader |-> NULL, last_writer |-> NULL, size |-> 0, running |-> 0,
             status |-> "ok", exit_status |-> "ok", original_last |-> NULL,
             parallel |-> FALSE]

Init ==
    /\ config \in Configs
    /\ newest_writer = NULL
    /\ newest_memtable_writer = NULL
    /\ writer = [w \in Writers |-> NewWriter(NullBatch)]
    /\ wgroup = [g \in GroupIds |-> NewGroup]
    /\ pc = [t \in Threads |-> "idle"]
    /\ frame = [t \in Threads |-> IF ReuseFrames THEN 1 ELSE 0]
    /\ cur = [t \in Threads |-> NULL]
    /\ active = [t \in Threads |-> NULL]

Statuses == IF Faults THEN {"ok", "error"} ELSE {"ok"}

Goto(t, l) == pc' = [pc EXCEPT ![t] = l]

ShouldWriteToMemtable(w) ==
    w.status = "ok" /\ ~w.callback_failed /\ ~w.kind.disable_memtable

-----------------------------------------------------------------------------
(***************************************************************************)
(* The list.  A push is one step, its successful compare_exchange.         *)
(***************************************************************************)

\* the writers from w to the oldest one, newest first
RECURSIVE OlderPath(_)
OlderPath(w) == IF w = NULL THEN <<>> ELSE <<w>> \o OlderPath(writer[w].link_older)

\* flawed: only the newest link is created
CreateNewestLink(ws, head) ==
    IF ws[head].link_older = NULL THEN ws
    ELSE [ws EXCEPT ![ws[head].link_older].link_newer = head]

\* CreateMissingNewerLinks(head): the Writers with every link_newer filled in
RECURSIVE CreateMissingNewerLinks(_, _)
CreateMissingNewerLinks(ws, head) ==
    LET next == ws[head].link_older
    IN  IF next = NULL \/ ws[next].link_newer # NULL THEN ws
        ELSE CreateMissingNewerLinks([ws EXCEPT ![next].link_newer = head], next)

\* flawed: the state is stored without a look at LOCKED_WAITING
StoreState(ws, w, new_state) == [ws EXCEPT ![w].state = new_state]

\* SetState: the compare_exchange, or for a writer in LOCKED_WAITING the store
\* and notify_one under its StateMutex
SetState(ws, w, new_state) ==
    [ws EXCEPT ![w].state = new_state,
               ![w].asleep = @ /\ ws[w].state # "LOCKED_WAITING"]

\* flawed: the new leader stays linked to the group that leaves
WakeLinked(ws, last, state) == SetState(ws, ws[last].link_newer, state)

\* hand the leadership of a list on to the writer linked after last
WakeNext(ws, last, state) ==
    LET next == ws[last].link_newer
    IN  SetState([ws EXCEPT ![next].link_older = NULL], next, state)

-----------------------------------------------------------------------------
\* where a leader with a write of kind k goes; a pipelined one may first wait
\* for the memtable writers
Leading(k) == IF Pipelined THEN "lead" ELSE IF k.batch THEN "enter" ELSE "unbatched"

\* flawed: everybody leads
AlwaysAsLeader(head) == TRUE

\* LinkOne: whether a writer pushed onto the list head is its leader
LinkedAsLeader(head) == head = NULL

(***************************************************************************)
(* JoinBatchGroup and EnterUnbatched up to their AwaitState.               *)
(***************************************************************************)
Join(t) ==
    /\ pc[t] = "idle"
    /\ ReuseFrames \/ frame[t] < NumFrames
    /\ \E k \in Kinds :
         LET f == IF ReuseFrames THEN frame[t] ELSE frame[t] + 1
             w == <<t, f>>
             linked_as_leader == LinkedAsLeader(newest_writer)
         IN  /\ frame' = [frame EXCEPT ![t] = f]
             /\ newest_writer' = w
             /\ writer' = [writer EXCEPT ![w] =
                    [NewWriter(k) EXCEPT
                        !.link_older = newest_writer,
                        !.state = IF linked_as_leader /\ k.batch
                                  THEN "GROUP_LEADER" ELSE "INIT"]]
             /\ Goto(t, IF linked_as_leader THEN Leading(k) ELSE "await")
    /\ UNCHANGED <<config, newest_memtable_writer, wgroup, cur, active>>

\* the Writer a waiting thread waits on, and its goal_mask
Awaiting == {"await", "awaitMem", "awaitDone", "awaitDrain"}

Awaited(t) == IF pc[t] = "awaitDrain" THEN Dummy(t) ELSE me(t)

Goals(t) ==
    CASE pc[t] = "await" /\ writer[me(t)].kind.batch ->
             {"GROUP_LEADER", "MEMTABLE_WRITER_LEADER",
              "PARALLEL_MEMTABLE_WRITER", "COMPLETED"}
      [] pc[t] = "await" /\ ~writer[me(t)].kind.batch -> {"GROUP_LEADER"}
      [] pc[t] = "awaitMem" -> {"MEMTABLE_WRITER_LEADER",
                                "PARALLEL_MEMTABLE_WRITER", "COMPLETED"}
      [] pc[t] = "awaitDone" -> {"COMPLETED"}
      [] pc[t] = "awaitDrain" -> {"MEMTABLE_WRITER_LEADER"}

\* BlockingAwaitState: create the mutex, exchange the state for LOCKED_WAITING
Block(t) ==
    /\ pc[t] \in Awaiting
    /\ writer[Awaited(t)].state \notin Goals(t) \cup {"LOCKED_WAITING"}
    /\ writer' = [writer EXCEPT ![Awaited(t)].state = "LOCKED_WAITING"]
    /\ UNCHANGED <<config, newest_writer, newest_memtable_writer, wgroup, pc, frame,
                   cur, active>>

\* ... then, under StateMutex, wait if it still is LOCKED_WAITING
Sleep(t) ==
    /\ pc[t] \in Awaiting
    /\ writer[Awaited(t)].state = "LOCKED_WAITING"
    /\ ~writer[Awaited(t)].asleep
    /\ writer' = [writer EXCEPT ![Awaited(t)].asleep = TRUE]
    /\ UNCHANGED <<config, newest_writer, newest_memtable_writer, wgroup, pc, frame,
                   cur, active>>

\* the call returns, leaving Writers ws; its frame, with everything in it, is gone
Leave(t, ws) ==
    /\ Goto(t, "idle")
    /\ writer' = [w \in Writers |-> IF w[1] = t THEN NewWriter(NullBatch) ELSE ws[w]]
    /\ wgroup' = [g \in GroupIds |-> IF g[2] = t THEN NewGroup ELSE wgroup[g]]
    /\ cur' = [cur EXCEPT ![t] = NULL]
    /\ active' = [active EXCEPT ![t] = NULL]
    /\ UNCHANGED frame

\* AwaitState returns, and the caller acts on the state it finds
Wake(t) ==
    /\ pc[t] \in Awaiting
    /\ writer[Awaited(t)].state \in Goals(t) /\ ~writer[Awaited(t)].asleep
    /\ Awaited(t) = Dummy(t) \/ writer[me(t)].state # "COMPLETED"
    /\ Goto(t, IF pc[t] = "awaitDrain" THEN "drainStore"
               ELSE CASE writer[me(t)].state = "GROUP_LEADER" -> Leading(writer[me(t)].kind)
                      [] writer[me(t)].state = "MEMTABLE_WRITER_LEADER" -> "memLead"
                      [] writer[me(t)].state = "PARALLEL_MEMTABLE_WRITER" -> "insert")
    /\ UNCHANGED <<config, newest_writer, newest_memtable_writer, writer, wgroup, frame,
                   cur, active>>

\* "write is complete and leader has updated sequence" (db_impl_write.cc:171)
WakeCompleted(t) ==
    /\ pc[t] \in Awaiting \ {"awaitDrain"}
    /\ "COMPLETED" \in Goals(t)
    /\ writer[me(t)].state = "COMPLETED" /\ ~writer[me(t)].asleep
    /\ Leave(t, writer)
    /\ UNCHANGED <<config, newest_writer, newest_memtable_writer>>

-----------------------------------------------------------------------------
(***************************************************************************)
(* The leader.  A pipelined leader may first have to wait until the        *)
(* memtable writers are gone: for an unbatched writer, a callback that     *)
(* refuses batching, or a SwitchMemtable inside PreprocessWrite.           *)
(***************************************************************************)
Lead(t) ==
    /\ pc[t] = "lead"
    /\ \/ Goto(t, "drain")
       \/ /\ writer[me(t)].kind.batch
          /\ writer[me(t)].kind.callback # "alone"
          /\ Goto(t, "enter")
    /\ UNCHANGED <<config, newest_writer, newest_memtable_writer, writer, wgroup, frame,
                   cur, active>>

Drained(t) == IF writer[me(t)].kind.batch THEN "enter" ELSE "unbatched"

\* WaitForMemTableWriters: the test, the push, the wait, the store
Drain(t) ==
    /\ pc[t] = "drain"
    /\ Goto(t, IF newest_memtable_writer = NULL THEN Drained(t)
                                                ELSE "drainLink")
    /\ UNCHANGED <<config, newest_writer, newest_memtable_writer, writer, wgroup, frame,
                   cur, active>>

DrainLink(t) ==
    /\ pc[t] = "drainLink"
    /\ newest_memtable_writer' = Dummy(t)
    /\ writer' = [writer EXCEPT ![Dummy(t)] =
                    [NewWriter(NullBatch) EXCEPT
                        !.link_older = newest_memtable_writer]]
    /\ Goto(t, IF newest_memtable_writer = NULL THEN "drainStore"
                                                ELSE "awaitDrain")
    /\ UNCHANGED <<config, newest_writer, wgroup, frame, cur, active>>

DrainStore(t) ==
    /\ pc[t] = "drainStore"
    /\ newest_memtable_writer' = NULL
    /\ Goto(t, Drained(t))
    /\ UNCHANGED <<config, newest_writer, writer, wgroup, frame, cur, active>>

\* max_size of EnterAsBatchGroupLeader and EnterAsMemTableWriter
SizeLimit(size) == IF size <= SmallBatch THEN size + SmallBatch ELSE MaxGroupSize

\* whether EnterAsBatchGroupLeader adds a writer of kind k to the group of a
\* leader of kind l that has reached size bytes
JoinsBatch(l, k, size) ==
    /\ ~(k.sync /\ ~l.sync)
    /\ k.no_slowdown = l.no_slowdown
    /\ ~(~k.disable_wal /\ l.disable_wal)
    /\ k.batch
    /\ k.callback # "alone"
    /\ size + k.size <= SizeLimit(l.size)

\* the same for EnterAsMemTableWriter
JoinsMemTable(l, k, size) ==
    /\ k.batch
    /\ ~k.merge
    /\ AllowConcurrent \/ size + k.size <= SizeLimit(l.size)

\* the one of the list "wal", newest_writer_, or "mem", newest_memtable_writer_
Joins(list, l, k, size) ==
    IF list = "wal" THEN JoinsBatch(l, k, size) ELSE JoinsMemTable(l, k, size)

\* how many writers of path, oldest first, make up the group of its first
RECURSIVE GroupSize(_, _, _, _)
GroupSize(path, list, n, size) ==
    IF n < Len(path) /\ Joins(list, writer[path[1]].kind, writer[path[n + 1]].kind, size)
    THEN GroupSize(path, list, n + 1, size + writer[path[n + 1]].kind.size)
    ELSE n

\* the Writers ws once those of path belong to group g
InGroup(ws, path, g) ==
    [w \in Writers |-> IF w \in ToSet(path) THEN [ws[w] EXCEPT !.write_group = g]
                                            ELSE ws[w]]

EnterAsBatchGroupLeader(t) ==
    LET path == Reverse(OlderPath(newest_writer))
        n == GroupSize(path, "wal", 1, writer[me(t)].kind.size)
    IN  /\ pc[t] = "enter"
        /\ writer' = InGroup(CreateMissingNewerLinks(writer, newest_writer),
                             SubSeq(path, 1, n), <<"wal", t>>)
        /\ wgroup' = [wgroup EXCEPT ![<<"wal", t>>] =
                         [NewGroup EXCEPT !.leader = me(t),
                                          !.last_writer = path[n], !.size = n]]
        /\ active' = [active EXCEPT ![t] = <<"wal", t>>]
        /\ Goto(t, "work")
        /\ UNCHANGED <<config, newest_writer, newest_memtable_writer, frame, cur>>

\* WriteGroup::running of a group that has been launched or not
Running(size, parallel) == IF parallel THEN size ELSE 0

\* the writers of a group, oldest first
GroupWriters(g) ==
    LET path == Reverse(OlderPath(wgroup[g].last_writer))
    IN  SubSeq(path, Len(path) - wgroup[g].size + 1, Len(path))

(***************************************************************************)
(* What the leader does for its group between entering and exiting: the    *)
(* callbacks, the WAL, and for a serial group the memtables.  A pipelined  *)
(* leader goes on to ExitAsBatchGroupLeader; otherwise a group without     *)
(* merges is launched as parallel memtable writers.                        *)
(***************************************************************************)
Work(t) ==
    LET g == <<"wal", t>>
        members == ToSet(GroupWriters(g))
    IN  /\ pc[t] = "work"
        /\ \E s \in Statuses,
              failed \in SUBSET {w \in members : writer[w].kind.callback # "none"} :
             LET merges == \E w \in members \ failed :
                              /\ writer[w].kind.merge
                              /\ ~writer[w].kind.disable_memtable
                 parallel == /\ ~Pipelined
                             /\ s = "ok"
                             /\ AllowConcurrent
                             /\ wgroup[g].size > 1
                             /\ ~merges
             IN  /\ writer' = [w \in Writers |->
                        IF w \in failed
                        THEN [writer[w] EXCEPT !.callback_failed = TRUE]
                        ELSE IF w = me(t) /\ Pipelined
                        THEN [writer[w] EXCEPT !.status = s]
                        ELSE writer[w]]
                 /\ wgroup' = [wgroup EXCEPT
                        ![g].exit_status = s,
                        ![g].original_last = wgroup[g].last_writer,
                        ![g].parallel = parallel,
                        ![g].running = Running(wgroup[g].size, parallel)]
                 /\ cur' = [cur EXCEPT ![t] = IF parallel THEN me(t)
                                              ELSE wgroup[g].last_writer]
                 /\ Goto(t, IF parallel THEN "launch"
                            ELSE IF Pipelined THEN "pipelinedExit"
                            ELSE "handoff")
        /\ UNCHANGED <<config, newest_writer, newest_memtable_writer, frame, active>>

(***************************************************************************)
(* LaunchParallelMemTableWriters wakes the members one by one, oldest      *)
(* first; each inserts its own batch and reports.                          *)
(***************************************************************************)
LaunchParallelMemTableWriters(t) ==
    /\ pc[t] = "launch"
    /\ writer' = SetState(writer, cur[t], "PARALLEL_MEMTABLE_WRITER")
    /\ IF cur[t] = wgroup[active[t]].last_writer
       THEN /\ cur' = [cur EXCEPT ![t] = NULL]
            /\ active' = [active EXCEPT ![t] = NULL]
            /\ Goto(t, "insert")
       ELSE /\ cur' = [cur EXCEPT ![t] = writer[cur[t]].link_newer]
            /\ UNCHANGED <<active, pc>>
    /\ UNCHANGED <<config, newest_writer, newest_memtable_writer, wgroup, frame>>

Insert(t) ==
    /\ pc[t] = "insert"
    /\ \E s \in Statuses :
         writer' = [writer EXCEPT ![me(t)].status =
                       IF ShouldWriteToMemtable(writer[me(t)]) THEN s ELSE @]
    /\ Goto(t, "complete")
    /\ UNCHANGED <<config, newest_writer, newest_memtable_writer, wgroup, frame, cur,
                   active>>

CompleteParallelMemTableWriter(t) ==
    LET g == writer[me(t)].write_group
        status == IF writer[me(t)].status = "ok" THEN wgroup[g].status
                                                 ELSE writer[me(t)].status
    IN  /\ pc[t] = "complete"
        /\ wgroup' = [wgroup EXCEPT ![g].status = status, ![g].running = @ - 1]
        /\ IF wgroup[g].running > 1
           THEN Goto(t, "awaitDone") /\ UNCHANGED <<writer, active>>
           ELSE /\ Goto(t, IF Pipelined THEN "memExit" ELSE "handoff")
                /\ active' = [active EXCEPT ![t] = g]
                /\ writer' = [writer EXCEPT ![me(t)].status = status]
        /\ UNCHANGED <<config, newest_writer, newest_memtable_writer, frame, cur>>

-----------------------------------------------------------------------------
\* flawed: the leader, who owns the group, is completed first
HandoffLeaderFirst(t) ==
    LET g == wgroup[active[t]]
        linked == CreateMissingNewerLinks(writer, newest_writer)
        ws == IF newest_writer = g.last_writer THEN writer
              ELSE WakeNext(linked, g.last_writer, "GROUP_LEADER")
    IN  /\ pc[t] = "handoff"
        /\ newest_writer' = IF newest_writer = g.last_writer THEN NULL ELSE newest_writer
        /\ writer' = IF g.leader = me(t) THEN ws
                     ELSE SetState(ws, g.leader, "COMPLETED")
        /\ cur' = [cur EXCEPT ![t] = g.last_writer]
        /\ Goto(t, "finish")
        /\ UNCHANGED <<config, newest_memtable_writer, wgroup, frame, active>>

(***************************************************************************)
(* ExitAsBatchGroupLeader without pipelining, called by the leader or, in  *)
(* ExitAsBatchGroupFollower, by the last parallel writer: hand the list    *)
(* over, complete the followers newest first, and the leader last.         *)
(***************************************************************************)
Handoff(t) ==
    LET last == wgroup[active[t]].last_writer
        linked == CreateMissingNewerLinks(writer, newest_writer)
    IN  /\ pc[t] = "handoff"
        /\ IF newest_writer = last
           THEN newest_writer' = NULL /\ UNCHANGED writer
           ELSE /\ writer' = WakeNext(linked, last, "GROUP_LEADER")
                /\ UNCHANGED newest_writer
        /\ cur' = [cur EXCEPT ![t] = last]
        /\ Goto(t, "finish")
        /\ UNCHANGED <<config, newest_memtable_writer, wgroup, frame, active>>

\* the status handed to the followers
ExitStatus(g) == IF wgroup[g].exit_status = "ok" THEN wgroup[g].status
                                                 ELSE wgroup[g].exit_status

Finish(t) ==
    LET g == active[t]
    IN  /\ pc[t] = "finish"
        /\ cur[t] # wgroup[g].leader
        /\ writer' = SetState([writer EXCEPT ![cur[t]].status = ExitStatus(g)],
                              cur[t], "COMPLETED")
        /\ cur' = [cur EXCEPT ![t] = writer[cur[t]].link_older]
        /\ UNCHANGED <<config, newest_writer, newest_memtable_writer, wgroup, pc, frame,
                       active>>

\* the leader returns; a follower that closed the group completes the leader
Finished(t) ==
    LET leader == wgroup[active[t]].leader
    IN  /\ pc[t] = "finish"
        /\ cur[t] = leader
        /\ Leave(t, IF leader = me(t) THEN writer
                    ELSE SetState(writer, leader, "COMPLETED"))
        /\ UNCHANGED <<config, newest_writer, newest_memtable_writer>>

ExitUnbatched(t) ==
    LET linked == CreateMissingNewerLinks(writer, newest_writer)
    IN  /\ pc[t] = "unbatched"
        /\ IF newest_writer = me(t)
           THEN newest_writer' = NULL /\ UNCHANGED writer
           ELSE /\ writer' = WakeNext(linked, me(t), "GROUP_LEADER")
                /\ UNCHANGED newest_writer
        /\ Goto(t, "leave")
        /\ UNCHANGED <<config, newest_memtable_writer, wgroup, frame, cur, active>>

LeaveUnbatched(t) ==
    /\ pc[t] = "leave"
    /\ Leave(t, writer)
    /\ UNCHANGED <<config, newest_writer, newest_memtable_writer>>

-----------------------------------------------------------------------------
(***************************************************************************)
(* ExitAsBatchGroupLeader with pipelining.  First the followers, newest    *)
(* first: those with nothing to write to the memtable leave the group.     *)
(***************************************************************************)

\* CompleteFollower: unlink w from its neighbours in the group
Unlinked(ws, w, g) ==
    LET older == ws[w].link_older
        newer == ws[w].link_newer
    IN  IF w = wgroup[g].last_writer
        THEN SetState([ws EXCEPT ![older].link_newer = NULL], w, "COMPLETED")
        ELSE SetState([ws EXCEPT ![older].link_newer = newer,
                                 ![newer].link_older = older], w, "COMPLETED")

NotifyFollower(t) ==
    LET g == <<"wal", t>>
        w == cur[t]
        told == [writer EXCEPT ![w].status = ExitStatus(g)]
    IN  /\ pc[t] = "pipelinedExit"
        /\ w # me(t)
        /\ IF ShouldWriteToMemtable(told[w])
           THEN writer' = told /\ UNCHANGED wgroup
           ELSE /\ writer' = Unlinked(told, w, g)
                /\ wgroup' = [wgroup EXCEPT
                      ![g].size = @ - 1,
                      ![g].last_writer = IF @ = w THEN writer[w].link_older
                                                  ELSE @]
        /\ cur' = [cur EXCEPT ![t] = writer[w].link_older]
        /\ UNCHANGED <<config, newest_writer, newest_memtable_writer, pc, frame, active>>

\* then the leader itself (CompleteLeader)
NotifyLeader(t) ==
    LET g == <<"wal", t>>
        newer == writer[me(t)].link_newer
    IN  /\ pc[t] = "pipelinedExit"
        /\ cur[t] = me(t)
        /\ IF ShouldWriteToMemtable(writer[me(t)])
           THEN Goto(t, "linkGroup") /\ UNCHANGED <<writer, wgroup>>
           ELSE IF wgroup[g].size = 1
           THEN /\ wgroup' = [wgroup EXCEPT ![g].size = 0, ![g].leader = NULL,
                                            ![g].last_writer = NULL]
                /\ writer' = SetState(writer, me(t), "COMPLETED")
                /\ Goto(t, "pipelinedHandoff")
           ELSE /\ wgroup' = [wgroup EXCEPT ![g].size = @ - 1,
                                            ![g].leader = newer]
                /\ writer' = SetState([writer EXCEPT ![newer].link_older = NULL],
                                      me(t), "COMPLETED")
                /\ Goto(t, "linkGroup")
        /\ UNCHANGED <<config, newest_writer, newest_memtable_writer, frame, cur, active>>

\* LinkGroup pushes what is left of the group onto the memtable writers
LinkGroup(t) ==
    LET g == <<"wal", t>>
        members == ToSet(GroupWriters(g))
    IN  /\ pc[t] = "linkGroup"
        /\ writer' = [w \in Writers |->
              IF w \notin members THEN writer[w]
              ELSE [writer[w] EXCEPT
                       !.link_newer = NULL,
                       !.write_group = NULL,
                       !.link_older = IF w = wgroup[g].leader
                                      THEN newest_memtable_writer ELSE @]]
        /\ newest_memtable_writer' = wgroup[g].last_writer
        /\ Goto(t, IF newest_memtable_writer = NULL THEN "wakeMemLeader"
                                                    ELSE "pipelinedHandoff")
        /\ UNCHANGED <<config, newest_writer, wgroup, frame, cur, active>>

WakeMemLeader(t) ==
    /\ pc[t] = "wakeMemLeader"
    /\ writer' = SetState(writer, wgroup[<<"wal", t>>].leader, "MEMTABLE_WRITER_LEADER")
    /\ Goto(t, "pipelinedHandoff")
    /\ UNCHANGED <<config, newest_writer, newest_memtable_writer, wgroup, frame, cur,
                   active>>

\* the writer that linked itself after last, searched for from the newest one
RECURSIVE LinkedAfter(_, _)
LinkedAfter(w, last) == IF writer[w].link_older = last THEN w
                        ELSE LinkedAfter(writer[w].link_older, last)

\* flawed: the list is cleared without a look at who has joined
PipelinedClear(t) ==
    /\ pc[t] = "pipelinedHandoff"
    /\ newest_writer' = NULL
    /\ Goto(t, "awaitMem")
    /\ UNCHANGED <<config, newest_memtable_writer, writer, wgroup, frame, cur, active>>

PipelinedHandoff(t) ==
    LET last == wgroup[<<"wal", t>>].original_last
        next == LinkedAfter(newest_writer, last)
    IN  /\ pc[t] = "pipelinedHandoff"
        /\ IF newest_writer = last
           THEN newest_writer' = NULL /\ UNCHANGED writer
           ELSE /\ writer' = SetState([writer EXCEPT ![next].link_older = NULL],
                                      next, "GROUP_LEADER")
                /\ UNCHANGED newest_writer
        /\ Goto(t, "awaitMem")
        /\ UNCHANGED <<config, newest_memtable_writer, wgroup, frame, cur, active>>

-----------------------------------------------------------------------------
(***************************************************************************)
(* The memtable writers of a pipelined DB.  A merge leads alone when       *)
(* concurrent memtable writes are allowed.                                 *)
(***************************************************************************)
EnterAsMemTableWriter(t) ==
    LET g == <<"mem", t>>
        alone == AllowConcurrent /\ writer[me(t)].kind.merge
        path == Reverse(OlderPath(newest_memtable_writer))
        n == IF alone THEN 1
             ELSE GroupSize(path, "mem", 1, writer[me(t)].kind.size)
        parallel == n > 1 /\ AllowConcurrent
    IN  /\ pc[t] = "memLead"
        /\ writer' = InGroup(
              IF alone THEN writer
              ELSE CreateMissingNewerLinks(writer, newest_memtable_writer),
              SubSeq(path, 1, n), g)
        /\ \E s \in IF parallel THEN {"ok"} ELSE Statuses :
             wgroup' = [wgroup EXCEPT ![g] =
                 [NewGroup EXCEPT !.leader = me(t), !.last_writer = path[n],
                                  !.size = n, !.status = s,
                                  !.parallel = parallel,
                                  !.running = Running(n, parallel)]]
        /\ active' = [active EXCEPT ![t] = g]
        /\ cur' = [cur EXCEPT ![t] = me(t)]
        /\ Goto(t, IF parallel THEN "launch" ELSE "memExit")
        /\ UNCHANGED <<config, newest_writer, newest_memtable_writer, frame>>

\* ExitAsMemTableWriter: hand the list over, complete the members oldest
\* first, and the leader, who owns the group, last
MemHandoff(t) ==
    LET g == active[t]
        last == wgroup[g].last_writer
        linked == CreateMissingNewerLinks(writer, newest_memtable_writer)
    IN  /\ pc[t] = "memExit"
        /\ IF newest_memtable_writer = last
           THEN newest_memtable_writer' = NULL /\ UNCHANGED writer
           ELSE /\ writer' = WakeNext(linked, last, "MEMTABLE_WRITER_LEADER")
                /\ UNCHANGED newest_memtable_writer
        /\ cur' = [cur EXCEPT ![t] = wgroup[g].leader]
        /\ Goto(t, "memFinish")
        /\ UNCHANGED <<config, newest_writer, wgroup, frame, active>>

MemFinish(t) ==
    LET g == active[t]
        w == cur[t]
        told == [writer EXCEPT ![w].status = IF wgroup[g].status = "ok" THEN @
                                             ELSE wgroup[g].status]
    IN  /\ pc[t] = "memFinish"
        /\ writer' = IF w = wgroup[g].leader THEN told ELSE SetState(told, w, "COMPLETED")
        /\ IF w = wgroup[g].last_writer
           THEN Goto(t, "memWakeLeader") /\ UNCHANGED cur
           ELSE /\ cur' = [cur EXCEPT ![t] = writer[w].link_newer]
                /\ UNCHANGED pc
        /\ UNCHANGED <<config, newest_writer, newest_memtable_writer, wgroup, frame,
                       active>>

MemWakeLeader(t) ==
    /\ pc[t] = "memWakeLeader"
    /\ Leave(t, SetState(writer, wgroup[active[t]].leader, "COMPLETED"))
    /\ UNCHANGED <<config, newest_writer, newest_memtable_writer>>

-----------------------------------------------------------------------------
\* a step that a running thread eventually takes
Step(t) ==
    \/ Wake(t)
    \/ WakeCompleted(t)
    \/ Lead(t)
    \/ Drain(t)
    \/ DrainLink(t)
    \/ DrainStore(t)
    \/ EnterAsBatchGroupLeader(t)
    \/ Work(t)
    \/ LaunchParallelMemTableWriters(t)
    \/ Insert(t)
    \/ CompleteParallelMemTableWriter(t)
    \/ Handoff(t)
    \/ Finish(t)
    \/ Finished(t)
    \/ ExitUnbatched(t)
    \/ LeaveUnbatched(t)
    \/ NotifyFollower(t)
    \/ NotifyLeader(t)
    \/ LinkGroup(t)
    \/ WakeMemLeader(t)
    \/ PipelinedHandoff(t)
    \/ EnterAsMemTableWriter(t)
    \/ MemHandoff(t)
    \/ MemFinish(t)
    \/ MemWakeLeader(t)

Next == \E t \in Threads : Join(t) \/ Block(t) \/ Sleep(t) \/ Step(t)

Spec == Init /\ [][Next]_vars

\* the operating system schedules every thread that can run
FairSpec == Spec /\ \A t \in Threads : WF_vars(Step(t))

-----------------------------------------------------------------------------
(***************************************************************************)
(* One leader per list: between becoming leader of newest_writer_ and      *)
(* handing it over a thread is alone (the handover of a parallel group     *)
(* included), and so is the leader of the memtable writers.                *)
(***************************************************************************)
LeaderPcs == {"lead", "drain", "drainLink", "awaitDrain", "drainStore", "enter",
              "work", "handoff", "unbatched", "pipelinedExit", "linkGroup",
              "wakeMemLeader", "pipelinedHandoff"}

MemLeaderPcs == {"memLead", "memExit"} \cup (IF Pipelined THEN {"launch"} ELSE {})

ExclusiveLeaders ==
    \A t, u \in Threads :
        \/ {pc[t], pc[u]} \subseteq LeaderPcs
        \/ {pc[t], pc[u]} \subseteq MemLeaderPcs
        => t = u

(***************************************************************************)
(* No lost writer: a Writer whose thread waits in AwaitState can still be  *)
(* reached by somebody who will wake it, from the head of a list or as a   *)
(* member of a WriteGroup, and a thread that sleeps has not been told yet. *)
(* Not covered, because it is not so: a pipelined DB and a thread whose    *)
(* write ended without the memtable (disable_memtable, a failed callback)  *)
(* and whose next Writer has the same address.  The comparison of          *)
(* newest_writer_ with last_writer (write_thread.cc:569) takes the new     *)
(* Writer for the old one.                                                 *)
(***************************************************************************)
RECURSIVE Reachable(_, _)
Reachable(S, w) == IF w = NULL \/ w \in S THEN S
                   ELSE Reachable(S \cup {w}, writer[w].link_older)

NoLostWriter ==
    \A t \in Threads :
        /\ pc[t] \in Awaiting /\ writer[Awaited(t)].state \notin Goals(t) =>
            \/ Awaited(t) \in Reachable({}, newest_writer)
            \/ Awaited(t) \in Reachable({}, newest_memtable_writer)
            \/ writer[Awaited(t)].write_group # NULL
        /\ pc[t] \in Awaiting /\ writer[Awaited(t)].asleep =>
            writer[Awaited(t)].state = "LOCKED_WAITING"

(***************************************************************************)
(* No dangling pointer: a Writer or WriteGroup that a thread is about to   *)
(* use has not left the stack of its owner (write_thread.cc:616, "as soon  *)
(* as it is marked committed the other thread's Await may return and       *)
(* deallocate the Writer").                                                *)
(***************************************************************************)
Alive(w) == IF w[2] = 0 THEN pc[w[1]] \in {"awaitDrain", "drainStore"}
            ELSE pc[w[1]] # "idle" /\ frame[w[1]] = w[2]

InUse(t) ==
    CASE pc[t] \in {"launch", "finish", "pipelinedExit", "memFinish"} ->
             {cur[t], wgroup[active[t]].leader, wgroup[active[t]].last_writer}
                 \ (IF pc[t] = "finish" THEN {wgroup[active[t]].last_writer}
                    ELSE IF pc[t] = "memFinish" THEN {wgroup[active[t]].leader}
                    ELSE {})
      [] pc[t] \in {"handoff", "memExit"} ->
             {wgroup[active[t]].leader, wgroup[active[t]].last_writer}
      [] pc[t] \in {"wakeMemLeader", "memWakeLeader"} -> {wgroup[active[t]].leader}
      [] pc[t] = "linkGroup" -> ToSet(GroupWriters(<<"wal", t>>))
      [] OTHER -> {}

NoDanglingPointer ==
    /\ \A t \in Threads : \A w \in InUse(t) : Alive(w)
    /\ \A t \in Threads : active[t] # NULL =>
                             pc[active[t][2]] # "idle"

\* the writer that t's next step, a handover, makes leader of the list head
NextLeader(t) ==
    LET last == IF pc[t] = "unbatched" THEN me(t)
                ELSE IF pc[t] = "pipelinedHandoff" THEN wgroup[<<"wal", t>>].original_last
                ELSE wgroup[active[t]].last_writer
        head == IF pc[t] = "memExit" THEN newest_memtable_writer ELSE newest_writer
    IN  {w \in Reachable({}, head) : head # last /\ writer[w].link_older = last}

\* the Writers t's next step calls SetState for, and the new state
Setting(t) ==
    CASE pc[t] = "launch" -> {<<cur[t], "PARALLEL_MEMTABLE_WRITER">>}
      [] pc[t] \in {"handoff", "unbatched", "pipelinedHandoff"} ->
             NextLeader(t) \X {"GROUP_LEADER"}
      [] pc[t] = "memExit" -> NextLeader(t) \X {"MEMTABLE_WRITER_LEADER"}
      [] pc[t] = "wakeMemLeader" ->
             {<<wgroup[<<"wal", t>>].leader, "MEMTABLE_WRITER_LEADER">>}
      [] pc[t] = "finish" ->
             ({cur[t]} \ ({me(t)} \cap {wgroup[active[t]].leader})) \X {"COMPLETED"}
      [] pc[t] = "memFinish" -> ({cur[t]} \ {wgroup[active[t]].leader}) \X {"COMPLETED"}
      [] pc[t] = "memWakeLeader" -> {<<wgroup[active[t]].leader, "COMPLETED">>}
      [] OTHER -> {}

\* CreateMissingNewerLinks(head): the links that are there are right
LinksAgree(head) ==
    \A w \in Reachable({}, head) :
        LET next == writer[w].link_older
        IN  next # NULL => writer[next].link_newer \in {NULL, w}

(***************************************************************************)
(* The assertions of write_thread.cc and of PipelinedWriteImpl, at the     *)
(* places where they stand: links between neighbours, the states a group   *)
(* is closed in, and that the state of a Writer is set by one thread at a  *)
(* time and to a new value (SetState).  The two that fail when an insert   *)
(* fails are left out: group.status.ok() in ExitAsBatchGroupFollower and   *)
(* made_waitable where CompleteParallelMemTableWriter locks StateMutex().  *)
(***************************************************************************)
AssertionsHold ==
    \A t \in Threads :
        LET w == writer[me(t)]
            g == IF active[t] = NULL THEN NewGroup ELSE wgroup[active[t]]
            linked == CreateMissingNewerLinks(writer, newest_writer)
            memLinked == CreateMissingNewerLinks(writer, newest_memtable_writer)
        IN  /\ pc[t] \in {"enter", "memLead"} => w.link_older = NULL
            /\ pc[t] = "memLead" => w.status = "ok" /\ LinksAgree(newest_memtable_writer)
            /\ pc[t] \in {"enter", "handoff", "unbatched"} => LinksAgree(newest_writer)
            /\ pc[t] = "memExit" => LinksAgree(newest_memtable_writer)
            /\ pc[t] = "handoff" =>
                 /\ writer[g.leader].link_older = NULL
                 /\ newest_writer # g.last_writer =>
                      linked[g.last_writer].link_newer \in NextLeader(t)
                 /\ g.leader # me(t) => w.state = "PARALLEL_MEMTABLE_WRITER"
            /\ pc[t] = "unbatched" /\ newest_writer # me(t) =>
                 linked[me(t)].link_newer \in NextLeader(t)
            /\ pc[t] = "pipelinedHandoff" /\ newest_writer # g.original_last =>
                 NextLeader(t) # {}
            /\ pc[t] = "memExit" /\ newest_memtable_writer # g.last_writer =>
                 memLinked[g.last_writer].link_newer \in NextLeader(t)
            /\ pc[t] = "pipelinedExit" =>
                 IF cur[t] # me(t) THEN g.size > 1 /\ cur[t] # g.leader
                 ELSE g.size > 0 /\ (g.size > 1 => w.link_newer # NULL)
            /\ pc[t] = "insert" /\ Pipelined => ShouldWriteToMemtable(w)
            /\ pc[t] = "finish" /\ cur[t] = g.leader /\ g.leader # me(t) =>
                 w.status = "ok" /\ w.state = "COMPLETED"
            /\ pc[t] = "memWakeLeader" =>
                 g.leader = me(t) \/ w.state = "COMPLETED"
            /\ \A x \in Setting(t) :
                 /\ writer[x[1]].state # x[2]
                 /\ \A u \in Threads \ {t} : \A y \in Setting(u) : y[1] # x[1]

(***************************************************************************)
(* Every write call returns, and every unbatched writer gets its turn.  It *)
(* is stated of one thread: they are interchangeable, so that thread       *)
(* stands for each of them.                                                *)
(***************************************************************************)
SomeThread == CHOOSE t \in Threads : TRUE

EveryCallReturns == pc[SomeThread] # "idle" ~> pc[SomeThread] = "idle"

-----------------------------------------------------------------------------
(***************************************************************************)
(* The list without pipelining implements WriteQueue (a pipelined DB is    *)
(* mapped to a queue nobody uses).                                         *)
(***************************************************************************)
absQueue == IF Pipelined THEN <<>> ELSE Reverse(OlderPath(newest_writer))

\* the group of the first writer, from EnterAsBatchGroupLeader to the handover
absLeaderGroup == wgroup[<<"wal", absQueue[1][1]>>]

absGroup == IF absQueue = <<>> THEN <<>>
            ELSE SubSeq(absQueue, 1, absLeaderGroup.size)

absLaunched == absQueue # <<>> /\ absLeaderGroup.parallel

absPhase ==
    LET q == absQueue
        launched == IF absLaunched THEN ToSet(absGroup) ELSE {}
    IN  [w \in Writers |->
            IF Pipelined \/ ~Alive(w) THEN "idle"
            ELSE IF w \notin ToSet(q) THEN "completed"
            ELSE IF w \in launched
            THEN CASE pc[w[1]] = "awaitDone" -> "waiting"
                   [] pc[w[1]] = "handoff" -> "closing"
                   [] OTHER -> "parallel"
            ELSE IF w = q[1] THEN "leader" ELSE "queued"]

absRunning == IF absLaunched THEN absLeaderGroup.running ELSE 0

Queue == INSTANCE WriteQueue WITH queue <- absQueue, group <- absGroup,
                                  phase <- absPhase, running <- absRunning

ImplementsWriteQueue == Queue!QueueSpec
=============================================================================
