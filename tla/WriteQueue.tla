---------------------------- MODULE WriteQueue ----------------------------
(***************************************************************************)
(* What class WriteThread (db/write_thread.h) promises to DBImpl in the    *)
(* non-pipelined configuration, without its pointers: the writers linked   *)
(* from newest_writer_ are one first-in-first-out queue, its oldest member *)
(* is the only leader, a batch group is a prefix of the queue, and the     *)
(* last of the parallel memtable writers closes the group.                 *)
(*                                                                         *)
(* WriteThread.tla refines this module; WriteImpl.tla builds DBImpl's      *)
(* write path on it.                                                       *)
(***************************************************************************)
EXTENDS Integers, Sequences, FiniteSets

CONSTANT Writers

ASSUME WritersFinite == IsFiniteSet(Writers)

VARIABLES
    queue,    \* linked writers, oldest first (the list behind newest_writer_)
    group,    \* the leader's WriteGroup, <<>> when no group has been formed
    phase,    \* what each writer is doing
    running   \* WriteGroup::running, parallel writers still inserting

queueVars == <<queue, group, phase, running>>

Phases == {"idle", "queued", "leader", "parallel", "waiting", "closing",
           "completed"}

Members(s) == {s[i] : i \in 1 .. Len(s)}

QueueTypeOK ==
    /\ queue \in Seq(Writers)
    /\ group \in Seq(Writers)
    /\ phase \in [Writers -> Phases]
    /\ running \in Nat

QueueInit ==
    /\ queue = <<>>
    /\ group = <<>>
    /\ phase = [w \in Writers |-> "idle"]
    /\ running = 0

(***************************************************************************)
(* JoinBatchGroup and EnterUnbatched: LinkOne pushes the writer, and the   *)
(* writer that finds the list empty is its own leader.                     *)
(***************************************************************************)
Link(w) ==
    /\ phase[w] = "idle"
    /\ queue' = Append(queue, w)
    /\ phase' = [phase EXCEPT ![w] = IF queue = <<>> THEN "leader"
                                                     ELSE "queued"]
    /\ UNCHANGED <<group, running>>

(***************************************************************************)
(* EnterAsBatchGroupLeader: the leader takes the oldest n writers, itself  *)
(* included.  Which n it takes is the caller's concern.                    *)
(***************************************************************************)
FormGroup(w, n) ==
    /\ phase[w] = "leader"
    /\ group = <<>>
    /\ group' = SubSeq(queue, 1, n)
    /\ UNCHANGED <<queue, phase, running>>

\* flawed: the leader does not count itself
LaunchFollowersOnly(w) ==
    /\ phase[w] = "leader"
    /\ Len(group) > 1
    /\ phase' = [x \in Writers |-> IF x \in Members(group) THEN "parallel"
                                                           ELSE phase[x]]
    /\ running' = Len(group) - 1
    /\ UNCHANGED <<queue, group>>

(***************************************************************************)
(* LaunchParallelMemTableWriters: every member of the group, the leader    *)
(* included, inserts its own batch.                                        *)
(***************************************************************************)
LaunchParallel(w) ==
    /\ phase[w] = "leader"
    /\ Len(group) > 1
    /\ phase' = [x \in Writers |-> IF x \in Members(group) THEN "parallel"
                                                           ELSE phase[x]]
    /\ running' = Len(group)
    /\ UNCHANGED <<queue, group>>

(***************************************************************************)
(* CompleteParallelMemTableWriter: all but the last wait for COMPLETED,    *)
(* the last performs the exit duties.                                      *)
(***************************************************************************)
CompleteParallel(w) ==
    /\ phase[w] = "parallel"
    /\ running' = running - 1
    /\ phase' = [phase EXCEPT ![w] = IF running > 1 THEN "waiting"
                                                    ELSE "closing"]
    /\ UNCHANGED <<queue, group>>

\* flawed: nobody is told to lead
DepartSilently(gone) ==
    /\ queue' = SubSeq(queue, Len(gone) + 1, Len(queue))
    /\ group' = <<>>
    /\ running' = 0
    /\ phase' = [x \in Writers |-> IF x \in Members(gone) THEN "completed"
                                                          ELSE phase[x]]

(***************************************************************************)
(* The handover of a departing leader: the group leaves the queue, its     *)
(* members are completed, and the oldest writer left becomes leader.       *)
(***************************************************************************)
Depart(gone) ==
    LET rest == SubSeq(queue, Len(gone) + 1, Len(queue))
    IN  /\ queue' = rest
        /\ group' = <<>>
        /\ running' = 0
        /\ phase' = [x \in Writers |->
                        IF x \in Members(gone) THEN "completed"
                        ELSE IF rest # <<>> /\ x = rest[1] THEN "leader"
                        ELSE phase[x]]

\* ExitAsBatchGroupLeader, called by the leader or, through
\* ExitAsBatchGroupFollower, by the last parallel writer
ExitGroup(w) ==
    /\ \/ phase[w] = "leader" /\ group # <<>>
       \/ phase[w] = "closing"
    /\ Depart(group)

\* ExitUnbatched: a leader that formed no group leaves alone
ExitAlone(w) ==
    /\ phase[w] = "leader"
    /\ group = <<>>
    /\ Depart(<<w>>)

\* the call returns and its Writer object is destroyed
Return(w) ==
    /\ phase[w] = "completed"
    /\ phase' = [phase EXCEPT ![w] = "idle"]
    /\ UNCHANGED <<queue, group, running>>

QueueNext ==
    \E w \in Writers :
        \/ Link(w)
        \/ \E n \in 1 .. Len(queue) : FormGroup(w, n)
        \/ LaunchParallel(w)
        \/ CompleteParallel(w)
        \/ ExitGroup(w)
        \/ ExitAlone(w)
        \/ Return(w)

QueueSpec == QueueInit /\ [][QueueNext]_queueVars

-----------------------------------------------------------------------------
(***************************************************************************)
(* Exclusive leadership (write_thread.cc:599, "no other leader work is     *)
(* going on here"): whoever forms, launches or closes a group works for    *)
(* the oldest queued writer, and no two writers do so at once.             *)
(***************************************************************************)
Acting(w) == phase[w] \in {"leader", "closing"}

ExclusiveLeader ==
    /\ \A v, w \in Writers : Acting(v) /\ Acting(w) => v = w
    /\ \A w \in Writers : phase[w] = "leader" => w = queue[1]

(***************************************************************************)
(* No orphaned queue: while writers are linked, somebody is obliged to     *)
(* move the queue on - its leader, a parallel writer that still has to     *)
(* report, or the one that closes the group.  Without this a writer would  *)
(* wait in AwaitState for ever.                                            *)
(***************************************************************************)
SomebodyInCharge ==
    queue # <<>> =>
        \E w \in Members(queue) : phase[w] \in {"leader", "parallel", "closing"}

(***************************************************************************)
(* The counter that elects the closing writer counts exactly the parallel  *)
(* writers that have not reported, and once a writer closes, nobody is     *)
(* still inserting: only then may the group's sequence be published.       *)
(***************************************************************************)
ParallelWriters == {w \in Writers : phase[w] = "parallel"}

LastOneCloses ==
    /\ running = Cardinality(ParallelWriters)
    /\ \A w \in Writers : phase[w] = "closing" => ParallelWriters = {}

-----------------------------------------------------------------------------
(***************************************************************************)
(* The inductive invariant of the queue, which WriteQueueProofs.tla proves *)
(* and the proofs about the write path use.                                *)
(***************************************************************************)
Launched == {"parallel", "waiting", "closing"}

\* no writer is linked twice
NoDuplicates ==
    \A i, j \in 1 .. Len(queue) : queue[i] = queue[j] => i = j

\* linked writers are the ones between Link and completion
LinkedPhases ==
    \A w \in Writers :
        w \in Members(queue) <=> phase[w] \notin {"idle", "completed"}

GroupIsPrefix ==
    /\ Len(group) <= Len(queue)
    /\ \A i \in 1 .. Len(group) : group[i] = queue[i]

LeaderIsFirst ==
    \A w \in Writers : phase[w] = "leader" => queue # <<>> /\ w = queue[1]

\* a group is launched as a whole
LaunchedTogether ==
    \A w \in Writers : phase[w] \in Launched =>
        /\ w \in Members(group)
        /\ \A x \in Members(group) : phase[x] \in Launched

\* either the first writer leads, or its launched group still has somebody
\* who will close it
InCharge ==
    queue # <<>> =>
        \/ phase[queue[1]] = "leader"
        \/ /\ group # <<>>
           /\ \E w \in Members(group) : phase[w] \in {"parallel", "closing"}

ClosingIsUnique ==
    \A v, w \in Writers : phase[v] = "closing" /\ phase[w] = "closing" => v = w

QueueInv ==
    /\ QueueTypeOK
    /\ NoDuplicates
    /\ LinkedPhases
    /\ GroupIsPrefix
    /\ LeaderIsFirst
    /\ LaunchedTogether
    /\ InCharge
    /\ ClosingIsUnique
    /\ LastOneCloses

=============================================================================
