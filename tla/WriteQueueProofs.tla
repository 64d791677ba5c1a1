------------------------- MODULE WriteQueueProofs -------------------------
(***************************************************************************)
(* The queue discipline of WriteQueue.tla, proved for any finite set of    *)
(* writers: one leader, nobody orphaned, and exactly one closing writer.   *)
(***************************************************************************)
EXTENDS WriteQueue, FiniteSetTheorems, TLAPS

-----------------------------------------------------------------------------
\* A sequence without repetitions has as many members as places; this is what
\* makes running.store(size) count the launched writers.
LEMMA MembersCardinality ==
    ASSUME NEW s \in Seq(Writers),
           \A i, j \in 1 .. Len(s) : s[i] = s[j] => i = j
    PROVE  Cardinality(Members(s)) = Len(s)
<1> DEFINE f == [i \in 1 .. Len(s) |-> s[i]]
<1>1. f \in [1 .. Len(s) -> Members(s)]
  BY Zenon DEF Members
<1>2. \A i, j \in 1 .. Len(s) : f[i] = f[j] => i = j
  BY Zenon
<1>3. \A x \in Members(s) : \E i \in 1 .. Len(s) : f[i] = x
  BY Zenon DEF Members
<1>4. f \in Bijection(1 .. Len(s), Members(s))
  BY <1>1, <1>2, <1>3, Zenon DEF Bijection, Injection, Surjection, IsInjective
<1>5. ExistsBijection(1 .. Len(s), Members(s))
  BY <1>4, Zenon DEF ExistsBijection
<1>6. Len(s) \in Nat
  OBVIOUS
<1> QED
  BY <1>5, <1>6, FS_CountingElements, Zenon

\* The part of a queue that a departing group leaves behind.
LEMMA SuffixFacts ==
    ASSUME NEW S, NEW s \in Seq(S), NEW n \in 0 .. Len(s)
    PROVE  LET r == SubSeq(s, n + 1, Len(s))
           IN  /\ r \in Seq(S)
               /\ Len(r) = Len(s) - n
               /\ \A i \in 1 .. Len(r) : r[i] = s[n + i]
  OBVIOUS

\* The group taken by EnterAsBatchGroupLeader.
LEMMA PrefixFacts ==
    ASSUME NEW S, NEW s \in Seq(S), NEW n \in 1 .. Len(s)
    PROVE  LET r == SubSeq(s, 1, n)
           IN  /\ r \in Seq(S)
               /\ Len(r) = n
               /\ \A i \in 1 .. Len(r) : r[i] = s[i]
  OBVIOUS

\* The invariant holds of the empty queue.
LEMMA InitQueueInv == QueueInit => QueueInv
<1> SUFFICES ASSUME QueueInit PROVE QueueInv
  BY Zenon
<1>1. ParallelWriters = {}
  BY Zenon DEF QueueInit, ParallelWriters
<1>2. LastOneCloses
  BY <1>1, FS_EmptySet, Zenon DEF QueueInit, LastOneCloses
<1> QED
  BY <1>2 DEF QueueInit, QueueInv, QueueTypeOK, NoDuplicates, LinkedPhases,
     GroupIsPrefix, LeaderIsFirst, LaunchedTogether, InCharge, ClosingIsUnique,
     Members, Phases, Launched

\* Each action keeps the invariant: LinkOne,
LEMMA LinkPreserves ==
    ASSUME QueueInv, NEW w \in Writers, Link(w)
    PROVE  QueueInv'
<1> USE DEF QueueInv, QueueTypeOK
<1>1. /\ queue' \in Seq(Writers)
      /\ Len(queue') = Len(queue) + 1
      /\ queue'[Len(queue) + 1] = w
      /\ \A i \in 1 .. Len(queue) : queue'[i] = queue[i]
  BY DEF Link
<1>2. w \notin Members(queue)
  BY Zenon DEF Link, LinkedPhases
<1>3. Members(queue)' = Members(queue) \cup {w}
  BY <1>1, SMTT(30), SMTT(45) DEF Members
<1>4. QueueTypeOK'
  BY <1>1, Zenon DEF Link, Phases
<1>5. NoDuplicates'
  BY <1>1, <1>2, SMTT(30), SMTT(45) DEF NoDuplicates, Members
<1>6. LinkedPhases'
  BY <1>3, Zenon DEF Link, LinkedPhases
<1>7. GroupIsPrefix'
  BY <1>1 DEF Link, GroupIsPrefix
<1>8. LeaderIsFirst'
  BY <1>1 DEF Link, LeaderIsFirst
<1>9. w \notin Members(group)
  BY <1>2 DEF GroupIsPrefix, Members
<1>10. LaunchedTogether'
  BY <1>9 DEF Link, LaunchedTogether, Launched, Members
<1>11. InCharge'
  <2>1. CASE queue = <<>>
    BY <2>1, <1>1 DEF Link, InCharge
  <2>2. CASE queue # <<>>
    BY <2>2, <1>1, <1>9 DEF Link, InCharge, Members
  <2> QED
    BY <2>1, <2>2, Zenon
<1>12. ClosingIsUnique'
  BY Zenon DEF Link, ClosingIsUnique
<1>13. ParallelWriters' = ParallelWriters
  BY Zenon DEF Link, ParallelWriters
<1>14. LastOneCloses'
  BY <1>13, Zenon DEF Link, LastOneCloses
<1> QED
  BY <1>4, <1>5, <1>6, <1>7, <1>8, <1>10, <1>11, <1>12, <1>14, Zenon

\* EnterAsBatchGroupLeader,
LEMMA FormGroupPreserves ==
    ASSUME QueueInv, NEW w \in Writers, NEW n \in 1 .. Len(queue),
           FormGroup(w, n)
    PROVE  QueueInv'
<1> USE DEF QueueInv, QueueTypeOK
<1>1. /\ group' \in Seq(Writers)
      /\ Len(group') = n
      /\ \A i \in 1 .. n : group'[i] = queue[i]
  BY PrefixFacts, Zenon DEF FormGroup
<1>2. \A x \in Writers : phase[x] \notin Launched
  BY DEF FormGroup, LaunchedTogether, Members
<1>3. GroupIsPrefix'
  BY <1>1 DEF FormGroup, GroupIsPrefix
<1>4. InCharge'
  BY Zenon DEF FormGroup, InCharge, LeaderIsFirst
<1>5. ParallelWriters' = ParallelWriters
  BY Zenon DEF FormGroup, ParallelWriters
<1>6. LastOneCloses'
  BY <1>5, Zenon DEF FormGroup, LastOneCloses
<1> QED
  BY <1>1, <1>2, <1>3, <1>4, <1>6 DEF FormGroup, NoDuplicates, LinkedPhases,
     LeaderIsFirst, LaunchedTogether, ClosingIsUnique, Members

\* LaunchParallelMemTableWriters,
LEMMA LaunchPreserves ==
    ASSUME QueueInv, NEW w \in Writers, LaunchParallel(w)
    PROVE  QueueInv'
<1> USE DEF QueueInv, QueueTypeOK
<1>1. \A x \in Writers : phase[x] \notin Launched
  <2>1. w \in Members(group)
    BY DEF LaunchParallel, LeaderIsFirst, GroupIsPrefix, Members
  <2> QED
    BY <2>1, Zenon DEF LaunchParallel, LaunchedTogether, Launched
<1>2. \A x \in Writers : phase'[x] = IF x \in Members(group) THEN "parallel"
                                                            ELSE phase[x]
  BY Zenon DEF LaunchParallel
<1>3. Members(group)' = Members(group) /\ Members(group) \subseteq Writers
  BY DEF LaunchParallel, Members
<1>4. Members(group) \subseteq Members(queue)
  BY DEF GroupIsPrefix, Members
<1>5. ParallelWriters' = Members(group)
  BY <1>1, <1>2, <1>3, Zenon DEF ParallelWriters, Launched
<1>6. Cardinality(Members(group)) = Len(group)
  <2>1. \A i, j \in 1 .. Len(group) : group[i] = group[j] => i = j
    BY DEF NoDuplicates, GroupIsPrefix
  <2> QED
    BY <2>1, MembersCardinality, Zenon
<1>7. LastOneCloses'
  BY <1>1, <1>2, <1>5, <1>6, Zenon DEF LaunchParallel, LastOneCloses, Launched
<1>8. QueueTypeOK'
  BY DEF LaunchParallel, Phases
<1>9. LinkedPhases'
  BY <1>2, <1>4, Zenon DEF LaunchParallel, LinkedPhases, Members
<1>10. LeaderIsFirst'
  BY <1>2, Zenon DEF LaunchParallel, LeaderIsFirst
<1>11. LaunchedTogether'
  BY <1>1, <1>2, <1>3, Zenon DEF LaunchedTogether, Launched
<1>12. InCharge'
  <2>1. group[1] \in Members(group) /\ group # <<>>
    BY DEF LaunchParallel, Members
  <2> QED
    BY <2>1, <1>2, <1>3, Zenon DEF LaunchParallel, InCharge
<1>13. ClosingIsUnique'
  BY <1>1, <1>2, Zenon DEF ClosingIsUnique, Launched
<1> QED
  BY <1>7, <1>8, <1>9, <1>10, <1>11, <1>12, <1>13, Zenon
     DEF LaunchParallel, NoDuplicates, GroupIsPrefix

\* CompleteParallelMemTableWriter,
LEMMA CompleteParallelPreserves ==
    ASSUME QueueInv, NEW w \in Writers, CompleteParallel(w)
    PROVE  QueueInv'
<1> USE DEF QueueInv, QueueTypeOK
<1>1. w \in ParallelWriters /\ ParallelWriters \subseteq Writers
  BY Zenon DEF CompleteParallel, ParallelWriters
<1>2. IsFiniteSet(ParallelWriters)
  BY <1>1, WritersFinite, FS_Subset, Zenon
<1>3. ParallelWriters' = ParallelWriters \ {w}
  BY Zenon DEF CompleteParallel, ParallelWriters
<1>4. /\ running \in Nat
      /\ running = Cardinality(ParallelWriters)
      /\ IsFiniteSet(ParallelWriters \ {w})
      /\ Cardinality(ParallelWriters \ {w}) = running - 1
  BY <1>1, <1>2, FS_RemoveElement, Zenon DEF LastOneCloses
<1>5. running - 1 \in Nat
  BY <1>4, FS_CardinalityType, Zenon
<1>6. running <= 1 => ParallelWriters \ {w} = {}
  <2>1. running <= 1 => Cardinality(ParallelWriters \ {w}) = 0
    BY <1>4, <1>5
  <2> QED
    BY <2>1, <1>4, FS_EmptySet, Zenon
<1>7. running > 1 => \E x \in ParallelWriters : x # w
  BY <1>4, FS_EmptySet
<1>8. LastOneCloses'
  BY <1>1, <1>3, <1>4, <1>6 DEF CompleteParallel, LastOneCloses
<1>9. QueueTypeOK'
  BY <1>5, Zenon DEF CompleteParallel, Phases
<1>10. LinkedPhases'
  BY Zenon DEF CompleteParallel, LinkedPhases, Members
<1>11. LaunchedTogether'
  BY DEF CompleteParallel, LaunchedTogether, Launched, Members
<1>12. w \in Members(group) /\ group # <<>>
  BY DEF CompleteParallel, LaunchedTogether, Launched, Members
<1>13. InCharge'
  <2>1. CASE running > 1
    <3>1. PICK x \in ParallelWriters : x # w
      BY <2>1, <1>7, Zenon
    <3>2. x \in Members(group) /\ phase'[x] = "parallel"
      BY <3>1, Zenon DEF ParallelWriters, LaunchedTogether, Launched,
         CompleteParallel
    <3> QED
      BY <3>2, <1>12, Zenon DEF InCharge, CompleteParallel, Members
  <2>2. CASE ~(running > 1)
    BY <2>2, <1>12, Zenon DEF InCharge, CompleteParallel, Members
  <2> QED
    BY <2>1, <2>2, Zenon
<1>14. ClosingIsUnique'
  BY <1>1, Zenon DEF CompleteParallel, ClosingIsUnique, LastOneCloses
<1> QED
  BY <1>8, <1>9, <1>10, <1>11, <1>13, <1>14
     DEF CompleteParallel, NoDuplicates, GroupIsPrefix, LeaderIsFirst

\* What every way of leaving the queue has in common: the departing writers
\* are the first ones, and they include every launched writer.
LEMMA DepartPreserves ==
    ASSUME QueueInv, NEW gone \in Seq(Writers), Depart(gone),
           Len(gone) \in 1 .. Len(queue),
           \A i \in 1 .. Len(gone) : gone[i] = queue[i],
           \A x \in Writers : phase[x] \in Launched => x \in Members(gone)
    PROVE  QueueInv'
<1> USE DEF QueueInv, QueueTypeOK
<1>1. /\ queue' \in Seq(Writers)
      /\ Len(queue') = Len(queue) - Len(gone)
      /\ \A i \in 1 .. Len(queue') : queue'[i] = queue[Len(gone) + i]
  BY SuffixFacts DEF Depart
<1>2. \A x \in Writers :
        phase'[x] = IF x \in Members(gone) THEN "completed"
                    ELSE IF queue' # <<>> /\ x = queue'[1] THEN "leader"
                    ELSE phase[x]
  BY Zenon DEF Depart
<1>3. group' = <<>> /\ running' = 0
  BY Zenon DEF Depart
<1>4. Members(queue) = Members(gone) \cup Members(queue')
  <2>1. \A x \in Members(queue) : x \in Members(gone) \cup Members(queue')
    <3>1. SUFFICES ASSUME NEW i \in 1 .. Len(queue)
                   PROVE  queue[i] \in Members(gone) \cup Members(queue')
      BY Zenon DEF Members
    <3>2. CASE i <= Len(gone)
      BY <3>2 DEF Members
    <3>3. CASE i > Len(gone)
      <4>1. i - Len(gone) \in 1 .. Len(queue')
        BY <3>3, <1>1
      <4>2. queue'[i - Len(gone)] = queue[Len(gone) + (i - Len(gone))]
        BY <4>1, <1>1, Zenon
      <4>3. Len(gone) + (i - Len(gone)) = i
        OBVIOUS
      <4> QED
        BY <4>1, <4>2, <4>3, Zenon DEF Members
    <3> QED
      BY <3>2, <3>3
  <2>2. \A x \in Members(gone) : x \in Members(queue)
    <3> SUFFICES ASSUME NEW i \in 1 .. Len(gone)
                 PROVE  gone[i] \in Members(queue)
      BY Zenon DEF Members
    <3>1. i \in 1 .. Len(queue) /\ gone[i] = queue[i]
      OBVIOUS
    <3> QED
      BY <3>1, Zenon DEF Members
  <2>3. \A x \in Members(queue') : x \in Members(queue)
    <3> SUFFICES ASSUME NEW i \in 1 .. Len(queue')
                 PROVE  queue'[i] \in Members(queue)
      BY Zenon DEF Members
    <3>1. Len(gone) + i \in 1 .. Len(queue) /\ queue'[i] = queue[Len(gone) + i]
      BY <1>1
    <3> QED
      BY <3>1, Zenon DEF Members
  <2> QED
    BY <2>1, <2>2, <2>3, Zenon
<1>5. \A x \in Members(queue') : x \notin Members(gone)
  BY <1>1 DEF NoDuplicates, Members
<1>6. QueueTypeOK'
  BY <1>1, <1>3 DEF Depart, Phases
<1>7. NoDuplicates'
  <2> SUFFICES ASSUME NEW i \in 1 .. Len(queue'), NEW j \in 1 .. Len(queue'),
                      queue'[i] = queue'[j]
               PROVE  i = j
    BY Zenon DEF NoDuplicates
  <2>1. Len(gone) + i \in 1 .. Len(queue) /\ Len(gone) + j \in 1 .. Len(queue)
    BY <1>1
  <2>2. queue[Len(gone) + i] = queue[Len(gone) + j]
    BY <1>1, Zenon
  <2>3. Len(gone) + i = Len(gone) + j
    BY <2>1, <2>2, Zenon DEF NoDuplicates
  <2> QED
    BY <2>3
<1>8. \A x \in Writers : x \notin Members(gone) =>
        phase'[x] = IF queue' # <<>> /\ x = queue'[1] THEN "leader"
                                                      ELSE phase[x]
  BY <1>2, Zenon
<1>9. queue' # <<>> => queue'[1] \in Members(queue')
  BY <1>1 DEF Members
<1>10. LinkedPhases'
  <2> SUFFICES ASSUME NEW x \in Writers
               PROVE  x \in Members(queue') <=>
                        phase'[x] \notin {"idle", "completed"}
    BY Zenon DEF LinkedPhases, Members
  <2>1. CASE x \in Members(gone)
    BY <2>1, <1>2, <1>5, Zenon
  <2>2. CASE x \notin Members(gone)
    BY <2>2, <1>4, <1>8, <1>9, Zenon DEF LinkedPhases
  <2> QED
    BY <2>1, <2>2, Zenon
<1>11. \A x \in Writers : phase[x] = "leader" => x \in Members(gone)
  BY DEF LeaderIsFirst, Members
<1>12. LeaderIsFirst'
  BY <1>2, <1>11, Zenon DEF LeaderIsFirst
<1>13. \A x \in Writers : phase'[x] \notin Launched
  BY <1>2, Zenon DEF Launched
<1>14. InCharge'
  <2> SUFFICES ASSUME queue' # <<>>
               PROVE  phase'[queue'[1]] = "leader"
    BY Zenon DEF InCharge
  <2>1. queue'[1] \in Writers /\ queue'[1] \notin Members(gone)
    BY <1>1, <1>5, <1>9
  <2> QED
    BY <2>1, <1>8, Zenon
<1>15. ParallelWriters' = {}
  BY <1>13, Zenon DEF ParallelWriters, Launched
<1>16. LastOneCloses'
  BY <1>3, <1>15, FS_EmptySet, Zenon DEF LastOneCloses
<1>17. GroupIsPrefix'
  BY <1>1, <1>3 DEF GroupIsPrefix
<1> QED
  BY <1>6, <1>7, <1>10, <1>12, <1>13, <1>14, <1>16, <1>17, Zenon
     DEF LaunchedTogether, ClosingIsUnique, Launched

\* ExitAsBatchGroupLeader,
LEMMA ExitGroupPreserves ==
    ASSUME QueueInv, NEW w \in Writers, ExitGroup(w)
    PROVE  QueueInv'
<1> USE DEF QueueInv, QueueTypeOK
<1>1. group # <<>>
  BY DEF ExitGroup, LaunchedTogether, Launched, Members
<1>2. Len(group) \in 1 .. Len(queue)
  BY <1>1 DEF GroupIsPrefix
<1>3. \A i \in 1 .. Len(group) : group[i] = queue[i]
  BY Zenon DEF GroupIsPrefix
<1>4. \A x \in Writers : phase[x] \in Launched => x \in Members(group)
  BY Zenon DEF LaunchedTogether
<1>5. Depart(group)
  BY Zenon DEF ExitGroup
<1> QED
  BY <1>2, <1>3, <1>4, <1>5, DepartPreserves, Zenon

\* ExitUnbatched
LEMMA ExitAlonePreserves ==
    ASSUME QueueInv, NEW w \in Writers, ExitAlone(w)
    PROVE  QueueInv'
<1> USE DEF QueueInv, QueueTypeOK
<1>1. queue # <<>> /\ queue[1] = w
  BY Zenon DEF ExitAlone, LeaderIsFirst
<1>2. <<w>> \in Seq(Writers) /\ Len(<<w>>) = 1 /\ <<w>>[1] = w
  OBVIOUS
<1>3. \A x \in Writers : phase[x] \notin Launched
  BY DEF ExitAlone, LaunchedTogether, Members
<1>4. Depart(<<w>>)
  BY Zenon DEF ExitAlone
<1>5. \A i \in 1 .. Len(<<w>>) : <<w>>[i] = queue[i]
  BY <1>1, <1>2
<1>6. Len(<<w>>) \in 1 .. Len(queue)
  BY <1>1, <1>2
<1> QED
  BY <1>2, <1>3, <1>4, <1>5, <1>6, DepartPreserves, Zenon

\* and the return of the call.
LEMMA ReturnPreserves ==
    ASSUME QueueInv, NEW w \in Writers, Return(w)
    PROVE  QueueInv'
<1> USE DEF QueueInv, QueueTypeOK
<1>1. w \notin Members(queue)
  BY Zenon DEF Return, LinkedPhases
<1>2. w \notin Members(group)
  BY <1>1 DEF GroupIsPrefix, Members
<1>3. ParallelWriters' = ParallelWriters
  BY Zenon DEF Return, ParallelWriters
<1>4. LastOneCloses'
  BY <1>3, Zenon DEF Return, LastOneCloses
<1>5. InCharge'
  <2>1. queue # <<>> => queue[1] # w
    BY <1>1 DEF Members
  <2> QED
    BY <2>1, <1>2 DEF Return, InCharge, Members
<1>6. LaunchedTogether'
  BY <1>2 DEF Return, LaunchedTogether, Launched, Members
<1> QED
  BY <1>1, <1>4, <1>5, <1>6 DEF Return, NoDuplicates, LinkedPhases, Phases,
     GroupIsPrefix, LeaderIsFirst, ClosingIsUnique, Members

\* Every step keeps the invariant.
LEMMA QueueNextPreserves == QueueInv /\ [QueueNext]_queueVars => QueueInv'
<1> SUFFICES ASSUME QueueInv, [QueueNext]_queueVars PROVE QueueInv'
  BY Zenon
<1>1. CASE UNCHANGED queueVars
  BY <1>1 DEF queueVars, QueueInv, QueueTypeOK, NoDuplicates, LinkedPhases,
     GroupIsPrefix, LeaderIsFirst, LaunchedTogether, InCharge, ClosingIsUnique,
     LastOneCloses, ParallelWriters, Members
<1>2. CASE QueueNext
  BY <1>2, LinkPreserves, FormGroupPreserves, LaunchPreserves,
     CompleteParallelPreserves, ExitGroupPreserves, ExitAlonePreserves,
     ReturnPreserves, Zenon DEF QueueNext
<1> QED
  BY <1>1, <1>2, Zenon

\* The queue discipline holds in every reachable state of the queue.
THEOREM QueueInvariant == QueueSpec => []QueueInv
  BY InitQueueInv, QueueNextPreserves, PTL DEF QueueSpec

-----------------------------------------------------------------------------
\* The invariant makes leadership exclusive
LEMMA InvGivesExclusiveLeader == QueueInv => ExclusiveLeader
<1> SUFFICES ASSUME QueueInv PROVE ExclusiveLeader
  BY Zenon
<1>1. \A v, w \in Writers : ~(phase[v] = "leader" /\ phase[w] = "closing")
  <2> SUFFICES ASSUME NEW v \in Writers, NEW w \in Writers,
                      phase[v] = "leader", phase[w] = "closing"
               PROVE  FALSE
    BY Zenon
  <2>1. group # <<>> /\ \A x \in Members(group) : phase[x] \in Launched
    BY DEF QueueInv, LaunchedTogether, Launched, Members
  <2>2. queue[1] \in Members(group)
    BY <2>1 DEF QueueInv, QueueTypeOK, GroupIsPrefix, Members
  <2> QED
    BY <2>1, <2>2, Zenon DEF QueueInv, LeaderIsFirst, Launched
<1> QED
  BY <1>1, Zenon DEF QueueInv, LeaderIsFirst, ClosingIsUnique, ExclusiveLeader, Acting

\* and leaves somebody in charge.
LEMMA InvGivesSomebodyInCharge == QueueInv => SomebodyInCharge
<1> SUFFICES ASSUME QueueInv, queue # <<>> PROVE SomebodyInCharge
  BY Zenon DEF SomebodyInCharge
<1>1. queue[1] \in Members(queue)
  BY DEF QueueInv, QueueTypeOK, Members
<1>2. Members(group) \subseteq Members(queue)
  BY DEF QueueInv, QueueTypeOK, GroupIsPrefix, Members
<1> QED
  BY <1>1, <1>2, Zenon DEF QueueInv, InCharge, SomebodyInCharge

(***************************************************************************)
(* For any number of concurrent writers there is at most one acting leader *)
(* of the write queue: LinkOne, the handover in ExitAsBatchGroupLeader and *)
(* the election in CompleteParallelMemTableWriter never make two.          *)
(***************************************************************************)
THEOREM LeadershipIsExclusive == QueueSpec => []ExclusiveLeader
  BY QueueInvariant, InvGivesExclusiveLeader, PTL

(***************************************************************************)
(* For any number of writers, a queue that is not empty always has a       *)
(* writer obliged to move it on, so no writer is left behind in AwaitState.*)
(***************************************************************************)
THEOREM QueueIsNeverOrphaned == QueueSpec => []SomebodyInCharge
  BY QueueInvariant, InvGivesSomebodyInCharge, PTL

(***************************************************************************)
(* For any number of writers, the counter behind                           *)
(* CompleteParallelMemTableWriter elects a closing writer only when every  *)
(* other member of the parallel group has reported.                        *)
(***************************************************************************)
THEOREM ClosingWriterIsLast == QueueSpec => []LastOneCloses
<1>1. QueueInv => LastOneCloses
  BY Zenon DEF QueueInv
<1> QED
  BY QueueInvariant, <1>1, PTL
=============================================================================
