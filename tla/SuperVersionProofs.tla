-------------------------- MODULE SuperVersionProofs --------------------------
(***************************************************************************)
(* Proofs about SuperVersion, for any finite set of threads and any number *)
(* of SuperVersions.                                                       *)
(***************************************************************************)
EXTENDS SuperVersion, FiniteSetTheorems, TLAPS

\* the SuperVersion the reference of a thread's slot is to, wherever it is now:
\* in the thread's hand, with the sweep, or in the slot
cached ==
    [r \in Readers |->
        IF Holding(r) THEN sv[r]
        ELSE IF scraped[r] # 0 THEN scraped[r]
        ELSE IF local_sv[r] \in Versions THEN local_sv[r] ELSE 0]

Count(f, v) == Cardinality({r \in Readers : f[r] = v})

\* 1 if the column family itself, or InstallSuperVersion, refers to v
Owned(v) == IF v = super_version \/ v = old THEN 1 ELSE 0

\* every reference is counted, once
Counted ==
    \A v \in Versions : refs[v] = Count(cached, v) + Count(pin, v) + Owned(v)

Installing ==
    /\ installer = "idle" => old = 0 /\ super_version_number = super_version /\ todo = {}
    /\ installer = "number" => super_version_number = old /\ todo = {}
    /\ installer = "scrape" => super_version_number = super_version
    /\ installer # "idle" => old # 0 /\ super_version = old + 1

\* v may stand in the slot of r
Recent(r, v) ==
    IF installer = "idle" THEN v = super_version
    ELSE v = old /\ (installer = "number" \/ r \in todo)

\* what the slot and the hand of a thread hold, by its place in the code
Slot(r) ==
    /\ pc[r] \in {"idle", "dispose"} => local_sv[r] # kSVInUse
    /\ pc[r] \notin {"idle", "dispose"} => local_sv[r] \in {kSVInUse, kSVObsolete}
    /\ pc[r] = "release" => local_sv[r] = kSVObsolete
    /\ local_sv[r] \in Versions => Recent(r, local_sv[r])
    /\ pc[r] \in {"use", "return"} /\ local_sv[r] = kSVInUse => Recent(r, sv[r])
    /\ Holding(r) \/ pc[r] \in {"cleanup", "dispose"} => sv[r] # 0
    /\ scraped[r] # 0 =>
           /\ installer = "scrape" /\ scraped[r] = old /\ r \notin todo
           /\ pc[r] \in {"idle", "acquire", "dispose", "cleanup"}
    /\ pc[r] = "check" /\ installer # "idle" => sv[r] # super_version
    /\ pc[r] = "return" => pin[r] = sv[r]
    /\ floor[r] <= super_version_number
    /\ pc[r] = "use" => sv[r] >= floor[r]

Alive ==
    /\ \A v \in live : v <= super_version
    /\ \A v \in Versions : refs[v] > 0 => v \in live
    /\ \A r \in Readers : pc[r] \in {"cleanup", "dispose"} => refs[sv[r]] = 0

IInv ==
    /\ TypeOK
    /\ Installing
    /\ \A r \in Readers : Slot(r)
    /\ Counted
    /\ Alive
    /\ CleanedOnce
    /\ NoLeak

-----------------------------------------------------------------------------
\* The number of threads with a given value is a natural number, positive if
\* some thread has it.
LEMMA CountPositive ==
    ASSUME NEW f, NEW v
    PROVE  /\ Count(f, v) \in Nat
           /\ \A r \in Readers : f[r] = v => Count(f, v) > 0
<1>1. IsFiniteSet({r \in Readers : f[r] = v})
    BY ReadersFinite, FS_Subset, {r \in Readers : f[r] = v} \subseteq Readers, Zenon
<1>2. Count(f, v) \in Nat
    BY <1>1, FS_CardinalityType, Zenon DEF Count
<1>3. ASSUME NEW r \in Readers, f[r] = v PROVE Count(f, v) # 0
    <2>1. {s \in Readers : f[s] = v} # {} BY <1>3, Zenon
    <2> QED BY <2>1, <1>1, FS_EmptySet, Zenon DEF Count
<1> QED BY <1>2, <1>3

\* If the value of one thread changes, its old value is held by one thread
\* fewer and its new one by one more.
LEMMA CountChange ==
    ASSUME NEW f, NEW g, NEW r \in Readers,
           \A s \in Readers \ {r} : g[s] = f[s]
    PROVE  \A v : Count(g, v) = Count(f, v) + (IF g[r] = v THEN 1 ELSE 0)
                                            - (IF f[r] = v THEN 1 ELSE 0)
<1> SUFFICES ASSUME NEW v
             PROVE  Count(g, v) = Count(f, v) + (IF g[r] = v THEN 1 ELSE 0)
                                              - (IF f[r] = v THEN 1 ELSE 0)
    BY Zenon
<1> DEFINE F == {s \in Readers : f[s] = v}
           G == {s \in Readers : g[s] = v}
           H == F \ {r}
<1>1. IsFiniteSet(F) /\ IsFiniteSet(H)
    BY ReadersFinite, FS_Subset, F \subseteq Readers, H \subseteq Readers, Zenon
<1>2. F = IF f[r] = v THEN H \cup {r} ELSE H BY Zenon
<1>3. G = IF g[r] = v THEN H \cup {r} ELSE H BY Zenon
<1>4. Cardinality(H \cup {r}) = Cardinality(H) + 1 /\ Cardinality(H) \in Nat
    <2>1. r \notin H BY Zenon
    <2> HIDE DEF H
    <2> QED BY <1>1, <2>1, FS_AddElement, FS_CardinalityType, Zenon
<1>5. Cardinality(F) = Cardinality(H) + (IF f[r] = v THEN 1 ELSE 0)
    <2> HIDE DEF F, H
    <2> QED BY <1>2, <1>4
<1>6. Cardinality(G) = Cardinality(H) + (IF g[r] = v THEN 1 ELSE 0)
    <2> HIDE DEF G, H
    <2> QED BY <1>3, <1>4
<1>7. Count(f, v) = Cardinality(F) /\ Count(g, v) = Cardinality(G)
    BY Zenon DEF Count
<1> HIDE DEF F, G, H
<1> QED BY <1>4, <1>5, <1>6, <1>7

\* Nothing changes if no thread's value does.
LEMMA CountSame ==
    ASSUME NEW f, NEW g, \A s \in Readers : g[s] = f[s]
    PROVE  \A v : Count(g, v) = Count(f, v)
<1>1. \A v : {s \in Readers : g[s] = v} = {s \in Readers : f[s] = v} BY Zenon
<1> QED BY <1>1, Zenon DEF Count

\* Whoever has a reference finds it counted; a reference in a slot, or with the
\* sweep, is never the only one.
LEMMA Referenced ==
    ASSUME IInv
    PROVE  /\ \A r \in Readers :
                  /\ Holding(r) => sv[r] \in Versions /\ refs[sv[r]] > 0
                  /\ pin[r] # 0 => pin[r] \in Versions /\ refs[pin[r]] > 0
                  /\ scraped[r] # 0 => scraped[r] \in Versions /\ refs[scraped[r]] > 1
                  /\ local_sv[r] \in Versions => refs[local_sv[r]] > 1
                  /\ pc[r] = "return" => refs[sv[r]] > 1
           /\ refs[super_version] > 0
           /\ old # 0 => old \in Versions /\ refs[old] > 0
<1> USE DEF IInv
<1>1. \A v \in Versions : /\ Count(cached, v) \in Nat /\ Count(pin, v) \in Nat
                          /\ refs[v] = Count(cached, v) + Count(pin, v) + Owned(v)
                          /\ Owned(v) \in {0, 1}
    BY CountPositive, Zenon DEF Counted, Owned
<1>2. \A r \in Readers, v \in Versions :
          /\ cached[r] = v => Count(cached, v) > 0
          /\ pin[r] = v => Count(pin, v) > 0
    BY CountPositive, Zenon
<1>3. super_version \in Versions /\ Owned(super_version) = 1
    BY Zenon DEF TypeOK, Owned
<1>4. old # 0 => old \in Versions /\ Owned(old) = 1
    BY Zenon DEF TypeOK, Owned
<1>5. ASSUME NEW r \in Readers
      PROVE  /\ Holding(r) => sv[r] \in Versions /\ cached[r] = sv[r]
             /\ pin[r] # 0 => pin[r] \in Versions
             /\ scraped[r] # 0 => /\ scraped[r] \in Versions
                                  /\ cached[r] = scraped[r] /\ Owned(scraped[r]) = 1
             /\ local_sv[r] \in Versions =>
                    cached[r] = local_sv[r] /\ Owned(local_sv[r]) = 1
             /\ pc[r] = "return" => Holding(r) /\ pin[r] = sv[r]
    <2>1. Slot(r) BY Zenon
    <2>2. Holding(r) => sv[r] \in Versions /\ cached[r] = sv[r]
        BY <2>1, Zenon DEF Slot, TypeOK, cached
    <2>3. scraped[r] # 0 => ~Holding(r) /\ scraped[r] = old
        BY <2>1, Zenon DEF Slot, Holding
    <2>4. scraped[r] # 0 => /\ scraped[r] \in Versions
                            /\ cached[r] = scraped[r] /\ Owned(scraped[r]) = 1
        BY <2>3, <1>4, Zenon DEF cached
    <2>5. local_sv[r] \in Versions =>
              /\ ~Holding(r) /\ scraped[r] = 0
              /\ local_sv[r] = super_version \/ local_sv[r] = old
        BY <2>1, InUseIsAMark DEF Slot, Holding, Recent, kSVObsolete, Versions, Installing
    <2>6. local_sv[r] \in Versions => cached[r] = local_sv[r] /\ Owned(local_sv[r]) = 1
        BY <2>5, Zenon DEF cached, Owned
    <2> QED BY <2>1, <2>2, <2>4, <2>6, Zenon DEF Slot, Holding, TypeOK
<1> HIDE DEF IInv
<1>6. ASSUME NEW r \in Readers
      PROVE  /\ Holding(r) => sv[r] \in Versions /\ refs[sv[r]] > 0
             /\ pin[r] # 0 => pin[r] \in Versions /\ refs[pin[r]] > 0
             /\ scraped[r] # 0 => scraped[r] \in Versions /\ refs[scraped[r]] > 1
             /\ local_sv[r] \in Versions => refs[local_sv[r]] > 1
             /\ pc[r] = "return" => refs[sv[r]] > 1
    BY <1>1, <1>2, <1>5
<1> QED BY <1>1, <1>3, <1>4, <1>6

-----------------------------------------------------------------------------
\* Every step keeps the types; a reference count never falls below zero.
LEMMA TypeStep == IInv /\ Next => TypeOK'
<1> SUFFICES ASSUME IInv, Next PROVE TypeOK'
    BY Zenon
<1>0. TypeOK /\ Installing /\ (\A s \in Readers : Slot(s)) BY Zenon DEF IInv
<1>a. \A s \in Readers : pc[s] = "idle" => local_sv[s] \in Versions \cup {kSVObsolete}
    BY <1>0, Zenon DEF Slot, TypeOK
<1>b. /\ \A s \in Readers :
             /\ Holding(s) => refs[sv[s]] > 0 /\ sv[s] \in Versions
             /\ pin[s] # 0 => refs[pin[s]] > 0 /\ pin[s] \in Versions
             /\ scraped[s] # 0 => refs[scraped[s]] > 0 /\ scraped[s] \in Versions
             /\ local_sv[s] \in Versions => refs[local_sv[s]] > 0
      /\ old # 0 => refs[old] > 0 /\ old \in Versions
    BY <1>0, Referenced DEF TypeOK
<1>c. \A v \in Versions :
          /\ Ref(v) => refs' \in [Versions -> Nat]
          /\ refs[v] > 0 /\ Unref(v) => refs' \in [Versions -> Nat]
    BY <1>0 DEF TypeOK, Ref, Unref
<1>1. CASE InstallSuperVersion
    BY <1>1, <1>0, <1>a, <1>b, <1>c, InUseIsAMark, MaxVersionPositive DEF
       InstallSuperVersion, TypeOK, readVars, installVars, Versions, kSVObsolete,
       Holding, CompareAndSwap, Installing
<1>2. CASE BumpNumber
    BY <1>2, <1>0, <1>a, <1>b, <1>c, InUseIsAMark, MaxVersionPositive, Zenon DEF BumpNumber,
       TypeOK, readVars, installVars, Versions, kSVObsolete, Holding, CompareAndSwap,
       Installing
<1>3. CASE UnrefOld
    BY <1>3, <1>0, <1>a, <1>b, <1>c, InUseIsAMark, MaxVersionPositive, Zenon DEF UnrefOld,
       TypeOK, readVars, installVars, Versions, kSVObsolete, Holding, CompareAndSwap,
       Installing
<1>4. ASSUME NEW r \in Readers, Scrape(r) PROVE TypeOK'
    BY <1>4, <1>0, <1>a, <1>b, <1>c, InUseIsAMark, MaxVersionPositive, Zenon DEF Scrape,
       TypeOK, readVars, installVars, Versions, kSVObsolete, Holding, CompareAndSwap,
       Installing
<1>5. ASSUME NEW r \in Readers, UnrefScraped(r) PROVE TypeOK'
    BY <1>5, <1>0, <1>a, <1>b, <1>c, InUseIsAMark, MaxVersionPositive, Zenon DEF UnrefScraped,
       TypeOK, readVars, installVars, Versions, kSVObsolete, Holding, CompareAndSwap,
       Installing
<1>6. ASSUME NEW r \in Readers, SwapIn(r) PROVE TypeOK'
    BY <1>6, <1>0, <1>a, <1>b, <1>c, InUseIsAMark, MaxVersionPositive,
         SMTT(30), SMTT(45) DEF SwapIn,
       TypeOK, readVars, installVars, Versions, kSVObsolete, Holding, CompareAndSwap,
       Installing
<1>7. ASSUME NEW r \in Readers, CheckNumber(r) PROVE TypeOK'
    BY <1>7, <1>0, <1>a, <1>b, <1>c, InUseIsAMark, MaxVersionPositive, Zenon DEF CheckNumber,
       TypeOK, readVars, installVars, Versions, kSVObsolete, Holding, CompareAndSwap,
       Installing
<1>8. ASSUME NEW r \in Readers, UnrefStale(r) PROVE TypeOK'
    BY <1>8, <1>0, <1>a, <1>b, <1>c, InUseIsAMark, MaxVersionPositive, Zenon DEF UnrefStale,
       TypeOK, readVars, installVars, Versions, kSVObsolete, Holding, CompareAndSwap,
       Installing
<1>9. ASSUME NEW r \in Readers, Acquire(r) PROVE TypeOK'
    BY <1>9, <1>0, <1>a, <1>b, <1>c, InUseIsAMark, MaxVersionPositive, Zenon DEF Acquire,
       TypeOK, readVars, installVars, Versions, kSVObsolete, Holding, CompareAndSwap,
       Installing
<1>10. ASSUME NEW r \in Readers, Return(r) PROVE TypeOK'
    BY <1>10, <1>0, <1>a, <1>b, <1>c, InUseIsAMark, MaxVersionPositive, Zenon DEF Return,
       TypeOK, readVars, installVars, Versions, kSVObsolete, Holding, CompareAndSwap,
       Installing
<1>11. ASSUME NEW r \in Readers, Release(r) PROVE TypeOK'
    BY <1>11, <1>0, <1>a, <1>b, <1>c, InUseIsAMark, MaxVersionPositive, Zenon DEF Release,
       TypeOK, readVars, installVars, Versions, kSVObsolete, Holding, CompareAndSwap,
       Installing
<1>12. ASSUME NEW r \in Readers, Dispose(r) PROVE TypeOK'
    BY <1>12, <1>0, <1>a, <1>b, <1>c, InUseIsAMark, MaxVersionPositive, Zenon DEF Dispose,
       TypeOK, readVars, installVars, Versions, kSVObsolete, Holding, CompareAndSwap,
       Installing
<1>13. ASSUME NEW r \in Readers, Pin(r) PROVE TypeOK'
    BY <1>13, <1>0, <1>a, <1>b, <1>c, InUseIsAMark, MaxVersionPositive, Zenon DEF Pin, TypeOK,
       readVars, installVars, Versions, kSVObsolete, Holding, CompareAndSwap, Installing
<1>14. ASSUME NEW r \in Readers, ReturnPinned(r) PROVE TypeOK'
    BY <1>14, <1>0, <1>a, <1>b, <1>c, InUseIsAMark, MaxVersionPositive, Zenon DEF ReturnPinned,
       TypeOK, readVars, installVars, Versions, kSVObsolete, Holding, CompareAndSwap,
       Installing
<1>15. ASSUME NEW r \in Readers, Unpin(r) PROVE TypeOK'
    BY <1>15, <1>0, <1>a, <1>b, <1>c, InUseIsAMark, MaxVersionPositive, Zenon DEF Unpin,
       TypeOK, readVars, installVars, Versions, kSVObsolete, Holding, CompareAndSwap,
       Installing
<1>16. ASSUME NEW r \in Readers, ThreadExit(r) PROVE TypeOK'
    BY <1>16, <1>0, <1>a, <1>b, <1>c, InUseIsAMark, MaxVersionPositive, Zenon DEF ThreadExit,
       TypeOK, readVars, installVars, Versions, kSVObsolete, Holding, CompareAndSwap,
       Installing
<1> QED
    BY <1>1, <1>2, <1>3, <1>4, <1>5, <1>6, <1>7, <1>8, <1>9, <1>10, <1>11, <1>12, <1>13,
       <1>14, <1>15, <1>16, Zenon DEF Next, Install, Read

\* Every step keeps the order of InstallSuperVersion: pointer, number, sweep.
LEMMA InstallingStep == IInv /\ Next => Installing'
<1> SUFFICES ASSUME IInv, Next PROVE Installing'
    BY Zenon
<1>0. TypeOK /\ Installing BY Zenon DEF IInv
<1>1. CASE InstallSuperVersion
    BY <1>1, <1>0 DEF InstallSuperVersion, TypeOK, readVars, installVars, Versions,
       Installing, MutexFree
<1>2. CASE BumpNumber
    BY <1>2, <1>0, Zenon DEF BumpNumber, TypeOK, readVars, installVars, Versions, Installing,
       MutexFree
<1>3. CASE UnrefOld
    BY <1>3, <1>0, Zenon DEF UnrefOld, TypeOK, readVars, installVars, Versions, Installing,
       MutexFree
<1>4. ASSUME NEW r \in Readers, Scrape(r) PROVE Installing'
    BY <1>4, <1>0, Zenon DEF Scrape, TypeOK, readVars, installVars, Versions, Installing,
       MutexFree
<1>5. ASSUME NEW r \in Readers, UnrefScraped(r) PROVE Installing'
    BY <1>5, <1>0, Zenon DEF UnrefScraped, TypeOK, readVars, installVars, Versions, Installing,
       MutexFree
<1>6. ASSUME NEW r \in Readers, SwapIn(r) PROVE Installing'
    BY <1>6, <1>0, Zenon DEF SwapIn, TypeOK, readVars, installVars, Versions, Installing,
       MutexFree
<1>7. ASSUME NEW r \in Readers, CheckNumber(r) PROVE Installing'
    BY <1>7, <1>0, Zenon DEF CheckNumber, TypeOK, readVars, installVars, Versions, Installing,
       MutexFree
<1>8. ASSUME NEW r \in Readers, UnrefStale(r) PROVE Installing'
    BY <1>8, <1>0, Zenon DEF UnrefStale, TypeOK, readVars, installVars, Versions, Installing,
       MutexFree
<1>9. ASSUME NEW r \in Readers, Acquire(r) PROVE Installing'
    BY <1>9, <1>0, Zenon DEF Acquire, TypeOK, readVars, installVars, Versions, Installing,
       MutexFree
<1>10. ASSUME NEW r \in Readers, Return(r) PROVE Installing'
    BY <1>10, <1>0, Zenon DEF Return, TypeOK, readVars, installVars, Versions, Installing,
       MutexFree
<1>11. ASSUME NEW r \in Readers, Release(r) PROVE Installing'
    BY <1>11, <1>0, Zenon DEF Release, TypeOK, readVars, installVars, Versions, Installing,
       MutexFree
<1>12. ASSUME NEW r \in Readers, Dispose(r) PROVE Installing'
    BY <1>12, <1>0, Zenon DEF Dispose, TypeOK, readVars, installVars, Versions, Installing,
       MutexFree
<1>13. ASSUME NEW r \in Readers, Pin(r) PROVE Installing'
    BY <1>13, <1>0, Zenon DEF Pin, TypeOK, readVars, installVars, Versions, Installing,
       MutexFree
<1>14. ASSUME NEW r \in Readers, ReturnPinned(r) PROVE Installing'
    BY <1>14, <1>0, Zenon DEF ReturnPinned, TypeOK, readVars, installVars, Versions,
       Installing, MutexFree
<1>15. ASSUME NEW r \in Readers, Unpin(r) PROVE Installing'
    BY <1>15, <1>0, Zenon DEF Unpin, TypeOK, readVars, installVars, Versions, Installing,
       MutexFree
<1>16. ASSUME NEW r \in Readers, ThreadExit(r) PROVE Installing'
    BY <1>16, <1>0, Zenon DEF ThreadExit, TypeOK, readVars, installVars, Versions, Installing,
       MutexFree
<1> QED
    BY <1>1, <1>2, <1>3, <1>4, <1>5, <1>6, <1>7, <1>8, <1>9, <1>10, <1>11, <1>12, <1>13,
       <1>14, <1>15, <1>16 DEF Next, Install, Read

\* Every step keeps what the threads' slots and hands hold.
LEMMA SlotStep == IInv /\ Next => (\A r \in Readers : Slot(r))'
<1> SUFFICES ASSUME IInv, Next, NEW t \in Readers PROVE Slot(t)'
    BY Zenon
<1>0. TypeOK /\ Installing /\ Slot(t) BY Zenon DEF IInv
<1>a. Holding(t) => sv[t] <= super_version
    BY Referenced, Zenon DEF IInv, Alive
<1>1. CASE InstallSuperVersion
    BY <1>1, <1>0, <1>a, InUseIsAMark DEF InstallSuperVersion, TypeOK, readVars,
       installVars, Versions, kSVObsolete, Holding, CompareAndSwap, Installing, Slot,
       Recent, MutexFree
<1>2. CASE BumpNumber
    BY <1>2, <1>0, <1>a, InUseIsAMark DEF BumpNumber, TypeOK, readVars, installVars,
       Versions, kSVObsolete, Holding, CompareAndSwap, Installing, Slot, Recent,
       MutexFree
<1>3. CASE UnrefOld
    BY <1>3, <1>0, <1>a, InUseIsAMark, Zenon DEF UnrefOld, TypeOK, readVars, installVars,
       Versions, kSVObsolete, Holding, CompareAndSwap, Installing, Slot, Recent,
       MutexFree
<1>4. ASSUME NEW r \in Readers, Scrape(r) PROVE Slot(t)'
    BY <1>4, <1>0, <1>a, InUseIsAMark DEF Scrape, TypeOK, readVars, installVars,
       Versions, kSVObsolete, Holding, CompareAndSwap, Installing, Slot, Recent,
       MutexFree
<1>5. ASSUME NEW r \in Readers, UnrefScraped(r) PROVE Slot(t)'
    BY <1>5, <1>0, <1>a, InUseIsAMark, Zenon DEF UnrefScraped, TypeOK, readVars, installVars,
       Versions, kSVObsolete, Holding, CompareAndSwap, Installing, Slot, Recent,
       MutexFree
<1>6. ASSUME NEW r \in Readers, SwapIn(r) PROVE Slot(t)'
    BY <1>6, <1>0, <1>a, InUseIsAMark DEF SwapIn, TypeOK, readVars, installVars,
       Versions, kSVObsolete, Holding, CompareAndSwap, Installing, Slot, Recent,
       MutexFree
<1>7. ASSUME NEW r \in Readers, CheckNumber(r) PROVE Slot(t)'
    BY <1>7, <1>0, <1>a, InUseIsAMark DEF CheckNumber, TypeOK, readVars, installVars,
       Versions, kSVObsolete, Holding, CompareAndSwap, Installing, Slot, Recent,
       MutexFree
<1>8. ASSUME NEW r \in Readers, UnrefStale(r) PROVE Slot(t)'
    BY <1>8, <1>0, <1>a, InUseIsAMark, Zenon DEF UnrefStale, TypeOK, readVars, installVars,
       Versions, kSVObsolete, Holding, CompareAndSwap, Installing, Slot, Recent,
       MutexFree
<1>9. ASSUME NEW r \in Readers, Acquire(r) PROVE Slot(t)'
    BY <1>9, <1>0, <1>a, InUseIsAMark DEF Acquire, TypeOK, readVars, installVars,
       Versions, kSVObsolete, Holding, CompareAndSwap, Installing, Slot, Recent,
       MutexFree
<1>10. ASSUME NEW r \in Readers, Return(r) PROVE Slot(t)'
    BY <1>10, <1>0, <1>a, InUseIsAMark DEF Return, TypeOK, readVars, installVars,
       Versions, kSVObsolete, Holding, CompareAndSwap, Installing, Slot, Recent,
       MutexFree
<1>11. ASSUME NEW r \in Readers, Release(r) PROVE Slot(t)'
    BY <1>11, <1>0, <1>a, InUseIsAMark DEF Release, TypeOK, readVars, installVars,
       Versions, kSVObsolete, Holding, CompareAndSwap, Installing, Slot, Recent,
       MutexFree
<1>12. ASSUME NEW r \in Readers, Dispose(r) PROVE Slot(t)'
    BY <1>12, <1>0, <1>a, InUseIsAMark, Zenon DEF Dispose, TypeOK, readVars, installVars,
       Versions, kSVObsolete, Holding, CompareAndSwap, Installing, Slot, Recent,
       MutexFree
<1>13. ASSUME NEW r \in Readers, Pin(r) PROVE Slot(t)'
    BY <1>13, <1>0, <1>a, InUseIsAMark DEF Pin, TypeOK, readVars, installVars, Versions,
       kSVObsolete, Holding, CompareAndSwap, Installing, Slot, Recent, MutexFree
<1>14. ASSUME NEW r \in Readers, ReturnPinned(r) PROVE Slot(t)'
    BY <1>14, <1>0, <1>a, InUseIsAMark DEF ReturnPinned, TypeOK, readVars, installVars,
       Versions, kSVObsolete, Holding, CompareAndSwap, Installing, Slot, Recent,
       MutexFree
<1>15. ASSUME NEW r \in Readers, Unpin(r) PROVE Slot(t)'
    BY <1>15, <1>0, <1>a, InUseIsAMark, Zenon DEF Unpin, TypeOK, readVars, installVars,
       Versions, kSVObsolete, Holding, CompareAndSwap, Installing, Slot, Recent,
       MutexFree
<1>16. ASSUME NEW r \in Readers, ThreadExit(r) PROVE Slot(t)'
    BY <1>16, <1>0, <1>a, InUseIsAMark DEF ThreadExit, TypeOK, readVars, installVars,
       Versions, kSVObsolete, Holding, CompareAndSwap, Installing, Slot, Recent,
       MutexFree
<1> QED
    BY <1>1, <1>2, <1>3, <1>4, <1>5, <1>6, <1>7, <1>8, <1>9, <1>10, <1>11, <1>12, <1>13,
       <1>14, <1>15, <1>16 DEF Next, Install, Read

-----------------------------------------------------------------------------
\* 1 if the two are equal: what one reference contributes to a count
One(u, v) == IF u = v THEN 1 ELSE 0

\* A step of thread r that moves its cached reference, its pinned one, or both,
\* and adjusts the counts accordingly, keeps every reference counted.
LEMMA CountedMove ==
    ASSUME IInv, NEW r \in Readers, UNCHANGED <<super_version, old>>,
           \A s \in Readers \ {r} : cached'[s] = cached[s] /\ pin'[s] = pin[s],
           \A v \in Versions :
               refs'[v] = refs[v] + One(cached'[r], v) - One(cached[r], v)
                                  + One(pin'[r], v) - One(pin[r], v)
    PROVE  Counted'
<1>1. \A v : /\ Count(cached, v)' = Count(cached, v) + One(cached'[r], v) - One(cached[r], v)
             /\ Count(pin, v)' = Count(pin, v) + One(pin'[r], v) - One(pin[r], v)
    <2>1. ASSUME NEW f, NEW g, \A s \in Readers \ {r} : g[s] = f[s]
          PROVE  \A v : Count(g, v) = Count(f, v) + One(g[r], v) - One(f[r], v)
        BY <2>1, CountChange DEF One
    <2>2. /\ \A s \in Readers \ {r} : cached'[s] = cached[s]
          /\ \A s \in Readers \ {r} : pin'[s] = pin[s]
        BY Zenon
    <2>4. \A v : Count(cached', v) = Count(cached, v) + One(cached'[r], v)
                                                      - One(cached[r], v)
        BY <2>1, <2>2, Zenon
    <2>5. \A v : Count(pin', v) = Count(pin, v) + One(pin'[r], v) - One(pin[r], v)
        BY <2>1, <2>2, Zenon
    <2>3. \A v : Count(cached, v)' = Count(cached', v) /\ Count(pin, v)' = Count(pin', v)
        BY Zenon DEF Count
    <2> QED BY <2>3, <2>4, <2>5, Zenon
<1>2. \A v : Owned(v)' = Owned(v) /\ Owned(v) \in Nat
    BY Zenon DEF Owned
<1>3. \A v : Count(cached, v) \in Nat /\ Count(pin, v) \in Nat
    BY CountPositive, Zenon
<1>4. \A u, v : One(u, v) \in Nat
    BY Zenon DEF One
<1>5. \A v \in Versions : refs[v] = Count(cached, v) + Count(pin, v) + Owned(v)
    BY Zenon DEF IInv, Counted
<1>6. ASSUME NEW v \in Versions
      PROVE  refs'[v] = Count(cached, v)' + Count(pin, v)' + Owned(v)'
    BY <1>1, <1>2, <1>3, <1>4, <1>5
<1> QED BY <1>6, Zenon DEF Counted

\* A step that moves no reference of a thread keeps them counted.
LEMMA CountedStill ==
    ASSUME IInv, UNCHANGED <<super_version, old, refs, pin>>,
           \A s \in Readers : cached'[s] = cached[s]
    PROVE  Counted'
<1>1. \A v : Count(cached, v)' = Count(cached, v)
    <2>1. \A v : Count(cached', v) = Count(cached, v) BY CountSame, Zenon
    <2> QED BY <2>1, Zenon DEF Count
<1>2. \A v : Count(pin, v)' = Count(pin, v) /\ Owned(v)' = Owned(v)
    BY Zenon DEF Count, Owned
<1> QED BY <1>1, <1>2, Zenon DEF Counted, IInv

\* Every step of a thread keeps every reference counted.
LEMMA ReadCounted ==
    ASSUME IInv, NEW r \in Readers, Read(r)
    PROVE  Counted'
<1>0. TypeOK /\ Installing /\ (\A s \in Readers : Slot(s)) BY Zenon DEF IInv
<1>a. TypeOK' BY TypeStep, Zenon DEF Next
<1>b. UNCHANGED <<super_version, old, installer, todo, scraped>>
    BY Zenon DEF Read, SwapIn, CheckNumber, UnrefStale, Acquire, Return, Release, Dispose, Pin,
       ReturnPinned, Unpin, ThreadExit, installVars
<1>c. \A u \in Versions :
          /\ Ref(u) => \A v \in Versions : refs'[v] = refs[v] + One(u, v)
          /\ Unref(u) => \A v \in Versions : refs'[v] = refs[v] - One(u, v)
    BY <1>0 DEF TypeOK, Ref, Unref, One
<1>d. /\ pc[r] \notin {"idle", "dispose"} => local_sv[r] \notin Versions
      /\ pc[r] \notin {"idle", "dispose", "acquire", "cleanup"} => scraped[r] = 0
      /\ installer = "idle" \/ local_sv[r] \in Versions => scraped[r] = 0
      /\ kSVInUse \notin Versions /\ 0 \notin Versions
    BY <1>0, InUseIsAMark DEF Slot, Versions, kSVObsolete, Recent
<1>e. /\ Holding(r) => sv[r] \in Versions
      /\ pin[r] # 0 => pin[r] \in Versions
      /\ pc[r] = "idle" /\ local_sv[r] # kSVObsolete => local_sv[r] \in Versions
    BY <1>0, Zenon DEF TypeOK, Slot
<1>1. CASE SwapIn(r)
    <2>1. \A s \in Readers : cached'[s] = cached[s]
        BY <1>1, <1>0, <1>b, InUseIsAMark DEF SwapIn, cached, Holding, TypeOK, Slot,
           kSVObsolete, Versions, CompareAndSwap, Recent, Installing
    <2> QED BY <1>1, <1>b, <2>1, CountedStill, Zenon DEF SwapIn, installVars
<1>2. CASE CheckNumber(r)
    <2>1. \A s \in Readers : cached'[s] = cached[s]
        BY <1>2, <1>0, <1>b, InUseIsAMark DEF CheckNumber, cached, Holding, TypeOK,
           Slot, kSVObsolete, Versions, CompareAndSwap, Recent, Installing
    <2> QED BY <1>2, <1>b, <2>1, CountedStill, Zenon DEF CheckNumber, installVars
<1>3. CASE Return(r)
    <2>1. \A s \in Readers : cached'[s] = cached[s]
        BY <1>3, <1>0, <1>b, InUseIsAMark DEF Return, cached, Holding, TypeOK, Slot,
           kSVObsolete, Versions, CompareAndSwap, Recent, Installing
    <2> QED BY <1>3, <1>b, <2>1, CountedStill, Zenon DEF Return, installVars
<1>4. CASE Dispose(r)
    <2>1. \A s \in Readers : cached'[s] = cached[s]
        BY <1>4, <1>0, <1>b, InUseIsAMark, Zenon DEF Dispose, cached, Holding, TypeOK, Slot,
           kSVObsolete, Versions, CompareAndSwap, Recent, Installing
    <2> QED BY <1>4, <1>b, <2>1, CountedStill, Zenon DEF Dispose, installVars
<1>5. CASE UnrefStale(r)
    <2>1. \A s \in Readers \ {r} : cached'[s] = cached[s] /\ pin'[s] = pin[s]
        BY <1>5, <1>0, <1>b, Zenon DEF UnrefStale, cached, Holding, TypeOK, readVars
    <2>2. cached[r] = sv[r] /\ cached'[r] = 0 /\ pin[r] = pin[r] /\ pin'[r] = pin[r]
        BY <1>5, <1>0, <1>b, <1>d, <1>e, Zenon DEF UnrefStale, cached, Holding, TypeOK,
           kSVObsolete, MutexFree, Slot, readVars
    <2>3. \A v \in Versions : refs'[v] = refs[v] - One(sv[r], v)
        BY <1>5, <1>0, <1>c, <1>e, Zenon DEF UnrefStale, Holding, TypeOK
    <2>4. \A u, v : One(u, v) \in Nat /\ (v \in Versions => One(0, v) = 0)
        BY DEF One, Versions
    <2> QED BY <1>0, <1>b, <2>1, <2>2, <2>3, <2>4, CountedMove DEF TypeOK
<1>6. CASE Acquire(r)
    <2>1. \A s \in Readers \ {r} : cached'[s] = cached[s] /\ pin'[s] = pin[s]
        BY <1>6, <1>0, <1>b, Zenon DEF Acquire, cached, Holding, TypeOK, readVars
    <2>2. cached[r] = 0 /\ cached'[r] = super_version /\ pin[r] = pin[r] /\ pin'[r] = pin[r]
        BY <1>6, <1>0, <1>b, <1>d, <1>e, Zenon DEF Acquire, cached, Holding, TypeOK,
           kSVObsolete, MutexFree, Slot, readVars
    <2>3. \A v \in Versions : refs'[v] = refs[v] + One(super_version, v)
        BY <1>6, <1>0, <1>c, <1>e, Zenon DEF Acquire, Holding, TypeOK
    <2>4. \A u, v : One(u, v) \in Nat /\ (v \in Versions => One(0, v) = 0)
        BY DEF One, Versions
    <2> QED BY <1>0, <1>b, <2>1, <2>2, <2>3, <2>4, CountedMove DEF TypeOK
<1>7. CASE Release(r)
    <2>1. \A s \in Readers \ {r} : cached'[s] = cached[s] /\ pin'[s] = pin[s]
        BY <1>7, <1>0, <1>b, Zenon DEF Release, cached, Holding, TypeOK, readVars
    <2>2. cached[r] = sv[r] /\ cached'[r] = 0 /\ pin[r] = pin[r] /\ pin'[r] = pin[r]
        BY <1>7, <1>0, <1>b, <1>d, <1>e, Zenon DEF Release, cached, Holding, TypeOK,
           kSVObsolete, MutexFree, Slot, readVars
    <2>3. \A v \in Versions : refs'[v] = refs[v] - One(sv[r], v)
        BY <1>7, <1>0, <1>c, <1>e, Zenon DEF Release, Holding, TypeOK
    <2>4. \A u, v : One(u, v) \in Nat /\ (v \in Versions => One(0, v) = 0)
        BY DEF One, Versions
    <2> QED BY <1>0, <1>b, <2>1, <2>2, <2>3, <2>4, CountedMove DEF TypeOK
<1>8. CASE Pin(r)
    <2>1. \A s \in Readers \ {r} : cached'[s] = cached[s] /\ pin'[s] = pin[s]
        BY <1>8, <1>0, <1>b, Zenon DEF Pin, cached, Holding, TypeOK, readVars
    <2>2. cached[r] = sv[r] /\ cached'[r] = sv[r] /\ pin[r] = 0 /\ pin'[r] = sv[r]
        BY <1>8, <1>0, <1>b, <1>d, <1>e, Zenon DEF Pin, cached, Holding, TypeOK, kSVObsolete,
           MutexFree, Slot, readVars
    <2>3. \A v \in Versions : refs'[v] = refs[v] + One(sv[r], v)
        BY <1>8, <1>0, <1>c, <1>e, Zenon DEF Pin, Holding, TypeOK
    <2>4. \A u, v : One(u, v) \in Nat /\ (v \in Versions => One(0, v) = 0)
        BY DEF One, Versions
    <2> QED BY <1>0, <1>b, <2>1, <2>2, <2>3, <2>4, CountedMove DEF TypeOK
<1>9. CASE Unpin(r)
    <2>1. \A s \in Readers \ {r} : cached'[s] = cached[s] /\ pin'[s] = pin[s]
        BY <1>9, <1>0, <1>b, Zenon DEF Unpin, cached, Holding, TypeOK, readVars
    <2>2. cached[r] = cached[r] /\ cached'[r] = cached[r] /\ pin[r] = pin[r] /\ pin'[r] = 0
        BY <1>9, <1>0, <1>b, <1>d, <1>e, Zenon DEF Unpin, cached, Holding, TypeOK, kSVObsolete,
           MutexFree, Slot, readVars
    <2>3. \A v \in Versions : refs'[v] = refs[v] - One(pin[r], v)
        BY <1>9, <1>0, <1>c, <1>e, Zenon DEF Unpin, Holding, TypeOK
    <2>4. \A u, v : One(u, v) \in Nat /\ (v \in Versions => One(0, v) = 0)
        BY DEF One, Versions
    <2> QED BY <1>0, <1>b, <2>1, <2>2, <2>3, <2>4, CountedMove DEF TypeOK
<1>10. CASE ThreadExit(r)
    <2>1. \A s \in Readers \ {r} : cached'[s] = cached[s] /\ pin'[s] = pin[s]
        BY <1>10, <1>0, <1>b, Zenon DEF ThreadExit, cached, Holding, TypeOK, readVars
    <2>2. cached[r] = local_sv[r] /\ cached'[r] = 0 /\ pin[r] = pin[r] /\ pin'[r] = pin[r]
        BY <1>10, <1>0, <1>b, <1>d, <1>e, Zenon DEF ThreadExit, cached, Holding, TypeOK,
           kSVObsolete, MutexFree, Slot, readVars
    <2>3. \A v \in Versions : refs'[v] = refs[v] - One(local_sv[r], v)
        BY <1>10, <1>0, <1>c, <1>e, Zenon DEF ThreadExit, Holding, TypeOK
    <2>4. \A u, v : One(u, v) \in Nat /\ (v \in Versions => One(0, v) = 0)
        BY DEF One, Versions
    <2> QED BY <1>0, <1>b, <2>1, <2>2, <2>3, <2>4, CountedMove DEF TypeOK
<1>11. CASE ReturnPinned(r) /\ CompareAndSwap(r)
    <2>1. \A s \in Readers : cached'[s] = cached[s]
        BY <1>11, <1>0, <1>b, InUseIsAMark DEF ReturnPinned, cached, Holding, TypeOK, Slot, kSVObsolete, Versions,
           CompareAndSwap
    <2> QED BY <1>11, <1>b, <2>1, CountedStill, Zenon DEF ReturnPinned
<1>12. CASE ReturnPinned(r) /\ ~CompareAndSwap(r)
    <2>1. \A s \in Readers \ {r} : cached'[s] = cached[s] /\ pin'[s] = pin[s]
        BY <1>12, <1>0, <1>b, Zenon DEF ReturnPinned, cached, Holding, TypeOK
    <2>2. cached[r] = sv[r] /\ cached'[r] = 0 /\ pin'[r] = pin[r]
        BY <1>12, <1>0, <1>b, InUseIsAMark, Zenon DEF ReturnPinned, cached, Holding, TypeOK, Slot, kSVObsolete, Versions, CompareAndSwap
    <2>3. \A v \in Versions : refs'[v] = refs[v] - One(sv[r], v)
        BY <1>12, <1>c, <1>e, Zenon DEF ReturnPinned, Holding
    <2>4. \A u, v : One(u, v) \in Nat /\ (v \in Versions => One(0, v) = 0)
        BY DEF One, Versions
    <2> QED BY <1>0, <1>b, <2>1, <2>2, <2>3, <2>4, CountedMove DEF TypeOK
<1> QED
    BY <1>1, <1>2, <1>3, <1>4, <1>5, <1>6, <1>7, <1>8, <1>9, <1>10, <1>11, <1>12, Zenon DEF
       Read

\* So does every step of an installation.
LEMMA InstallCounted ==
    ASSUME IInv, Install
    PROVE  Counted'
<1>0. TypeOK /\ Installing /\ (\A s \in Readers : Slot(s)) BY Zenon DEF IInv
<1>1. CASE InstallSuperVersion
    <2> DEFINE n == super_version + 1
    <2>1. \A s \in Readers : cached'[s] = cached[s]
        BY <1>1, <1>0, Zenon DEF InstallSuperVersion, cached, Holding, readVars
    <2>2. \A v : Count(cached, v)' = Count(cached, v) /\ Count(pin, v)' = Count(pin, v)
        <3>1. \A v : Count(cached', v) = Count(cached, v) BY <2>1, CountSame, Zenon
        <3> QED BY <1>1, <3>1, Zenon DEF Count, InstallSuperVersion, readVars
    <2>3. n \in Versions /\ refs[n] = 0
        <3>1. n \in Versions /\ ~(n <= super_version)
            BY <1>1, <1>0, MaxVersionPositive DEF InstallSuperVersion, TypeOK, Versions
        <3>2. refs[n] \in Nat BY <1>0, <3>1, Zenon DEF TypeOK
        <3>3. ~(refs[n] > 0)
            <4> HIDE DEF n
            <4> QED BY <3>1, Zenon DEF IInv, Alive
        <3> QED BY <3>1, <3>2, <3>3
    <2>4. Count(cached, n) = 0 /\ Count(pin, n) = 0
        BY <2>3, CountPositive DEF IInv, Counted, Owned
    <2>5. \A v \in Versions : Owned(v)' = IF v = n THEN 1 ELSE Owned(v)
        BY <1>1, <1>0 DEF InstallSuperVersion, Owned, MutexFree, Installing, Versions
    <2>6. refs'[n] = 1 /\ \A v \in Versions \ {n} : refs'[v] = refs[v]
        BY <1>1, <1>0, <2>3, Zenon DEF InstallSuperVersion, TypeOK
    <2>7. \A v \in Versions : refs[v] = Count(cached, v) + Count(pin, v) + Owned(v)
        BY Zenon DEF IInv, Counted
    <2> HIDE DEF n
    <2>8. ASSUME NEW v \in Versions
          PROVE  refs'[v] = Count(cached, v)' + Count(pin, v)' + Owned(v)'
        BY <2>2, <2>4, <2>5, <2>6, <2>7
    <2> QED BY <2>8, Zenon DEF Counted
<1>2. CASE BumpNumber
    <2>1. \A s \in Readers : cached'[s] = cached[s]
        BY <1>2, Zenon DEF BumpNumber, cached, Holding, readVars
    <2> QED BY <1>2, <2>1, CountedStill, Zenon DEF BumpNumber, readVars
<1>3. CASE UnrefOld
    <2>1. \A s \in Readers : cached'[s] = cached[s]
        BY <1>3, Zenon DEF UnrefOld, cached, Holding, readVars
    <2>2. \A v : Count(cached, v)' = Count(cached, v) /\ Count(pin, v)' = Count(pin, v)
        <3>1. \A v : Count(cached', v) = Count(cached, v) BY <2>1, CountSame, Zenon
        <3> QED BY <1>3, <3>1, Zenon DEF Count, UnrefOld, readVars
    <2>3. old \in Versions /\ old # super_version
        BY <1>3, <1>0 DEF UnrefOld, Installing, TypeOK, Versions
    <2>4. \A v \in Versions : Owned(v)' = Owned(v) - One(old, v) /\ Owned(v) \in Nat
        BY <1>3, <1>0, <2>3 DEF UnrefOld, Owned, One, Versions
    <2>5. \A v \in Versions : refs'[v] = refs[v] - One(old, v) /\ One(old, v) \in Nat
        BY <1>3, <1>0, <2>3 DEF UnrefOld, Unref, TypeOK, One
    <2>6. \A v : Count(cached, v) \in Nat /\ Count(pin, v) \in Nat
        BY CountPositive, Zenon
    <2>7. \A v \in Versions : refs[v] = Count(cached, v) + Count(pin, v) + Owned(v)
        BY Zenon DEF IInv, Counted
    <2>8. ASSUME NEW v \in Versions
          PROVE  refs'[v] = Count(cached, v)' + Count(pin, v)' + Owned(v)'
        BY <2>2, <2>4, <2>5, <2>6, <2>7
    <2> QED BY <2>8, Zenon DEF Counted
<1>4. ASSUME NEW r \in Readers, Scrape(r) PROVE Counted'
    <2>1. \A s \in Readers : cached'[s] = cached[s]
        BY <1>4, <1>0, InUseIsAMark
           DEF Scrape, cached, Holding, readVars, TypeOK, Slot, Versions, kSVObsolete
    <2> QED BY <1>4, <2>1, CountedStill, Zenon DEF Scrape, readVars
<1>5. ASSUME NEW r \in Readers, UnrefScraped(r) PROVE Counted'
    <2>1. \A s \in Readers \ {r} : cached'[s] = cached[s] /\ pin'[s] = pin[s]
        BY <1>5, <1>0, Zenon DEF UnrefScraped, cached, Holding, readVars, TypeOK
    <2>2. cached[r] = scraped[r] /\ cached'[r] = 0 /\ pin'[r] = pin[r]
        BY <1>5, <1>0, InUseIsAMark, Zenon
           DEF UnrefScraped, cached, Holding, readVars, TypeOK, Slot, Recent
    <2>3. \A v \in Versions : refs'[v] = refs[v] - One(scraped[r], v)
        BY <1>5, <1>0 DEF UnrefScraped, Unref, One, TypeOK, Versions
    <2>4. \A u, v : One(u, v) \in Nat /\ (v \in Versions => One(0, v) = 0)
        BY DEF One, Versions
    <2>5. UNCHANGED <<super_version, old>>
        BY <1>5, Zenon DEF UnrefScraped
    <2> QED BY <1>0, <2>1, <2>2, <2>3, <2>4, <2>5, CountedMove DEF TypeOK
<1> QED BY <1>1, <1>2, <1>3, <1>4, <1>5, Zenon DEF Install

-----------------------------------------------------------------------------
\* What is referenced is alive, what is not has one thread to clean it up.
Tidy == Alive /\ CleanedOnce /\ NoLeak

\* Every step of a thread keeps it so.
LEMMA ReadTidy ==
    ASSUME IInv, NEW r \in Readers, Read(r)
    PROVE  Tidy'
<1>0. TypeOK /\ Installing /\ Alive /\ CleanedOnce /\ NoLeak BY Zenon DEF IInv
<1>a. /\ Holding(r) => sv[r] \in Versions /\ refs[sv[r]] > 0
      /\ pin[r] # 0 => pin[r] \in Versions /\ refs[pin[r]] > 0
      /\ pc[r] = "idle" /\ local_sv[r] # kSVObsolete =>
             local_sv[r] \in Versions /\ refs[local_sv[r]] > 1
      /\ pc[r] = "return" => refs[sv[r]] > 1
      /\ refs[super_version] > 0 /\ super_version \in Versions
    <2>1. Slot(r) BY Zenon DEF IInv
    <2> QED BY <1>0, <2>1, Referenced, Zenon DEF TypeOK, Slot
<1>b. \A s \in Readers : pc[s] \in {"cleanup", "dispose"} => sv[s] \in Versions
    BY <1>0, Zenon DEF CleanedOnce, TypeOK
<1>c. \A v \in Versions : refs[v] \in Nat
    BY <1>0, Zenon DEF TypeOK
<1>1. CASE SwapIn(r)
    <2>1. Alive'
        BY <1>1, <1>0, <1>a, <1>b, <1>c, Zenon DEF SwapIn, Alive, CleanedOnce, NoLeak, TypeOK,
           installVars
    <2>2. CleanedOnce'
        BY <1>1, <1>0, <1>a, <1>b, <1>c DEF SwapIn, Alive, CleanedOnce, NoLeak, TypeOK,
           installVars
    <2>3. NoLeak'
        BY <1>1, <1>0, <1>a, <1>b, <1>c, Zenon DEF SwapIn, Alive, CleanedOnce, NoLeak, TypeOK,
           installVars
    <2> QED BY <2>1, <2>2, <2>3, Zenon DEF Tidy
<1>2. CASE CheckNumber(r)
    <2>1. Alive'
        BY <1>2, <1>0, <1>a, <1>b, <1>c DEF CheckNumber, Alive, CleanedOnce, NoLeak,
           TypeOK, installVars
    <2>2. CleanedOnce'
        BY <1>2, <1>0, <1>a, <1>b, <1>c DEF CheckNumber, Alive, CleanedOnce, NoLeak,
           TypeOK, installVars
    <2>3. NoLeak'
        BY <1>2, <1>0, <1>a, <1>b, <1>c, Zenon DEF CheckNumber, Alive, CleanedOnce, NoLeak,
           TypeOK, installVars
    <2> QED BY <2>1, <2>2, <2>3, Zenon DEF Tidy
<1>3. CASE UnrefStale(r)
    <2>1. Alive'
        BY <1>3, <1>0, <1>a, <1>b, <1>c DEF UnrefStale, Unref, LastRef, Holding, Alive,
           CleanedOnce, NoLeak, TypeOK, installVars
    <2>2. CleanedOnce'
        BY <1>3, <1>0, <1>a, <1>b, <1>c DEF UnrefStale, Unref, LastRef, Holding, Alive,
           CleanedOnce, NoLeak, TypeOK, installVars
    <2>3. NoLeak'
        BY <1>3, <1>0, <1>a, <1>b, <1>c DEF UnrefStale, Unref, LastRef, Holding, Alive,
           CleanedOnce, NoLeak, TypeOK, installVars
    <2> QED BY <2>1, <2>2, <2>3, Zenon DEF Tidy
<1>4. CASE Acquire(r)
    <2>1. Alive'
        BY <1>4, <1>0, <1>a, <1>b, <1>c DEF Acquire, Ref, Alive, CleanedOnce, NoLeak,
           TypeOK, installVars
    <2>2. CleanedOnce'
        BY <1>4, <1>0, <1>a, <1>b, <1>c DEF Acquire, Ref, Alive, CleanedOnce, NoLeak,
           TypeOK, installVars
    <2>3. NoLeak'
        BY <1>4, <1>0, <1>a, <1>b, <1>c DEF Acquire, Ref, Alive, CleanedOnce, NoLeak,
           TypeOK, installVars
    <2> QED BY <2>1, <2>2, <2>3, Zenon DEF Tidy
<1>5. CASE Return(r)
    <2>1. Alive'
        BY <1>5, <1>0, <1>a, <1>b, <1>c DEF Return, Alive, CleanedOnce, NoLeak, TypeOK,
           installVars
    <2>2. CleanedOnce'
        BY <1>5, <1>0, <1>a, <1>b, <1>c DEF Return, Alive, CleanedOnce, NoLeak, TypeOK,
           installVars
    <2>3. NoLeak'
        BY <1>5, <1>0, <1>a, <1>b, <1>c DEF Return, Alive, CleanedOnce, NoLeak, TypeOK,
           installVars
    <2> QED BY <2>1, <2>2, <2>3, Zenon DEF Tidy
<1>6. CASE Release(r)
    <2>1. Alive'
        BY <1>6, <1>0, <1>a, <1>b, <1>c DEF Release, Unref, LastRef, Holding, Alive,
           CleanedOnce, NoLeak, TypeOK, installVars
    <2>2. CleanedOnce'
        BY <1>6, <1>0, <1>a, <1>b, <1>c DEF Release, Unref, LastRef, Holding, Alive,
           CleanedOnce, NoLeak, TypeOK, installVars
    <2>3. NoLeak'
        BY <1>6, <1>0, <1>a, <1>b, <1>c DEF Release, Unref, LastRef, Holding, Alive,
           CleanedOnce, NoLeak, TypeOK, installVars
    <2> QED BY <2>1, <2>2, <2>3, Zenon DEF Tidy
<1>7. CASE Dispose(r)
    <2>1. Alive'
        BY <1>7, <1>0, <1>a, <1>b, <1>c DEF Dispose, Alive, CleanedOnce, NoLeak, TypeOK,
           installVars
    <2>2. CleanedOnce'
        BY <1>7, <1>0, <1>a, <1>b, <1>c DEF Dispose, Alive, CleanedOnce, NoLeak, TypeOK,
           installVars
    <2>3. NoLeak'
        BY <1>7, <1>0, <1>a, <1>b, <1>c, Zenon DEF Dispose, Alive, CleanedOnce, NoLeak, TypeOK,
           installVars
    <2> QED BY <2>1, <2>2, <2>3, Zenon DEF Tidy
<1>8. CASE Pin(r)
    <2>1. Alive'
        BY <1>8, <1>0, <1>a, <1>b, <1>c DEF Pin, Ref, Holding, Alive, CleanedOnce,
           NoLeak, TypeOK, installVars
    <2>2. CleanedOnce'
        BY <1>8, <1>0, <1>a, <1>b, <1>c DEF Pin, Ref, Holding, Alive, CleanedOnce,
           NoLeak, TypeOK, installVars
    <2>3. NoLeak'
        BY <1>8, <1>0, <1>a, <1>b, <1>c DEF Pin, Ref, Holding, Alive, CleanedOnce,
           NoLeak, TypeOK, installVars
    <2> QED BY <2>1, <2>2, <2>3, Zenon DEF Tidy
<1>9. CASE ReturnPinned(r)
    <2>1. Alive'
        BY <1>9, <1>0, <1>a, <1>b, <1>c DEF ReturnPinned, Unref, Alive, CleanedOnce,
           NoLeak, TypeOK, installVars
    <2>2. CleanedOnce'
        BY <1>9, <1>0, <1>a, <1>b, <1>c DEF ReturnPinned, Unref, Alive, CleanedOnce,
           NoLeak, TypeOK, installVars
    <2>3. NoLeak'
        BY <1>9, <1>0, <1>a, <1>b, <1>c DEF ReturnPinned, Unref, Alive, CleanedOnce,
           NoLeak, TypeOK, installVars
    <2> QED BY <2>1, <2>2, <2>3, Zenon DEF Tidy
<1>10. CASE Unpin(r)
    <2>1. Alive'
        BY <1>10, <1>0, <1>a, <1>b, <1>c DEF Unpin, Unref, LastRef, Alive, CleanedOnce,
           NoLeak, TypeOK, installVars
    <2>2. CleanedOnce'
        BY <1>10, <1>0, <1>a, <1>b, <1>c DEF Unpin, Unref, LastRef, Alive, CleanedOnce,
           NoLeak, TypeOK, installVars
    <2>3. NoLeak'
        BY <1>10, <1>0, <1>a, <1>b, <1>c DEF Unpin, Unref, LastRef, Alive, CleanedOnce,
           NoLeak, TypeOK, installVars
    <2> QED BY <2>1, <2>2, <2>3, Zenon DEF Tidy
<1>11. CASE ThreadExit(r)
    <2>1. Alive'
        BY <1>11, <1>0, <1>a, <1>b, <1>c DEF ThreadExit, Unref, readVars, Alive,
           CleanedOnce, NoLeak, TypeOK, installVars
    <2>2. CleanedOnce'
        BY <1>11, <1>0, <1>a, <1>b, <1>c, Zenon DEF ThreadExit, Unref, readVars, Alive,
           CleanedOnce, NoLeak, TypeOK, installVars
    <2>3. NoLeak'
        BY <1>11, <1>0, <1>a, <1>b, <1>c DEF ThreadExit, Unref, readVars, Alive,
           CleanedOnce, NoLeak, TypeOK, installVars
    <2> QED BY <2>1, <2>2, <2>3, Zenon DEF Tidy
<1> QED
    BY <1>1, <1>2, <1>3, <1>4, <1>5, <1>6, <1>7, <1>8, <1>9, <1>10, <1>11, Zenon DEF Read

\* So does every step of an installation.
LEMMA InstallTidy ==
    ASSUME IInv, Install
    PROVE  Tidy'
<1>0. TypeOK /\ Installing /\ Alive /\ CleanedOnce /\ NoLeak BY Zenon DEF IInv
<1>a. /\ \A r \in Readers :
             scraped[r] # 0 => scraped[r] \in Versions /\ refs[scraped[r]] > 1
      /\ old # 0 => old \in Versions /\ refs[old] > 0
    BY Referenced, Zenon
<1>b. \A s \in Readers : pc[s] \in {"cleanup", "dispose"} => sv[s] \in Versions
    BY <1>0, Zenon DEF CleanedOnce, TypeOK
<1>c. \A v \in Versions : refs[v] \in Nat
    BY <1>0, Zenon DEF TypeOK
<1>1. CASE InstallSuperVersion
    <2>1. Alive'
        BY <1>1, <1>0, <1>a, <1>b, <1>c DEF InstallSuperVersion, readVars, Versions,
           Alive, CleanedOnce, NoLeak, TypeOK
    <2>2. CleanedOnce'
        BY <1>1, <1>0, <1>a, <1>b, <1>c, Zenon DEF InstallSuperVersion, readVars, Versions,
           Alive, CleanedOnce, NoLeak, TypeOK
    <2>3. NoLeak'
        <3> DEFINE n == super_version + 1
        <3>1. n \in Versions /\ live' = live \cup {n} /\ UNCHANGED <<pc, sv>>
            BY <1>1, <1>0, MaxVersionPositive
               DEF InstallSuperVersion, readVars, Versions, TypeOK
        <3>2. refs'[n] = 1 /\ \A v \in Versions \ {n} : refs'[v] = refs[v]
            BY <1>1, <1>0, <3>1, Zenon DEF InstallSuperVersion, TypeOK
        <3>3. \A v \in live : v \in Versions \ {n}
            BY <1>0 DEF Alive, TypeOK, Versions
        <3> HIDE DEF n
        <3> QED BY <1>0, <3>1, <3>2, <3>3 DEF NoLeak
    <2> QED BY <2>1, <2>2, <2>3, Zenon DEF Tidy
<1>2. CASE BumpNumber
    <2>1. Alive'
        BY <1>2, <1>0, <1>a, <1>b, <1>c, Zenon DEF BumpNumber, readVars, Alive, CleanedOnce,
           NoLeak, TypeOK
    <2>2. CleanedOnce'
        BY <1>2, <1>0, <1>a, <1>b, <1>c, Zenon DEF BumpNumber, readVars, Alive, CleanedOnce,
           NoLeak, TypeOK
    <2>3. NoLeak'
        BY <1>2, <1>0, <1>a, <1>b, <1>c, Zenon DEF BumpNumber, readVars, Alive, CleanedOnce,
           NoLeak, TypeOK
    <2> QED BY <2>1, <2>2, <2>3, Zenon DEF Tidy
<1>3. CASE UnrefOld
    <2>1. Alive'
        BY <1>3, <1>0, <1>a, <1>b, <1>c DEF UnrefOld, readVars, Unref, LastRef,
           Installing, Alive, CleanedOnce, NoLeak, TypeOK
    <2>2. CleanedOnce'
        BY <1>3, <1>0, <1>a, <1>b, <1>c DEF UnrefOld, readVars, Unref, LastRef,
           Installing, Alive, CleanedOnce, NoLeak, TypeOK
    <2>3. NoLeak'
        BY <1>3, <1>0, <1>a, <1>b, <1>c DEF UnrefOld, readVars, Unref, LastRef,
           Installing, Alive, CleanedOnce, NoLeak, TypeOK
    <2> QED BY <2>1, <2>2, <2>3, Zenon DEF Tidy
<1>4. ASSUME NEW r \in Readers, Scrape(r) PROVE Tidy'
    <2>1. Alive'
        BY <1>4, <1>0, <1>a, <1>b, <1>c, Zenon DEF Scrape, readVars, Alive, CleanedOnce,
           NoLeak, TypeOK
    <2>2. CleanedOnce'
        BY <1>4, <1>0, <1>a, <1>b, <1>c, Zenon DEF Scrape, readVars, Alive, CleanedOnce,
           NoLeak, TypeOK
    <2>3. NoLeak'
        BY <1>4, <1>0, <1>a, <1>b, <1>c, Zenon DEF Scrape, readVars, Alive, CleanedOnce,
           NoLeak, TypeOK
    <2> QED BY <2>1, <2>2, <2>3, Zenon DEF Tidy
<1>5. ASSUME NEW r \in Readers, UnrefScraped(r) PROVE Tidy'
    <2>1. Alive'
        BY <1>5, <1>0, <1>a, <1>b, <1>c DEF UnrefScraped, readVars, Unref, Alive,
           CleanedOnce, NoLeak, TypeOK
    <2>2. CleanedOnce'
        BY <1>5, <1>0, <1>a, <1>b, <1>c, Zenon DEF UnrefScraped, readVars, Unref, Alive,
           CleanedOnce, NoLeak, TypeOK
    <2>3. NoLeak'
        BY <1>5, <1>0, <1>a, <1>b, <1>c DEF UnrefScraped, readVars, Unref, Alive,
           CleanedOnce, NoLeak, TypeOK
    <2> QED BY <2>1, <2>2, <2>3, Zenon DEF Tidy
<1> QED BY <1>1, <1>2, <1>3, <1>4, <1>5, Zenon DEF Install

-----------------------------------------------------------------------------
\* The invariant holds at first.
LEMMA InitInvariant == Init => IInv
<1> SUFFICES ASSUME Init PROVE IInv
    BY Zenon
<1>1. TypeOK /\ Installing
    BY MaxVersionPositive DEF Init, TypeOK, Installing, Versions, kSVObsolete
<1>2. \A r \in Readers : Slot(r)
    BY InUseIsAMark DEF Init, Slot, Holding, Versions, kSVObsolete
<1>3. Counted
    <2>1. \A v \in Versions : Count(cached, v) = 0 /\ Count(pin, v) = 0
        <3>1. \A r \in Readers : cached[r] = 0 /\ pin[r] = 0
            BY Zenon DEF Init, cached, Holding, Versions, kSVObsolete
        <3>2. \A v \in Versions : /\ {r \in Readers : cached[r] = v} = {}
                                  /\ {r \in Readers : pin[r] = v} = {}
            BY <3>1 DEF Versions
        <3> QED BY <3>2, FS_EmptySet, Zenon DEF Count
    <2>2. \A v \in Versions : refs[v] = Owned(v)
        BY DEF Init, Owned, Versions
    <2>3. \A v : Owned(v) \in Nat BY Zenon DEF Owned
    <2> QED BY <2>1, <2>2, <2>3 DEF Counted
<1>4. Alive /\ CleanedOnce /\ NoLeak
    BY MaxVersionPositive DEF Init, Alive, CleanedOnce, NoLeak, Versions
<1> QED BY <1>1, <1>2, <1>3, <1>4, Zenon DEF IInv

\* Every step keeps it.
LEMMA NextInvariant == IInv /\ [Next]_vars => IInv'
<1> SUFFICES ASSUME IInv, [Next]_vars PROVE IInv'
    BY Zenon
<1>1. CASE Next
    <2>1. Counted'
        BY <1>1, ReadCounted, InstallCounted, Zenon DEF Next
    <2>2. Tidy'
        BY <1>1, ReadTidy, InstallTidy, Zenon DEF Next
    <2>3. TypeOK' /\ Installing' /\ (\A r \in Readers : Slot(r))'
        BY <1>1, TypeStep, InstallingStep, SlotStep, Zenon
    <2> QED BY <2>1, <2>2, <2>3, Zenon DEF IInv, Tidy
<1>2. CASE UNCHANGED vars
    <2>1. UNCHANGED <<readVars, installVars, refs, live, local_sv>>
        BY <1>2, Zenon DEF vars
    <2>2. \A s \in Readers : cached'[s] = cached[s]
        BY <2>1, Zenon DEF readVars, installVars, cached, Holding
    <2>3. Counted'
        BY <2>1, <2>2, CountedStill, Zenon DEF readVars, installVars
    <2>4. TypeOK' /\ Installing' /\ Alive' /\ CleanedOnce' /\ NoLeak'
        BY <2>1, Zenon DEF IInv, readVars, installVars, TypeOK, Installing, Alive, CleanedOnce,
           NoLeak
    <2>5. \A r \in Readers : Slot(r)'
        BY <2>1 DEF IInv, readVars, installVars, Slot, Recent, Holding
    <2> QED BY <2>3, <2>4, <2>5, Zenon DEF IInv
<1> QED BY <1>1, <1>2, Zenon

\* The invariant holds throughout.
LEMMA Invariance == Spec => []IInv
BY InitInvariant, NextInvariant, PTL DEF Spec

\* For any number of threads and of installations, no thread, iterator or sweep
\* touches a SuperVersion after its Cleanup.
THEOREM SuperVersionsOutliveTheirUse == Spec => []NoUseAfterFree
<1>1. IInv => NoUseAfterFree
    <2> SUFFICES ASSUME IInv PROVE NoUseAfterFree
        BY Zenon
    <2>1. \A v \in Versions : refs[v] > 0 => v \in live
        BY Zenon DEF IInv, Alive
    <2>2. super_version \in Versions /\ refs \in [Versions -> Nat]
        BY Zenon DEF IInv, TypeOK
    <2> QED BY <2>1, <2>2, Referenced DEF NoUseAfterFree
<1> QED BY <1>1, Invariance, PTL

\* Neither the sweep of the slots nor an exiting thread drops a last reference:
\* the assertions !was_last_ref of SuperVersionUnrefHandle and of
\* ResetThreadLocalSuperVersions never fail, and the unchecked Unref of
\* GetReferencedSuperVersion leaks nothing.
THEOREM SlotsNeverOwnTheLast == Spec => []LocalIsNeverLast
<1>1. IInv => LocalIsNeverLast
    BY Referenced, Zenon DEF LocalIsNeverLast
<1> QED BY <1>1, Invariance, PTL

\* A SuperVersion without references always has a thread that will clean it up.
THEOREM NothingLeaks == Spec => []NoLeak
<1>1. IInv => NoLeak
    BY Zenon DEF IInv
<1> QED BY <1>1, Invariance, PTL

\* Only one thread ever does: no SuperVersion goes through Cleanup twice.
THEOREM CleanedUpOnce == Spec => []CleanedOnce
<1>1. IInv => CleanedOnce
    BY Zenon DEF IInv
<1> QED BY <1>1, Invariance, PTL

\* A read that takes no lock still uses a SuperVersion no older than the number
\* published before it began.
THEOREM ReadsAreFresh == Spec => []FreshGet
<1>1. IInv => FreshGet
    BY Zenon DEF IInv, Slot, FreshGet
<1> QED BY <1>1, Invariance, PTL
===============================================================================
