----------------------------- MODULE SuperVersion -----------------------------
(***************************************************************************)
(* The SuperVersions of one column family (column_family.cc): reference    *)
(* counts, and the copy every thread keeps in thread-local storage so that *)
(* a read takes no lock (util/thread_local.cc).  Readers read (GetImpl) or *)
(* pin a SuperVersion in an iterator; one thread at a time installs a new  *)
(* SuperVersion, holding the DB mutex, and sweeps the copies.              *)
(*                                                                         *)
(* A SuperVersion is named by its version_number.  Every access to a       *)
(* reference count, to a thread's slot or to super_version_number_ is an   *)
(* atomic instruction of the code and a step here.  What a reader does     *)
(* under the mutex is one step, possible while no installation is going on.*)
(***************************************************************************)
EXTENDS Naturals, FiniteSets

CONSTANTS
    Readers,        \* threads
    MaxVersion,     \* bound on the SuperVersions installed
    kSVInUse        \* mark in a slot whose SuperVersion is in use

kSVObsolete == 0    \* nullptr

ASSUME ReadersFinite == IsFiniteSet(Readers)
ASSUME MaxVersionPositive == MaxVersion \in Nat \ {0}
ASSUME InUseIsAMark == kSVInUse \notin Nat

Versions == 1 .. MaxVersion

VARIABLES
    super_version,          \* super_version_
    super_version_number,
    refs,                   \* SuperVersion::refs
    live,                   \* allocated and not cleaned up
    local_sv,               \* the slot of every thread
    installer,              \* "idle", "number", "scrape": where InstallSuperVersion is
    old,                    \* old_superversion, 0 when idle
    todo,                   \* threads Scrape has yet to visit
    scraped,                \* sv_ptrs: what it found, by thread
    pc, sv,                 \* every thread's place and local variable
    pin,                    \* the SuperVersion of the thread's iterator, 0 if none
    floor                   \* history: super_version_number when the call began

readVars == <<pc, sv, pin, floor>>
installVars == <<super_version, super_version_number, installer, old, todo, scraped>>
vars == <<readVars, installVars, refs, live, local_sv>>

Init ==
    /\ super_version = 1 /\ super_version_number = 1
    /\ refs = [v \in Versions |-> IF v = 1 THEN 1 ELSE 0]
    /\ live = {1}
    /\ local_sv = [r \in Readers |-> kSVObsolete]
    /\ installer = "idle" /\ old = 0 /\ todo = {}
    /\ scraped = [r \in Readers |-> 0]
    /\ pc = [r \in Readers |-> "idle"]
    /\ sv = [r \in Readers |-> 0]
    /\ pin = [r \in Readers |-> 0]
    /\ floor = [r \in Readers |-> 0]

Ref(v) == refs' = [refs EXCEPT ![v] = @ + 1]

Unref(v) == refs' = [refs EXCEPT ![v] = @ - 1]

\* what Unref returns
LastRef(v) == refs[v] = 1

MutexFree == installer = "idle"

-----------------------------------------------------------------------------
\* flawed: trusts the slot
CheckNothing(r) ==
    /\ pc[r] = "check"
    /\ pc' = [pc EXCEPT ![r] = "use"]
    /\ UNCHANGED <<sv, pin, floor, installVars, refs, live, local_sv>>

\* flawed: ignores that its reference was the last
UnrefNoCleanup(r) ==
    /\ pc[r] = "stale"
    /\ Unref(sv[r])
    /\ pc' = [pc EXCEPT ![r] = "acquire"]
    /\ UNCHANGED <<sv, pin, floor, installVars, live, local_sv>>

\* flawed: looks again instead of dropping the stale SuperVersion
LookAgain(r) ==
    /\ pc[r] = "stale"
    /\ pc' = [pc EXCEPT ![r] = "check"]
    /\ UNCHANGED <<sv, pin, floor, installVars, refs, live, local_sv>>

\* flawed: cleans up whether or not its reference was the last
UnrefAndCleanup(r) ==
    /\ pc[r] = "stale"
    /\ Unref(sv[r])
    /\ pc' = [pc EXCEPT ![r] = "cleanup"]
    /\ UNCHANGED <<sv, pin, floor, installVars, live, local_sv>>

\* flawed: cleans the old one up whoever still refers to it
CleanupOld ==
    /\ installer = "scrape" /\ todo = {} /\ \A r \in Readers : scraped[r] = 0
    /\ Unref(old)
    /\ live' = live \ {old}
    /\ old' = 0
    /\ installer' = "idle"
    /\ UNCHANGED <<readVars, super_version, super_version_number, todo, scraped, local_sv>>

\* flawed: the slot is written without a comparison
AlwaysSwaps(r) == TRUE

(***************************************************************************)
(* GetThreadLocalSuperVersion                                              *)
(***************************************************************************)
SwapIn(r) ==
    /\ pc[r] = "idle"
    /\ sv' = [sv EXCEPT ![r] = local_sv[r]]
    /\ local_sv' = [local_sv EXCEPT ![r] = kSVInUse]
    /\ floor' = [floor EXCEPT ![r] = super_version_number]
    /\ pc' = [pc EXCEPT ![r] = IF local_sv[r] = kSVObsolete THEN "acquire" ELSE "check"]
    /\ UNCHANGED <<pin, installVars, refs, live>>

\* sv->version_number != super_version_number_
CheckNumber(r) ==
    /\ pc[r] = "check"
    /\ pc' = [pc EXCEPT ![r] = IF sv[r] = super_version_number THEN "use" ELSE "stale"]
    /\ UNCHANGED <<sv, pin, floor, installVars, refs, live, local_sv>>

UnrefStale(r) ==
    /\ pc[r] = "stale"
    /\ Unref(sv[r])
    /\ pc' = [pc EXCEPT ![r] = IF LastRef(sv[r]) THEN "cleanup" ELSE "acquire"]
    /\ UNCHANGED <<sv, pin, floor, installVars, live, local_sv>>

\* under the mutex: clean up the stale one if need be, reference the current
Acquire(r) ==
    /\ pc[r] \in {"cleanup", "acquire"} /\ MutexFree
    /\ live' = IF pc[r] = "cleanup" THEN live \ {sv[r]} ELSE live
    /\ Ref(super_version)
    /\ sv' = [sv EXCEPT ![r] = super_version]
    /\ pc' = [pc EXCEPT ![r] = "use"]
    /\ UNCHANGED <<pin, floor, installVars, local_sv>>

(***************************************************************************)
(* ReturnThreadLocalSuperVersion, then CleanupSuperVersion if it failed.   *)
(***************************************************************************)
CompareAndSwap(r) == local_sv[r] = kSVInUse

Return(r) ==
    /\ pc[r] = "use"
    /\ IF CompareAndSwap(r)
       THEN /\ local_sv' = [local_sv EXCEPT ![r] = sv[r]]
            /\ pc' = [pc EXCEPT ![r] = "idle"]
       ELSE /\ pc' = [pc EXCEPT ![r] = "release"]
            /\ UNCHANGED local_sv
    /\ UNCHANGED <<sv, pin, floor, installVars, refs, live>>

Release(r) ==
    /\ pc[r] = "release"
    /\ Unref(sv[r])
    /\ pc' = [pc EXCEPT ![r] = IF LastRef(sv[r]) THEN "dispose" ELSE "idle"]
    /\ UNCHANGED <<sv, pin, floor, installVars, live, local_sv>>

\* Cleanup under the mutex, and delete
Dispose(r) ==
    /\ pc[r] = "dispose" /\ MutexFree
    /\ live' = live \ {sv[r]}
    /\ pc' = [pc EXCEPT ![r] = "idle"]
    /\ UNCHANGED <<sv, pin, floor, installVars, refs, local_sv>>

(***************************************************************************)
(* GetReferencedSuperVersion: one more reference, for an iterator, before  *)
(* the thread's own goes back.  CleanupIteratorState drops it.             *)
(***************************************************************************)
Pin(r) ==
    /\ pc[r] = "use" /\ pin[r] = 0
    /\ Ref(sv[r])
    /\ pin' = [pin EXCEPT ![r] = sv[r]]
    /\ pc' = [pc EXCEPT ![r] = "return"]
    /\ UNCHANGED <<sv, floor, installVars, live, local_sv>>

ReturnPinned(r) ==
    /\ pc[r] = "return"
    /\ IF CompareAndSwap(r)
       THEN /\ local_sv' = [local_sv EXCEPT ![r] = sv[r]]
            /\ UNCHANGED refs
       ELSE /\ Unref(sv[r])
            /\ UNCHANGED local_sv
    /\ pc' = [pc EXCEPT ![r] = "idle"]
    /\ UNCHANGED <<sv, pin, floor, installVars, live>>

Unpin(r) ==
    /\ pc[r] = "idle" /\ pin[r] # 0
    /\ Unref(pin[r])
    /\ pin' = [pin EXCEPT ![r] = 0]
    /\ sv' = [sv EXCEPT ![r] = pin[r]]
    /\ pc' = [pc EXCEPT ![r] = IF LastRef(pin[r]) THEN "dispose" ELSE "idle"]
    /\ UNCHANGED <<floor, installVars, live, local_sv>>

\* OnThreadExit, which excludes Scrape, and SuperVersionUnrefHandle; another
\* thread with an empty slot takes the place of this one
ThreadExit(r) ==
    /\ pc[r] = "idle" /\ local_sv[r] # kSVObsolete
    /\ todo \in {{}, Readers}
    /\ Unref(local_sv[r])
    /\ local_sv' = [local_sv EXCEPT ![r] = kSVObsolete]
    /\ UNCHANGED <<readVars, installVars, live>>

-----------------------------------------------------------------------------
(***************************************************************************)
(* InstallSuperVersion and ResetThreadLocalSuperVersions                   *)
(***************************************************************************)
InstallSuperVersion ==
    /\ MutexFree /\ super_version < MaxVersion
    /\ super_version' = super_version + 1
    /\ refs' = [refs EXCEPT ![super_version + 1] = 1]
    /\ live' = live \cup {super_version + 1}
    /\ old' = super_version
    /\ installer' = "number"
    /\ UNCHANGED <<readVars, super_version_number, todo, scraped, local_sv>>

BumpNumber ==
    /\ installer = "number"
    /\ super_version_number' = super_version_number + 1
    /\ todo' = Readers
    /\ installer' = "scrape"
    /\ UNCHANGED <<readVars, super_version, old, scraped, refs, live, local_sv>>

Scrape(r) ==
    /\ r \in todo
    /\ local_sv' = [local_sv EXCEPT ![r] = kSVObsolete]
    /\ scraped' = [scraped EXCEPT ![r] = IF local_sv[r] = kSVInUse THEN 0 ELSE local_sv[r]]
    /\ todo' = todo \ {r}
    /\ UNCHANGED <<readVars, super_version, super_version_number, installer, old, refs,
                   live>>

UnrefScraped(r) ==
    /\ installer = "scrape" /\ todo = {} /\ scraped[r] # 0
    /\ Unref(scraped[r])
    /\ scraped' = [scraped EXCEPT ![r] = 0]
    /\ UNCHANGED <<readVars, super_version, super_version_number, installer, old, todo,
                   live, local_sv>>

UnrefOld ==
    /\ installer = "scrape" /\ todo = {} /\ \A r \in Readers : scraped[r] = 0
    /\ Unref(old)
    /\ live' = IF LastRef(old) THEN live \ {old} ELSE live
    /\ old' = 0
    /\ installer' = "idle"
    /\ UNCHANGED <<readVars, super_version, super_version_number, todo, scraped, local_sv>>

-----------------------------------------------------------------------------
Read(r) ==
    \/ SwapIn(r) \/ CheckNumber(r) \/ UnrefStale(r) \/ Acquire(r)
    \/ Return(r) \/ Release(r) \/ Dispose(r)
    \/ Pin(r) \/ ReturnPinned(r) \/ Unpin(r) \/ ThreadExit(r)

Install ==
    \/ InstallSuperVersion \/ BumpNumber \/ UnrefOld
    \/ \E r \in Readers : Scrape(r) \/ UnrefScraped(r)

Next == Install \/ \E r \in Readers : Read(r)

\* A thread that began a call goes on with it.  Weak fairness is enough for the
\* mutex because there are finitely many installations.
Fairness ==
    /\ WF_vars(BumpNumber \/ UnrefOld \/ \E r \in Readers : Scrape(r) \/ UnrefScraped(r))
    /\ \A r \in Readers :
           WF_vars(CheckNumber(r) \/ UnrefStale(r) \/ Acquire(r) \/ Return(r)
                   \/ Release(r) \/ Dispose(r) \/ ReturnPinned(r))

Spec == Init /\ [][Next]_vars

FairSpec == Spec /\ Fairness

-----------------------------------------------------------------------------
(***************************************************************************)
(* Properties                                                              *)
(***************************************************************************)

\* Every variable has its type.
TypeOK ==
    /\ super_version \in Versions /\ super_version_number \in Versions
    /\ refs \in [Versions -> Nat]
    /\ live \subseteq Versions
    /\ local_sv \in [Readers -> Versions \cup {kSVObsolete, kSVInUse}]
    /\ installer \in {"idle", "number", "scrape"}
    /\ old \in Versions \cup {0} /\ todo \subseteq Readers
    /\ scraped \in [Readers -> Versions \cup {0}]
    /\ pc \in [Readers -> {"idle", "check", "stale", "cleanup", "acquire", "use",
                           "release", "dispose", "return"}]
    /\ sv \in [Readers -> Versions \cup {0}]
    /\ pin \in [Readers -> Versions \cup {0}]
    /\ floor \in [Readers -> Nat]

\* the thread owns a reference in its variable sv
Holding(r) == pc[r] \in {"check", "stale", "use", "release", "return"}

\* Nobody reads a SuperVersion, or its count, after Cleanup: neither the reader
\* that swapped it out of its slot, nor an iterator, nor the sweep.
NoUseAfterFree ==
    /\ super_version \in live
    /\ \A r \in Readers :
           /\ Holding(r) => sv[r] \in live
           /\ pin[r] # 0 => pin[r] \in live
           /\ scraped[r] # 0 => scraped[r] \in live
           /\ local_sv[r] \in Versions => local_sv[r] \in live

\* "Thread-local SuperVersions can't outlive ColumnFamilyData::super_version_":
\* neither the sweep nor an exiting thread ever drops the last reference, which
\* neither could clean up (the assertions !was_last_ref).
LocalIsNeverLast ==
    \A r \in Readers :
        /\ local_sv[r] \in Versions => refs[local_sv[r]] > 1
        /\ scraped[r] # 0 => refs[scraped[r]] > 1
        /\ pc[r] = "return" => refs[sv[r]] > 1

\* A SuperVersion that is allocated has a reference or a thread about to clean
\* it up: nothing leaks, in particular when the sweep, a stale reader and an
\* iterator drop their references at the same time.
NoLeak ==
    \A v \in live :
        \/ refs[v] > 0
        \/ \E r \in Readers : pc[r] \in {"cleanup", "dispose"} /\ sv[r] = v

\* Exactly one thread cleans a SuperVersion up.
CleanedOnce ==
    \A r \in Readers :
        pc[r] \in {"cleanup", "dispose"} =>
            /\ sv[r] \in live
            /\ \A s \in Readers \ {r} :
                   pc[s] \in {"cleanup", "dispose"} => sv[s] # sv[r]

\* A read uses a SuperVersion at least as new as the number published before
\* the read began, although it took its copy without a lock.
FreshGet == \A r \in Readers : pc[r] = "use" => sv[r] >= floor[r]

\* Every read and every installation comes to its end.
CallsReturn ==
    /\ \A r \in Readers : (pc[r] # "idle") ~> (pc[r] = "idle")
    /\ (installer # "idle") ~> (installer = "idle")
===============================================================================
