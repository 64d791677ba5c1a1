---------------------------- MODULE LockMgrProofs ----------------------------
(***************************************************************************)
(* What TransactionLockMgr and its transactions promise, proved for any    *)
(* finite sets of transactions and keys and any settings: first the types, *)
(* what a step of a transaction comes to, and the life of a transaction;   *)
(* then a section for each invariant.  That lock_cnt is a number is part   *)
(* of CountInv.                                                            *)
(***************************************************************************)
EXTENDS LockMgr, FiniteSetTheorems, TLAPS

-----------------------------------------------------------------------------
(* The types, and the life of a transaction.                               *)

States == {"STARTED", "PREPARED", "AWAITING_PREPARE", "AWAITING_COMMIT", "COMMITED",
           "AWAITING_ROLLBACK", "ROLLEDBACK", "LOCKS_STOLEN"}

Pcs == {"idle", "acquire", "insert", "loop", "wait", "notified", "pass", "unlock",
        "notify", "refused", "prepare", "prepared", "commit", "write", "writeprepared",
        "over", "gone"}

LockInfos == [exclusive : BOOLEAN, txn_ids : SUBSET Txns, expiration_time : Nat]

Requests == [key : Int, exclusive : BOOLEAN, end_time : Int, expire_time_hint : Nat,
             wait_ids : SUBSET Txns, result : {"OK", "Busy", "TimedOut"},
             cv_end_time : Int]

UnLocks == [keys : SUBSET Keys, stripe : Int, tracked : SUBSET Keys,
            state : {"same", "COMMITED", "ROLLEDBACK"},
            next : {"idle", "refused", "over", "gone"}]

LockTypes ==
  /\ config \in Configs /\ now \in Nat
  /\ keys \in [Keys -> LockInfos]
  /\ wait_txn_map \in [Txns -> SUBSET Txns] /\ rev_wait_txn_map \in [Txns -> Int]

TxnTypes ==
  /\ txn_state \in [Txns -> States]
  /\ expiration_time \in [Txns -> Nat] /\ expirable \in SUBSET Txns
  /\ tracked_keys \in [Txns -> [Keys -> {"no", "shared", "exclusive"}]]
  /\ save_point \in [Txns -> [set : {"no", "yes", "popped"}, keys : SUBSET Keys]]

CallTypes ==
  /\ pc \in [Txns -> Pcs]
  /\ request \in [Txns -> Requests] /\ unlocking \in [Txns -> UnLocks]
  /\ \A t \in Txns : Acquiring(t) => request[t].key \in Keys

Types == LockTypes /\ TxnTypes /\ CallTypes

-----------------------------------------------------------------------------
\* The initial state is well typed.
LEMMA InitTypes == Init => Types
<1> SUFFICES ASSUME Init PROVE Types
  BY Zenon
<1>1. config.expiration \in [Txns -> Nat]
  BY ConfigsOK, Zenon DEF Init
<1>2. LockTypes
  BY DEF Init, LockTypes, NotLocked, LockInfos
<1>3. TxnTypes
  BY <1>1, Zenon DEF Init, TxnTypes, States
<1>4. CallTypes
  BY DEF Init, CallTypes, NoRequest, Requests, NoUnLock, UnLocks, Pcs, Acquiring
<1> QED BY <1>2, <1>3, <1>4, Zenon DEF Types

\* The three ways out of AcquireLocked keep the locals of the call well typed.
LEMMA FailsTypes ==
  ASSUME Types, NEW t \in Txns, NEW next \in {"refused", "over"}, Fails(t, next)
  PROVE  /\ pc' = [pc EXCEPT ![t] = pc'[t]] /\ pc'[t] \in {"unlock", next}
         /\ unlocking' \in [Txns -> UnLocks]
<1>1. Tracked(t) \in SUBSET Keys
  BY Zenon DEF Tracked
<1>2. CASE config.batch[t] = {}
  BY <1>2, Zenon DEF Fails, Goto, Types, CallTypes
<1>3. CASE config.batch[t] # {}
  BY <1>1, <1>3, SMTT(30), SMTT(45) DEF Fails, StartUnLock, Types, CallTypes, UnLocks
<1> QED BY <1>2, <1>3, Zenon

\* A refused request leaves the calls well typed and tracks no new key.
LEMMA RefusedTypes ==
  ASSUME Types, NEW t \in Txns, Refused(t)
  PROVE  CallTypes' /\ UNCHANGED tracked_keys
<1>1. /\ pc' = [pc EXCEPT ![t] = pc'[t]] /\ pc'[t] \in {"unlock", "refused"}
      /\ unlocking' \in [Txns -> UnLocks]
  BY FailsTypes, Zenon DEF Refused
<1>2. request' \in [Txns -> Requests] /\ request' = [request EXCEPT ![t] = NoRequest]
  BY SMTT(30), SMTT(45) DEF Refused, Types, CallTypes, Requests, NoRequest
<1> QED BY <1>1, <1>2, Zenon DEF Types, CallTypes, Refused, Acquiring, Pcs

\* A granted request leaves the calls and the tracked keys well typed.
LEMMA GrantedTypes ==
  ASSUME Types, NEW t \in Txns, request[t].key \in Keys, Granted(t)
  PROVE  /\ CallTypes'
         /\ tracked_keys' \in [Txns -> [Keys -> {"no", "shared", "exclusive"}]]
<1>1. request' \in [Txns -> Requests] /\ request' = [request EXCEPT ![t] = NoRequest]
  BY SMTT(30), SMTT(45) DEF Granted, Types, CallTypes, Requests, NoRequest
<1>2. tracked_keys' \in [Txns -> [Keys -> {"no", "shared", "exclusive"}]]
  <2> DEFINE k == request[t].key
             mode == IF request[t].exclusive \/ tracked_keys[t][k] = "exclusive"
                     THEN "exclusive" ELSE "shared"
  <2>1. /\ tracked_keys \in [Txns -> [Keys -> {"no", "shared", "exclusive"}]]
        /\ mode \in {"no", "shared", "exclusive"}
    BY Zenon DEF Types, TxnTypes
  <2>2. \/ UNCHANGED tracked_keys
        \/ tracked_keys' = [tracked_keys EXCEPT ![t] = [@ EXCEPT ![k] = mode]]
    BY Zenon DEF Granted
  <2> QED BY <2>1, <2>2, SMTT(30), SMTT(45)
<1>3. /\ pc' \in [Txns -> Pcs] /\ pc' = [pc EXCEPT ![t] = pc'[t]] 
      /\ pc'[t] \in {"idle", "unlock", "refused"}
      /\ unlocking' \in [Txns -> UnLocks]
  <2>1. Tracked(t) \in SUBSET Keys
    BY Zenon DEF Tracked
  <2>2. CASE Goto(t, "idle") \/ Goto(t, "refused")
    BY <2>2, Zenon DEF Goto, Types, CallTypes, Pcs
  <2>3. CASE tracked_keys[t][request[t].key] = "no" /\
             StartUnLock(t, {request[t].key}, Tracked(t), "same", "refused")
    BY <2>1, <2>3, SMTT(30), SMTT(45)
      DEF StartUnLock, Types, CallTypes, UnLocks, Pcs
  <2> QED BY <2>2, <2>3, Zenon DEF Granted
<1> QED BY <1>1, <1>2, <1>3, Zenon DEF Types, CallTypes, Acquiring

(***************************************************************************)
(* What an attempt to acquire comes to: some of the other holders, all of  *)
(* them still STARTED, are robbed, and the attempt fails, is let in by the *)
(* load of lock_cnt, takes the lock, or joins the holders of a shared one. *)
(***************************************************************************)
Robs(T) == txn_state' = [u \in Txns |-> IF u \in T THEN "LOCKS_STOLEN" ELSE txn_state[u]]

Missed(t, last) ==
  /\ UNCHANGED lockVars
  /\ \E result \in {"Busy", "TimedOut"}, ids \in SUBSET Txns, e \in Nat :
       NotAcquired(t, last, result, ids, e)

Took(t, k, T) ==
  /\ Granted(t)
  /\ keys' = [keys EXCEPT ![k] = LockInfo(t, request[t].exclusive)]
  /\ \/ pc[t] = "insert" /\ lock_cnt' = lock_cnt + 1
     \/ keys[k].txn_ids = {} /\ config.max_num_locks = 0 /\ UNCHANGED lock_cnt
     \/ /\ keys[k].txn_ids # {} /\ UNCHANGED lock_cnt
        /\ \/ keys[k].txn_ids = {t}
           \/ /\ keys[k].expiration_time > 0
              /\ \A u \in keys[k].txn_ids \ {t} : u \in expirable => u \in T

Joined(t, k) ==
  /\ Granted(t)
  /\ ~request[t].exclusive /\ ~keys[k].exclusive /\ keys[k].txn_ids # {}
  /\ UNCHANGED lock_cnt
  /\ \E e \in {keys[k].expiration_time, expiration_time[t]} :
       keys' = [keys EXCEPT ![k] = [exclusive |-> FALSE, expiration_time |-> e,
                                    txn_ids |-> keys[k].txn_ids \cup {t}]]

LetIn(t) ==
  /\ BelowLimit(t) /\ ~Full /\ UNCHANGED lockVars
  /\ keys[request[t].key].txn_ids = {}

Attempted(t, k, last) ==
  \E T \in SUBSET {u \in keys[k].txn_ids \ {t} : txn_state[u] = "STARTED"} :
    Robs(T) /\ (Missed(t, last) \/ LetIn(t) \/ Took(t, k, T) \/ Joined(t, k))

\* IsLockExpired steals only from other holders that can be stolen from, and
\* says "expired" only of a lock that expires and whose other holders it robbed.
LEMMA ExpiredOutcome ==
  ASSUME Types, NEW t \in Txns, NEW k \in Keys, NEW o \in IsLockExpired(t, keys[k])
  PROVE  /\ o.expire_time \in Nat
         /\ o.stolen \in SUBSET {u \in keys[k].txn_ids \ {t} : CanSteal(u)}
         /\ o.expired => /\ keys[k].expiration_time > 0
                         /\ o.stolen = keys[k].txn_ids \ {t}
<1> DEFINE info == keys[k]
           others == info.txn_ids \ {t}
           free == {u \in others : CanSteal(u)}
           hint(S) == IF S = {} THEN request[t].expire_time_hint ELSE 0
<1>1. info.expiration_time \in Nat /\ request[t].expire_time_hint \in Nat
  BY Zenon DEF Types, LockTypes, LockInfos, CallTypes, Requests
<1>2. \/ o = [expired |-> FALSE, stolen |-> {}, expire_time |-> info.expiration_time]
      \/ /\ \A u \in others : CanSteal(u)
         /\ o = [expired |-> info.expiration_time > 0, stolen |-> others, expire_time |-> 0]
      \/ \E S \in SUBSET free :
           o = [expired |-> FALSE, stolen |-> S, expire_time |-> hint(S)]
  BY Zenon DEF IsLockExpired
<1> HIDE DEF info
<1>3. CASE o = [expired |-> FALSE, stolen |-> {}, expire_time |-> info.expiration_time]
  BY <1>1, <1>3, Zenon DEF info
<1>4. CASE /\ \A u \in others : CanSteal(u)
           /\ o = [expired |-> info.expiration_time > 0, stolen |-> others,
                   expire_time |-> 0]
  <2>1. o.expire_time = 0 /\ o.stolen = others
    BY <1>4, Zenon
  <2>2. others \in SUBSET {u \in others : CanSteal(u)}
    BY <1>4, Zenon
  <2>3. o.expired => info.expiration_time > 0
    BY <1>4, Zenon
  <2> QED BY <2>1, <2>2, <2>3 DEF info
<1>5. ASSUME NEW S \in SUBSET free,
             o = [expired |-> FALSE, stolen |-> S, expire_time |-> hint(S)]
      PROVE  /\ o.expire_time \in Nat /\ o.stolen \in SUBSET free
             /\ ~o.expired
  BY <1>1, <1>5, Zenon
<1> QED BY <1>2, <1>3, <1>4, <1>5, Zenon DEF info

\* AcquireLocked comes to one of the outcomes of Attempted.
LEMMA AcquireLockedAttempts ==
  ASSUME Types, NEW t \in Txns, request[t].key \in Keys,
         NEW last \in BOOLEAN, AcquireLocked(t, last)
  PROVE  Attempted(t, request[t].key, last)
<1> DEFINE r == request[t]
           k == r.key
           info == keys[k]
           victims == {u \in keys[k].txn_ids \ {t} : txn_state[u] = "STARTED"}
<1>1. /\ r \in Requests /\ info \in LockInfos /\ info.txn_ids \in SUBSET Txns
      /\ r.wait_ids \in SUBSET Txns /\ r.expire_time_hint \in Nat
  BY Zenon DEF Types, LockTypes, CallTypes, LockInfos, Requests
<1>2. txn_state \in [Txns -> States]
  BY Zenon DEF Types, TxnTypes
<1>3. UNCHANGED txn_state => Robs({})
  BY <1>2, Zenon DEF Robs
<1>10. (Full \/ config.max_num_locks > 0) => config.max_num_locks # 0
  BY DEF Full
<1>4. CASE info.txn_ids = {} /\ Full
  <2>1. NotAcquired(t, last, "Busy", r.wait_ids, r.expire_time_hint)
        /\ UNCHANGED <<lockVars, txn_state>>
    BY <1>4, <1>10, Zenon DEF AcquireLocked
  <2> QED BY <1>1, <1>3, <2>1, Zenon DEF Attempted, Missed
<1>5. CASE info.txn_ids = {} /\ config.max_num_locks = 0
  <2>1. Took(t, k, {}) /\ UNCHANGED txn_state
    BY <1>5, <1>10, Zenon DEF AcquireLocked, Took
  <2> QED BY <1>3, <2>1, Zenon DEF Attempted
<1>9. CASE info.txn_ids = {} /\ config.max_num_locks > 0 /\ ~Full
  <2>1. LetIn(t) /\ UNCHANGED txn_state
    BY <1>9, <1>10, Zenon DEF AcquireLocked, LetIn
  <2> QED BY <1>3, <2>1, Zenon DEF Attempted
<1>6. CASE info.txn_ids # {} /\ (info.exclusive \/ r.exclusive) /\ info.txn_ids = {t}
  <2>1. Took(t, k, {}) /\ UNCHANGED txn_state
    BY <1>6, Zenon DEF AcquireLocked, Took
  <2> QED BY <1>3, <2>1, Zenon DEF Attempted
<1>7. CASE info.txn_ids # {} /\ (info.exclusive \/ r.exclusive) /\ info.txn_ids # {t}
  <2>1. PICK o \in IsLockExpired(t, info) :
          /\ Steal(o.stolen)
          /\ IF o.expired
             THEN /\ keys' = [keys EXCEPT ![k] = LockInfo(t, r.exclusive)]
                  /\ Granted(t)
             ELSE /\ NotAcquired(t, last, "TimedOut", info.txn_ids, o.expire_time)
                  /\ UNCHANGED keys
    BY <1>7, Zenon DEF AcquireLocked
  <2>2. UNCHANGED lock_cnt
    BY <1>7, Zenon DEF AcquireLocked
  <2>3. /\ o.expire_time \in Nat
        /\ o.stolen \in SUBSET {u \in info.txn_ids \ {t} : CanSteal(u)}
        /\ o.expired => info.expiration_time > 0 /\ o.stolen = info.txn_ids \ {t}
    BY ExpiredOutcome, Zenon
  <2> DEFINE T == o.stolen \cap expirable
  <2>4. T \in SUBSET victims /\ Robs(T)
    BY <2>1, <2>3, Zenon DEF Steal, Robs, CanSteal
  <2>5. CASE o.expired
    <3>1. Took(t, k, T)
      BY <1>7, <2>1, <2>2, <2>3, <2>5, Zenon DEF Took
    <3> QED BY <2>4, <3>1, Zenon DEF Attempted
  <2>6. CASE ~o.expired
    <3>1. Missed(t, last)
      BY <1>1, <2>1, <2>2, <2>3, <2>6, Zenon DEF Missed, lockVars
    <3> QED BY <2>4, <3>1, Zenon DEF Attempted
  <2> QED BY <2>5, <2>6, Zenon
<1>8. CASE info.txn_ids # {} /\ ~(info.exclusive \/ r.exclusive)
  <2> DEFINE e == IF info.expiration_time < expiration_time[t]
                  THEN expiration_time[t] ELSE info.expiration_time
  <2>1. /\ keys' = [keys EXCEPT ![k] = [exclusive |-> FALSE, expiration_time |-> e,
                                        txn_ids |-> info.txn_ids \cup {t}]]
        /\ Granted(t) /\ UNCHANGED <<lock_cnt, txn_state>>
    BY <1>8, Zenon DEF AcquireLocked
  <2>2. Joined(t, k)
    BY <1>8, <2>1, Zenon DEF Joined
  <2> QED BY <1>3, <2>1, <2>2, Zenon DEF Attempted
<1> QED BY <1>4, <1>5, <1>6, <1>7, <1>8, <1>9, Zenon DEF AcquireLocked

\* An attempt that fails leaves the calls well typed.
LEMMA NotAcquiredTypes ==
  ASSUME Types, NEW t \in Txns, Acquiring(t), NEW last \in BOOLEAN,
         NEW result \in {"Busy", "TimedOut"}, NEW ids \in SUBSET Txns, NEW e \in Nat,
         NotAcquired(t, last, result, ids, e)
  PROVE  CallTypes' /\ UNCHANGED tracked_keys
<1>1. CASE last
  BY <1>1, RefusedTypes, Zenon DEF NotAcquired
<1>2. CASE ~last
  <2> DEFINE new == [request[t] EXCEPT !.result = result, !.wait_ids = ids,
                                       !.expire_time_hint = e]
  <2>1. request[t] \in Requests
    BY Zenon DEF Types, CallTypes
  <2>2. new \in Requests /\ new.key = request[t].key
    BY <2>1, Zenon DEF Requests
  <2>3. request' = [request EXCEPT ![t] = new]
    BY <1>2, Zenon DEF NotAcquired
  <2> HIDE DEF new
  <2> QED BY <1>2, <2>2, <2>3, Zenon
    DEF NotAcquired, Types, CallTypes, Acquiring, Pcs
<1> QED BY <1>1, <1>2, Zenon

\* An attempt leaves the lock table, the states and the calls well typed.
LEMMA AttemptedTypes ==
  ASSUME Types, NEW t \in Txns, Acquiring(t), NEW last \in BOOLEAN,
         Attempted(t, request[t].key, last)
  PROVE  /\ keys' \in [Keys -> LockInfos] /\ txn_state' \in [Txns -> States]
         /\ tracked_keys' \in [Txns -> [Keys -> {"no", "shared", "exclusive"}]]
         /\ CallTypes'
<1> DEFINE k == request[t].key
<1>1. k \in Keys
  BY Zenon DEF Types, CallTypes
<1>2. PICK T \in SUBSET {u \in keys[k].txn_ids \ {t} : txn_state[u] = "STARTED"} :
        Robs(T) /\ (Missed(t, last) \/ LetIn(t) \/ Took(t, k, T) \/ Joined(t, k))
  BY Zenon DEF Attempted
<1>3. txn_state' \in [Txns -> States]
  BY <1>2, Zenon DEF Robs, Types, TxnTypes, States
<1>4. /\ keys \in [Keys -> LockInfos]
      /\ tracked_keys \in [Txns -> [Keys -> {"no", "shared", "exclusive"}]]
      /\ expiration_time[t] \in Nat
  BY Zenon DEF Types, LockTypes, TxnTypes
<1>5. CASE Missed(t, last)
  <2>1. CallTypes' /\ UNCHANGED tracked_keys
    BY <1>5, NotAcquiredTypes, Zenon DEF Missed
  <2> QED BY <1>3, <1>4, <1>5, <2>1, Zenon DEF Missed, lockVars
<1>6. CASE Took(t, k, T)
  <2>1. LockInfo(t, request[t].exclusive) \in LockInfos
    BY <1>4, Zenon DEF LockInfo, LockInfos, Types, CallTypes, Requests
  <2>2. keys' = [keys EXCEPT ![k] = LockInfo(t, request[t].exclusive)]
    BY <1>6, Zenon DEF Took
  <2>3. keys' \in [Keys -> LockInfos]
    BY <1>4, <2>1, <2>2, Zenon
  <2> QED BY <1>1, <1>3, <1>6, <2>3, GrantedTypes, Zenon DEF Took
<1>7. CASE Joined(t, k)
  <2>1. \A e \in Nat : [exclusive |-> FALSE, expiration_time |-> e,
                        txn_ids |-> keys[k].txn_ids \cup {t}] \in LockInfos
    BY <1>1, <1>4, Zenon DEF LockInfos
  <2>2. keys[k].expiration_time \in Nat
    BY <1>1, <1>4, Zenon DEF LockInfos
  <2>3. PICK i \in LockInfos : keys' = [keys EXCEPT ![k] = i]
    BY <1>4, <1>7, <2>1, <2>2, Zenon DEF Joined
  <2>4. keys' \in [Keys -> LockInfos]
    BY <1>4, <2>3, Zenon
  <2> QED BY <1>1, <1>3, <1>4, <1>7, <2>4, GrantedTypes, Zenon DEF Joined
<1>8. CASE LetIn(t)
  <2>1. CallTypes' /\ UNCHANGED tracked_keys
    BY <1>1, <1>8, Zenon DEF LetIn, BelowLimit, Types, CallTypes, Acquiring, Pcs
  <2> QED BY <1>3, <1>4, <1>8, <2>1, Zenon DEF LetIn, lockVars
<1> QED BY <1>2, <1>5, <1>6, <1>7, <1>8, Zenon

\* The first attempt of AcquireWithTimeout keeps the types.
LEMMA AcquireTypes ==
  ASSUME Types, NEW t \in Txns, Acquire(t)
  PROVE  Types'
<1>1. /\ Acquiring(t) /\ request[t].key \in Keys /\ (Timeout(t) = 0) \in BOOLEAN
      /\ UNCHANGED <<config, now, waitVars, expiration_time, expirable, save_point>>
  BY Zenon DEF Acquire, Acquiring, Types, CallTypes
<1>2. CASE AcquireLocked(t, Timeout(t) = 0)
  BY <1>1, <1>2, AcquireLockedAttempts, AttemptedTypes, Zenon
    DEF Types, LockTypes, TxnTypes, waitVars
<1>3. CASE /\ Fails(t, "refused") /\ request' = [request EXCEPT ![t] = NoRequest]
           /\ UNCHANGED <<lockVars, stripe_mutex, txn_state, tracked_keys>>
  <2>1. /\ pc' = [pc EXCEPT ![t] = pc'[t]] /\ pc'[t] \in {"unlock", "refused"}
        /\ unlocking' \in [Txns -> UnLocks]
    BY <1>3, FailsTypes, Zenon
  <2>2. NoRequest \in Requests
    BY DEF NoRequest, Requests
  <2>3. CallTypes'
    BY <1>3, <2>1, <2>2, ZenonT(30) DEF Types, CallTypes, Acquiring, Pcs
  <2> QED BY <1>1, <1>3, <2>3, Zenon DEF Types, LockTypes, TxnTypes, waitVars, lockVars
<1> QED BY <1>2, <1>3, Zenon DEF Acquire

\* InsertLock takes the lock it asked for.
LEMMA InsertTakes ==
  ASSUME Types, NEW t \in Txns, InsertLock(t)
  PROVE  /\ Acquiring(t) /\ request[t].key \in Keys
         /\ Robs({}) /\ Took(t, request[t].key, {})
         /\ UNCHANGED <<config, now, waitVars, txnVars, save_point>>
<1>1. /\ Acquiring(t) /\ request[t].key \in Keys
      /\ UNCHANGED <<config, now, waitVars, txnVars, save_point>>
  BY Zenon DEF InsertLock, Acquiring, Types, CallTypes
<1>2. Robs({})
  BY <1>1, Zenon DEF Robs, Types, TxnTypes, txnVars
<1> QED BY <1>1, <1>2, Zenon DEF InsertLock, Took

\* The insertion of a lock keeps the types.
LEMMA InsertTypes ==
  ASSUME Types, NEW t \in Txns, InsertLock(t)
  PROVE  Types'
<1>1. /\ Acquiring(t) /\ request[t].key \in Keys
      /\ Robs({}) /\ Took(t, request[t].key, {})
      /\ UNCHANGED <<config, now, waitVars, txnVars, save_point>>
  BY InsertTakes, Zenon
<1>2. Attempted(t, request[t].key, TRUE)
  BY <1>1, Zenon DEF Attempted
<1> QED BY <1>1, <1>2, AttemptedTypes, Zenon
  DEF Types, LockTypes, TxnTypes, waitVars, txnVars

\* A round of AcquireWithTimeout's loop keeps the types.
LEMMA LoopTypes ==
  ASSUME Types, NEW t \in Txns, Loop(t)
  PROVE  Types'
<1> DEFINE ids == request[t].wait_ids
           map == [wait_txn_map EXCEPT ![t] = ids]
           rev == [u \in Txns |-> rev_wait_txn_map[u] + (IF u \in ids THEN 1 ELSE 0)]
<1>1. /\ UNCHANGED <<config, now, lockVars, txnVars, save_point>>
      /\ Acquiring(t) /\ request[t].key \in Keys /\ request[t] \in Requests
  BY Zenon DEF Loop, Acquiring, Types, CallTypes
<1>2. CASE Refused(t) /\ UNCHANGED waitVars
  BY <1>1, <1>2, RefusedTypes, Zenon DEF Types, LockTypes, TxnTypes, waitVars, lockVars, txnVars
<1>3. CASE /\ wait_txn_map' \in {map, wait_txn_map}
           /\ rev_wait_txn_map' \in {rev, rev_wait_txn_map}
           /\ pc' \in {[pc EXCEPT ![t] = "wait"], [pc EXCEPT ![t] = "pass"]}
           /\ request' = [request EXCEPT ![t].cv_end_time = CvEndTime(t)]
           /\ UNCHANGED <<tracked_keys, unlocking>>
  <2>1. map \in [Txns -> SUBSET Txns] /\ rev \in [Txns -> Int]
    BY <1>1 DEF Types, LockTypes, Requests
  <2>2. LockTypes' /\ TxnTypes'
    BY <1>1, <1>3, <2>1, Zenon DEF Types, LockTypes, TxnTypes, lockVars, txnVars
  <2> DEFINE new == [request[t] EXCEPT !.cv_end_time = CvEndTime(t)]
  <2>3. CvEndTime(t) \in Int
    BY <1>1 DEF CvEndTime, Requests
  <2>4. new \in Requests /\ new.key = request[t].key
    BY <1>1, <2>3, Zenon DEF Requests
  <2>5. request' = [request EXCEPT ![t] = new]
    BY <1>3, Zenon
  <2> HIDE DEF new
  <2>6. CallTypes'
    BY <1>1, <1>3, <2>4, <2>5, SMTT(30), SMTT(45) DEF Types, CallTypes, Acquiring, Pcs
  <2> QED BY <2>2, <2>6, Zenon DEF Types
<1> QED BY <1>2, <1>3, Zenon DEF Loop

\* A waiter that wakes up and tries again keeps the types.
LEMMA WakeTypes ==
  ASSUME Types, NEW t \in Txns, Wake(t)
  PROVE  Types'
<1>1. /\ UNCHANGED <<config, now, expiration_time, expirable, save_point>>
      /\ Acquiring(t) /\ request[t].key \in Keys /\ request[t] \in Requests
  BY Zenon DEF Wake, Acquiring, Types, CallTypes
<1>2. wait_txn_map' \in [Txns -> SUBSET Txns] /\ rev_wait_txn_map' \in [Txns -> Int]
  <2>1. DecrementWaiters(t)
    BY Zenon DEF Wake
  <2> QED BY <2>1 DEF DecrementWaiters, Types, LockTypes
<1>3. ASSUME NEW last \in BOOLEAN, AcquireLocked(t, last)
      PROVE  Types'
  BY <1>1, <1>2, <1>3, AcquireLockedAttempts, AttemptedTypes, Zenon DEF Types, LockTypes, TxnTypes
<1>4. CASE /\ pc' = [pc EXCEPT ![t] = "loop"]
           /\ UNCHANGED <<lockVars, stripe_mutex, txn_state, tracked_keys, request,
                          unlocking>>
  <2>1. CallTypes'
    BY <1>1, <1>4, Zenon DEF Types, CallTypes, Acquiring, Pcs
  <2> QED BY <1>1, <1>2, <1>4, <2>1, Zenon DEF Types, LockTypes, TxnTypes, lockVars
<1> QED BY <1>3, <1>4, Zenon DEF Wake

\* A call that is not one for a lock goes on, or starts to unlock.
LEMMA GotoTypes ==
  ASSUME Types, NEW t \in Txns, UNCHANGED request,
         NEW next \in {"idle", "refused", "prepare", "prepared", "commit", "write",
                       "writeprepared", "over"},
         Goto(t, next)
  PROVE  CallTypes'
BY Zenon DEF Goto, Types, CallTypes, Acquiring, Pcs

\* The start of UnLock leaves the calls well typed.
LEMMA StartUnLockTypes ==
  ASSUME Types, NEW t \in Txns, UNCHANGED request,
         NEW ks \in SUBSET Keys, NEW rest \in SUBSET Keys,
         NEW st \in {"same", "COMMITED", "ROLLEDBACK"},
         NEW next \in {"idle", "refused", "over", "gone"},
         StartUnLock(t, ks, rest, st, next)
  PROVE  CallTypes'
<1> DEFINE new == [keys |-> ks, stripe |-> 0, tracked |-> rest, state |-> st, next |-> next]
<1>1. new \in UnLocks
  BY DEF UnLocks
<1>2. unlocking' = [unlocking EXCEPT ![t] = new] /\ pc' = [pc EXCEPT ![t] = "unlock"]
  BY Zenon DEF StartUnLock
<1> HIDE DEF new
<1> QED BY <1>1, <1>2, Zenon DEF Types, CallTypes, Acquiring, Pcs

\* A client that gives up leaves the calls well typed.
LEMMA FailsCallTypes ==
  ASSUME Types, NEW t \in Txns, UNCHANGED request,
         NEW next \in {"refused", "over"}, Fails(t, next)
  PROVE  CallTypes'
<1>1. Tracked(t) \in SUBSET Keys
  BY Zenon DEF Tracked
<1> QED BY <1>1, GotoTypes, StartUnLockTypes, Zenon DEF Fails

\* Unlocking the keys of a stripe keeps the types.
LEMMA UnLockTypes ==
  ASSUME Types, NEW t \in Txns, UnLock(t)
  PROVE  Types'
<1>1. PICK s \in {Stripe(k) : k \in unlocking[t].keys} :
        LET mine == {k \in unlocking[t].keys : Stripe(k) = s}
            found == {k \in mine : t \in keys[k].txn_ids}
        IN  /\ keys' = [k \in Keys |-> IF k \in found THEN UnLockKey(t, keys[k])
                                                      ELSE keys[k]]
            /\ unlocking' = [unlocking EXCEPT ![t].keys = @ \ mine, ![t].stripe = s]
  BY Zenon DEF UnLock
<1> DEFINE mine == {k \in unlocking[t].keys : Stripe(k) = s}
           found == {k \in mine : t \in keys[k].txn_ids}
<1>2. /\ unlocking[t] \in UnLocks /\ unlocking[t].keys \in SUBSET Keys /\ s \in Int
      /\ config \in Configs
  BY ConfigsOK DEF Types, LockTypes, CallTypes, UnLocks, Stripe
<1>3. \A i \in LockInfos : UnLockKey(t, i) \in LockInfos
  BY Zenon DEF UnLockKey, LockInfos, NotLocked
<1>4. keys' = [k \in Keys |-> IF k \in found THEN UnLockKey(t, keys[k]) ELSE keys[k]]
  BY <1>1, Zenon
<1>5. keys' \in [Keys -> LockInfos]
  <2>1. keys \in [Keys -> LockInfos]
    BY Zenon DEF Types, LockTypes
  <2> HIDE DEF found
  <2> QED BY <1>3, <1>4, <2>1, Zenon
<1>6. CallTypes'
  <2> DEFINE new == [unlocking[t] EXCEPT !.keys = @ \ mine, !.stripe = s]
  <2>1. new \in UnLocks
    BY <1>2, Zenon DEF UnLocks
  <2>2. unlocking' = [unlocking EXCEPT ![t] = new]
    BY <1>1, Zenon
  <2>3. pc' = [pc EXCEPT ![t] = "notify"] /\ UNCHANGED request
    BY Zenon DEF UnLock
  <2> HIDE DEF new
  <2> QED BY <2>1, <2>2, <2>3, Zenon DEF Types, CallTypes, Acquiring, Pcs
<1> QED BY <1>5, <1>6, Zenon DEF UnLock, Types, LockTypes, TxnTypes, waitVars, txnVars

\* Waking the waiters of a stripe keeps the types.
LEMMA NotifyAllTypes ==
  ASSUME Types, NEW t \in Txns, NotifyAll(t)
  PROVE  Types'
<1> DEFINE new == [unlocking[t] EXCEPT !.stripe = 0]
<1>1. unlocking[t] \in UnLocks
  BY Zenon DEF Types, CallTypes
<1>2. new \in UnLocks
  BY <1>1 DEF UnLocks
<1>3. unlocking' = [unlocking EXCEPT ![t] = new] /\ UNCHANGED request
  BY Zenon DEF NotifyAll
<1>4. /\ pc' \in [Txns -> Pcs]
      /\ \A u \in Txns : Acquiring(u)' => Acquiring(u)
  BY Zenon DEF NotifyAll, Types, CallTypes, Acquiring, Pcs
<1> HIDE DEF new
<1>5. CallTypes'
  BY <1>2, <1>3, <1>4, Zenon DEF Types, CallTypes
<1> QED BY <1>5, Zenon DEF NotifyAll, Types, LockTypes, TxnTypes, waitVars, txnVars, lockVars

\* The end of UnLock keeps the types.
LEMMA UnLockedTypes ==
  ASSUME Types, NEW t \in Txns, UnLocked(t)
  PROVE  Types'
<1>1. unlocking[t] \in UnLocks /\ NoUnLock \in UnLocks
  BY DEF Types, CallTypes, NoUnLock, UnLocks
<1>2. CallTypes'
  BY <1>1, Zenon DEF UnLocked, Types, CallTypes, Acquiring, Pcs, UnLocks
<1>3. tracked_keys' \in [Txns -> [Keys -> {"no", "shared", "exclusive"}]]
  BY Zenon DEF UnLocked, Types, TxnTypes
<1>4. txn_state' \in [Txns -> States] /\ expirable' \in SUBSET Txns
  BY <1>1, Zenon DEF UnLocked, Types, TxnTypes, States, UnLocks
<1> QED BY <1>2, <1>3, <1>4, Zenon DEF UnLocked, Types, LockTypes, TxnTypes, waitVars, lockVars

\* The start of TryLock keeps the types.
LEMMA TryLockTypes ==
  ASSUME Types, NEW t \in Txns, NEW k \in Keys, NEW ex \in BOOLEAN, TryLock(t, k, ex)
  PROVE  Types'
<1> DEFINE new == [NoRequest EXCEPT !.key = k, !.exclusive = ex,
                     !.end_time = IF Timeout(t) > 0 THEN now + Timeout(t) ELSE 0]
<1>1. config \in Configs /\ now \in Nat /\ k \in Int
  BY TxnsAndKeys, Zenon DEF Types, LockTypes
<1>2. config.timeout \in [Txns -> Int]
  BY <1>1, ConfigsOK, Zenon
<1>3. new \in Requests /\ new.key = k
  <2> DEFINE end == IF Timeout(t) > 0 THEN now + Timeout(t) ELSE 0
             new1 == [NoRequest EXCEPT !.key = k]
             new2 == [new1 EXCEPT !.exclusive = ex]
             new3 == [new2 EXCEPT !.end_time = end]
  <2>1. end \in Int
    BY <1>1, <1>2 DEF Timeout
  <2>2. new1 \in Requests /\ new1.key = k
    <3>1. NoRequest \in Requests
      BY DEF Requests, NoRequest
    <3> QED BY <1>1, <3>1, Zenon DEF Requests
  <2> HIDE DEF end, new1
  <2>3. new2 \in Requests /\ new2.key = k
    BY <2>2, Zenon DEF Requests
  <2> HIDE DEF new2
  <2>4. new3 \in Requests /\ new3.key = k
    BY <2>1, <2>3, Zenon DEF Requests
  <2> QED BY <2>4, Zenon DEF new1, new2, end
<1>4. request' = [request EXCEPT ![t] = new]
  BY Zenon DEF TryLock
<1> HIDE DEF new
<1>5. CallTypes'
  BY <1>3, <1>4, SMTT(30), SMTT(45) DEF TryLock, Types, CallTypes, Acquiring, Pcs
<1> QED BY <1>5, Zenon DEF TryLock, Types, LockTypes, TxnTypes, lockVars, waitVars, txnVars

\* The operations on the transaction itself.
OwnStep(t) ==
  \/ SetSavePoint(t) \/ RollbackToSavePoint(t) \/ Prepare(t) \/ PrepareInternal(t)
  \/ AwaitCommit(t) \/ RefuseCommitTimeBatch(t) \/ CommitInternal(t) \/ End(t)

\* The transaction's own operations keep the types.
LEMMA OwnStepTypes ==
  ASSUME Types, NEW t \in Txns, OwnStep(t)
  PROVE  Types'
<1>1. Tracked(t) \in SUBSET Keys
  BY Zenon DEF Tracked
<1>2. /\ UNCHANGED <<config, now, lockVars, waitVars, expirable, tracked_keys, request>>
      /\ txn_state \in [Txns -> States] /\ expiration_time \in [Txns -> Nat]
  BY Zenon
     DEF Types, TxnTypes, OwnStep, SetSavePoint, RollbackToSavePoint, Prepare,
    PrepareInternal, AwaitCommit, RefuseCommitTimeBatch, CommitInternal, End, Commit, Rollback,
     Delete, txnVars
<1>3. LockTypes'
  BY <1>2, Zenon DEF Types, LockTypes, lockVars, waitVars
<1> SUFFICES TxnTypes' /\ CallTypes'
  BY <1>3, Zenon DEF Types
<1>4. CASE SetSavePoint(t)
  BY <1>1, <1>4, Zenon
     DEF SetSavePoint, Types, TxnTypes, CallTypes, Acquiring, txnVars
<1>5. CASE RollbackToSavePoint(t)
  <2>1. save_point[t].keys \in SUBSET Keys
    BY Zenon DEF Types, TxnTypes
  <2>2. CallTypes'
    BY <1>1, <1>2, <1>5, <2>1, StartUnLockTypes, Zenon DEF RollbackToSavePoint
  <2> QED BY <1>5, <2>2, Zenon DEF RollbackToSavePoint, Types, TxnTypes, txnVars
<1>6. CASE Prepare(t)
  <2>1. CallTypes'
    BY <1>2, <1>6, GotoTypes, Zenon DEF Prepare
  <2> QED BY <1>6, <2>1, Zenon DEF Prepare, Types, TxnTypes, txnVars
<1>7. CASE PrepareInternal(t)
  <2>1. CallTypes'
    BY <1>2, <1>7, GotoTypes, Zenon DEF PrepareInternal
  <2>2. txn_state' \in [Txns -> States] /\ expiration_time' \in [Txns -> Nat]
    BY <1>2, <1>7 DEF PrepareInternal, States
  <2> QED BY <1>7, <2>1, <2>2, Zenon DEF PrepareInternal, Types, TxnTypes
<1>8. CASE AwaitCommit(t)
  <2>1. CallTypes'
    BY <1>2, <1>8, GotoTypes, FailsCallTypes, Zenon DEF AwaitCommit
  <2>2. txn_state' \in [Txns -> States]
    BY <1>2, <1>8, Zenon DEF AwaitCommit, States
  <2> QED BY <1>8, <2>1, <2>2, Zenon DEF AwaitCommit, Types, TxnTypes
<1>13. CASE RefuseCommitTimeBatch(t)
  <2>1. CallTypes'
    BY <1>2, <1>13, GotoTypes, Zenon DEF RefuseCommitTimeBatch
  <2>2. txn_state' \in [Txns -> States]
    BY <1>2, <1>13, Zenon DEF RefuseCommitTimeBatch, States
  <2> QED BY <1>13, <2>1, <2>2, Zenon DEF RefuseCommitTimeBatch, Types, TxnTypes
<1>9. CASE CommitInternal(t)
  <2>1. CallTypes'
    BY <1>1, <1>2, <1>9, GotoTypes, StartUnLockTypes, Zenon DEF CommitInternal
  <2>2. txn_state' \in [Txns -> States]
    BY <1>2, <1>9, Zenon DEF CommitInternal, States
  <2> QED BY <1>9, <2>1, <2>2, Zenon DEF CommitInternal, Types, TxnTypes
<1>10. CASE Commit(t)
  <2>1. CallTypes'
    BY <1>2, <1>10, GotoTypes, FailsCallTypes, Zenon DEF Commit
  <2> QED BY <1>10, <2>1, Zenon DEF Commit, Types, TxnTypes, txnVars
<1>11. CASE Rollback(t)
  <2>1. CallTypes'
    BY <1>1, <1>2, <1>11, GotoTypes, StartUnLockTypes, Zenon DEF Rollback
  <2>2. txn_state' \in [Txns -> States]
    BY <1>2, <1>11, Zenon DEF Rollback, States
  <2> QED BY <1>11, <2>1, <2>2, Zenon DEF Rollback, Types, TxnTypes
<1>12. CASE Delete(t)
  <2>1. CallTypes'
    BY <1>1, <1>2, <1>12, StartUnLockTypes, Zenon DEF Delete
  <2> QED BY <1>12, <2>1, Zenon DEF Delete, Types, TxnTypes, txnVars
<1> QED BY <1>4, <1>5, <1>6, <1>7, <1>8, <1>9, <1>10, <1>11, <1>12, <1>13, Zenon
  DEF OwnStep, End

\* A step of t: one of a thread in AcquireWithTimeout or UnLock, or one of
\* the transaction's own.
AcquireStep(t) == Acquire(t) \/ InsertLock(t) \/ Wake(t) \/ Loop(t)

StepOf(t) ==
  \/ \E k \in Keys, ex \in BOOLEAN : TryLock(t, k, ex)
  \/ AcquireStep(t) \/ UnLock(t) \/ NotifyAll(t) \/ UnLocked(t)
  \/ OwnStep(t)

\* A step is one of the clock or of a transaction.
LEMMA NextCases ==
  ASSUME [Next]_vars
  PROVE  UNCHANGED vars \/ Tick \/ \E t \in Txns : StepOf(t)
BY Zenon DEF Next, Step, Call, OwnStep, StepOf, AcquireStep

\* The state is always well typed; a thread inside AcquireWithTimeout asks
\* for a key.
THEOREM TypesHold == Spec => []Types
<1>1. Types /\ [Next]_vars => Types'
  <2> SUFFICES ASSUME Types, [Next]_vars PROVE Types'
    BY Zenon
  <2>1. CASE UNCHANGED vars
    BY <2>1, Zenon
       DEF Types, LockTypes, TxnTypes, CallTypes, Acquiring, vars, lockVars,
      waitVars, txnVars
  <2>2. CASE Tick
    BY <2>2, ConfigsOK DEF Tick, Types, LockTypes, TxnTypes, CallTypes, Acquiring, vars,
      lockVars, waitVars, txnVars
  <2>3. ASSUME NEW t \in Txns, StepOf(t)
        PROVE  Types'
    BY <2>3, TryLockTypes, AcquireTypes, InsertTypes, LoopTypes, WakeTypes, UnLockTypes,
      NotifyAllTypes, UnLockedTypes, OwnStepTypes, Zenon DEF StepOf, AcquireStep
  <2> QED BY <2>1, <2>2, <2>3, NextCases, Zenon
<1> QED BY <1>1, InitTypes, PTL DEF Spec

-----------------------------------------------------------------------------
(* The life of a transaction.                                              *)

Unlocking(t) == pc[t] \in {"unlock", "notify"}

\* What the states, the place of the thread and the keys being unlocked have
\* to do with each other.
Life(t) ==
  /\ pc[t] \in {"write", "writeprepared"} => txn_state[t] = "AWAITING_COMMIT"
  /\ txn_state[t] = "PREPARED" =>
       /\ expiration_time[t] = 0
       /\ \/ pc[t] \in {"prepared", "commit", "gone"}
          \/ Unlocking(t) /\ unlocking[t].next = "gone"
  /\ ~Unlocking(t) => unlocking[t] = NoUnLock
  /\ unlocking[t].keys \cap unlocking[t].tracked = {}
  /\ Unlocking(t) /\ (unlocking[t].state # "same" \/ unlocking[t].next = "gone") =>
       unlocking[t].tracked = {}

\* A thread that asks for a lock does not have it, or has it only shared.
Asks(t) ==
  Acquiring(t) =>
    /\ \/ tracked_keys[t][request[t].key] = "no"
       \/ request[t].exclusive /\ tracked_keys[t][request[t].key] = "shared"
    /\ request[t].exclusive \in config.modes[t]

\* A transaction that can expire is in the map until its destructor ran.
Expires(t) ==
  /\ pc[t] # "gone" /\ config.expiration[t] > 0 => t \in expirable
  /\ expiration_time[t] > 0 => config.expiration[t] > 0

LifeInv == \A t \in Txns : Life(t) /\ Asks(t) /\ Expires(t)

(***************************************************************************)
(* A step of t leaves the other transactions alone, except that it may     *)
(* wake a waiting one and rob a STARTED one.                               *)
(***************************************************************************)
Same(u) == /\ request'[u] = request[u] /\ unlocking'[u] = unlocking[u]
           /\ tracked_keys'[u] = tracked_keys[u] /\ pc'[u] = pc[u]

LeavesAlone(u) ==
  /\ request'[u] = request[u] /\ unlocking'[u] = unlocking[u]
  /\ tracked_keys'[u] = tracked_keys[u] /\ expiration_time'[u] = expiration_time[u]
  /\ pc'[u] = pc[u] \/ (pc[u] = "wait" /\ pc'[u] = "notified")
  /\ \/ txn_state'[u] = txn_state[u]
     \/ txn_state[u] = "STARTED" /\ txn_state'[u] = "LOCKS_STOLEN"
  /\ u \in expirable' <=> u \in expirable

\* After a lock is granted: the key is tracked, or was tracked already and is
\* refused, or is unlocked again.
Mode(t) ==
  IF request[t].exclusive \/ tracked_keys[t][request[t].key] = "exclusive"
  THEN "exclusive" ELSE "shared"

Tracks(t) ==
  /\ pc'[t] = "idle" /\ unlocking'[t] = unlocking[t]
  /\ tracked_keys'[t] = [tracked_keys[t] EXCEPT ![request[t].key] = Mode(t)]

KeepsIt(t) ==
  /\ pc'[t] = "refused" /\ unlocking'[t] = unlocking[t]
  /\ tracked_keys[t][request[t].key] # "no" /\ tracked_keys'[t] = tracked_keys[t]

GivesBack(t) ==
  /\ pc'[t] = "unlock" /\ tracked_keys[t][request[t].key] = "no"
  /\ tracked_keys'[t] = tracked_keys[t]
  /\ unlocking'[t] = [keys |-> {request[t].key}, stripe |-> 0, tracked |-> Tracked(t),
                      state |-> "same", next |-> "refused"]

\* A granted lock is tracked, was held already, or is given back because the
\* transaction may no longer use it; nobody else is concerned.
LEMMA GrantedResult ==
  ASSUME Types, NEW t \in Txns, request[t].key \in Keys, Granted(t)
  PROVE  /\ Tracks(t) \/ KeepsIt(t) \/ GivesBack(t)
         /\ \A u \in Txns \ {t} : Same(u)
<1> DEFINE k == request[t].key
           before == tracked_keys[t][k]
<1>1. /\ pc \in [Txns -> Pcs] /\ request \in [Txns -> Requests]
      /\ unlocking \in [Txns -> UnLocks]
      /\ tracked_keys \in [Txns -> [Keys -> {"no", "shared", "exclusive"}]]
  BY Zenon DEF Types, TxnTypes, CallTypes
<1>2. request' = [request EXCEPT ![t] = NoRequest]
  BY Zenon DEF Granted
<1>3. CASE /\ tracked_keys' = [tracked_keys EXCEPT ![t][k] =
                IF request[t].exclusive \/ @ = "exclusive" THEN "exclusive" ELSE "shared"]
           /\ Goto(t, "idle")
  <2>1. tracked_keys' = [tracked_keys EXCEPT ![t] =
                           [tracked_keys[t] EXCEPT ![k] = Mode(t)]]
    BY <1>3, Zenon DEF Mode
  <2> QED BY <1>1, <1>2, <1>3, <2>1, Zenon DEF Goto, Tracks, Same
<1>4. CASE UNCHANGED tracked_keys /\ before = "no" /\
           StartUnLock(t, {k}, Tracked(t), "same", "refused")
  BY <1>1, <1>2, <1>4, Zenon DEF StartUnLock, GivesBack, Same
<1>5. CASE UNCHANGED tracked_keys /\ before # "no" /\ Goto(t, "refused")
  BY <1>1, <1>2, <1>5, Zenon DEF Goto, KeepsIt, Same
<1> QED BY <1>3, <1>4, <1>5, Zenon DEF Granted

\* After a failure: the call is over, or the batch is unlocked.
GivesUp(t, next) ==
  /\ tracked_keys'[t] = tracked_keys[t]
  /\ \/ pc'[t] = next /\ unlocking'[t] = unlocking[t]
     \/ /\ pc'[t] = "unlock"
        /\ unlocking'[t] = [keys |-> Tracked(t), stripe |-> 0, tracked |-> {},
                            state |-> "same", next |-> next]

\* A client that gives up unlocks all it tracks; nobody else's call changes.
LEMMA FailsResult ==
  ASSUME Types, NEW t \in Txns, NEW next, Fails(t, next), UNCHANGED tracked_keys
  PROVE  /\ GivesUp(t, next)
         /\ \A u \in Txns \ {t} : pc'[u] = pc[u] /\ unlocking'[u] = unlocking[u]
BY Zenon DEF Types, CallTypes, Fails, Goto, StartUnLock, GivesUp

\* A refused request ends in giving up; nobody else is concerned.
LEMMA RefusedResult ==
  ASSUME Types, NEW t \in Txns, Refused(t)
  PROVE  GivesUp(t, "refused") /\ \A u \in Txns \ {t} : Same(u)
<1>1. /\ GivesUp(t, "refused")
      /\ \A u \in Txns \ {t} : pc'[u] = pc[u] /\ unlocking'[u] = unlocking[u]
  BY FailsResult, Zenon DEF Refused
<1> QED BY <1>1, Zenon DEF Refused, Types, CallTypes, Same

\* Or it goes on in AcquireWithTimeout, with the stripe mutex.
GoesOn(t) ==
  /\ pc'[t] \in {"loop", "insert"} /\ tracked_keys'[t] = tracked_keys[t]
  /\ pc'[t] = "insert" => ~Full /\ keys[request[t].key].txn_ids = {}
  /\ unlocking'[t] = unlocking[t]
  /\ request'[t].key = request[t].key /\ request'[t].exclusive = request[t].exclusive

\* An attempt that fails is refused or goes on to wait.
LEMMA NotAcquiredResult ==
  ASSUME Types, NEW t \in Txns, NEW last \in BOOLEAN, NEW result \in {"Busy", "TimedOut"},
         NEW ids \in SUBSET Txns, NEW e \in Nat, NotAcquired(t, last, result, ids, e)
  PROVE  /\ GivesUp(t, "refused") \/ GoesOn(t)
         /\ \A u \in Txns \ {t} : Same(u)
<1>1. CASE last
  BY <1>1, RefusedResult, Zenon DEF NotAcquired
<1>2. CASE ~last
  <2> DEFINE new == [request[t] EXCEPT !.result = result, !.wait_ids = ids,
                                       !.expire_time_hint = e]
  <2>1. request[t] \in Requests
    BY Zenon DEF Types, CallTypes
  <2>2. new.key = request[t].key /\ new.exclusive = request[t].exclusive
    BY <2>1, Zenon DEF Requests
  <2>3. request' = [request EXCEPT ![t] = new]
    BY <1>2, Zenon DEF NotAcquired
  <2> HIDE DEF new
  <2> QED BY <1>2, <2>2, <2>3, Zenon DEF NotAcquired, Types, CallTypes, GoesOn, Same
<1> QED BY <1>1, <1>2, Zenon

Answered(t) == GivesUp(t, "refused") \/ Tracks(t) \/ KeepsIt(t) \/ GivesBack(t)

\* What an attempt does to its own transaction, and that the others are at most
\* robbed while STARTED.
LEMMA AttemptResult ==
  ASSUME Types, NEW t \in Txns, request[t].key \in Keys,
         NEW last \in BOOLEAN, AcquireLocked(t, last)
  PROVE  /\ Answered(t) \/ GoesOn(t)
         /\ txn_state'[t] = txn_state[t]
         /\ \A u \in Txns \ {t} :
              /\ Same(u)
              /\ \/ txn_state'[u] = txn_state[u]
                 \/ txn_state[u] = "STARTED" /\ txn_state'[u] = "LOCKS_STOLEN"
<1> DEFINE k == request[t].key
<1>1. PICK T \in SUBSET {u \in keys[k].txn_ids \ {t} : txn_state[u] = "STARTED"} :
        Robs(T) /\ (Missed(t, last) \/ LetIn(t) \/ Took(t, k, T) \/ Joined(t, k))
  BY AcquireLockedAttempts, Zenon DEF Attempted
<1>2. /\ txn_state'[t] = txn_state[t]
      /\ \A u \in Txns : \/ txn_state'[u] = txn_state[u]
                         \/ txn_state[u] = "STARTED" /\ txn_state'[u] = "LOCKS_STOLEN"
  BY <1>1, Zenon DEF Robs
<1>3. CASE Missed(t, last)
  BY <1>2, <1>3, NotAcquiredResult, Zenon DEF Missed, Answered
<1>4. CASE Granted(t)
  BY <1>2, <1>4, GrantedResult, Zenon DEF Answered
<1>5. CASE LetIn(t)
  BY <1>2, <1>5, Zenon DEF LetIn, BelowLimit, GoesOn, Same, Types, CallTypes
<1> QED BY <1>1, <1>3, <1>4, <1>5, Zenon DEF Took, Joined

\* The steps in AcquireWithTimeout after which the call is over or goes on,
\* and those in which the thread only moves.
LEMMA AcquireResult ==
  ASSUME Types, NEW t \in Txns, AcquireStep(t)
  PROVE  /\ \/ Answered(t) \/ GoesOn(t)
            \/ /\ pc'[t] \in {"wait", "pass"} /\ tracked_keys'[t] = tracked_keys[t]
               /\ unlocking'[t] = unlocking[t]
               /\ request'[t].key = request[t].key
               /\ request'[t].exclusive = request[t].exclusive
         /\ Acquiring(t) /\ request[t].key \in Keys
         /\ UNCHANGED <<config, now, expiration_time, expirable, save_point>>
         /\ txn_state'[t] = txn_state[t]
         /\ \A u \in Txns \ {t} : Same(u) /\ LeavesAlone(u)
<1>1. /\ Acquiring(t) /\ request[t].key \in Keys
      /\ UNCHANGED <<config, now, expiration_time, expirable, save_point>>
  BY Zenon DEF AcquireStep, Acquire, InsertLock, Loop, Wake, Acquiring, Types, CallTypes,
    txnVars
<1>2. (Timeout(t) = 0) \in BOOLEAN
  BY Zenon
<1>3. ASSUME NEW last \in BOOLEAN, AcquireLocked(t, last)
      PROVE  /\ Answered(t) \/ GoesOn(t)
             /\ txn_state'[t] = txn_state[t]
             /\ \A u \in Txns \ {t} : Same(u) /\ LeavesAlone(u)
  BY <1>1, <1>3, AttemptResult, Zenon DEF Same, LeavesAlone
<1>4. CASE Acquire(t)
  <2>1. CASE AcquireLocked(t, Timeout(t) = 0)
    BY <1>1, <1>2, <1>3, <2>1, Zenon
  <2>2. CASE /\ Fails(t, "refused") /\ request' = [request EXCEPT ![t] = NoRequest]
             /\ UNCHANGED <<lockVars, stripe_mutex, txn_state, tracked_keys>>
    <3>1. /\ GivesUp(t, "refused")
          /\ \A u \in Txns \ {t} : pc'[u] = pc[u] /\ unlocking'[u] = unlocking[u]
      BY <2>2, FailsResult, Zenon
    <3>2. \A u \in Txns \ {t} : request'[u] = request[u]
      BY <2>2, Zenon DEF Types, CallTypes
    <3> QED BY <1>1, <2>2, <3>1, <3>2, Zenon DEF Same, LeavesAlone, Answered
  <2> QED BY <1>4, <2>1, <2>2, Zenon DEF Acquire
<1>5. CASE Wake(t)
  <2>1. CASE AcquireLocked(t, TRUE) \/ AcquireLocked(t, FALSE)
    BY <1>1, <1>3, <2>1, Zenon
  <2>2. CASE /\ pc' = [pc EXCEPT ![t] = "loop"]
             /\ UNCHANGED <<lockVars, stripe_mutex, txn_state, tracked_keys, request,
                            unlocking>>
    BY <1>1, <2>2, Zenon DEF Same, LeavesAlone, GoesOn, Types, CallTypes
  <2> QED BY <1>5, <2>1, <2>2, Zenon DEF Wake
<1>6. CASE Loop(t)
  <2>0. UNCHANGED txn_state
    BY <1>6, Zenon DEF Loop, txnVars
  <2>1. CASE Refused(t)
    BY <1>1, <2>0, <2>1, RefusedResult, Zenon DEF Same, LeavesAlone, Answered
  <2>2. CASE /\ pc' \in {[pc EXCEPT ![t] = "wait"], [pc EXCEPT ![t] = "pass"]}
             /\ request' = [request EXCEPT ![t].cv_end_time = CvEndTime(t)]
             /\ UNCHANGED <<tracked_keys, unlocking>>
    <3> DEFINE new == [request[t] EXCEPT !.cv_end_time = CvEndTime(t)]
    <3>1. new.key = request[t].key /\ new.exclusive = request[t].exclusive
      BY DEF Types, CallTypes, Requests
    <3>2. request' = [request EXCEPT ![t] = new]
      BY <2>2, Zenon
    <3> HIDE DEF new
    <3> QED BY <1>1, <2>0, <2>2, <3>1, <3>2, Zenon DEF Same, LeavesAlone, Types, CallTypes
  <2> QED BY <1>6, <2>1, <2>2, Zenon DEF Loop
<1>7. CASE InsertLock(t)
  <2>1. Took(t, request[t].key, {}) /\ UNCHANGED txn_state
    BY <1>7, InsertTakes, Zenon DEF txnVars
  <2> QED BY <1>1, <2>1, GrantedResult, Zenon DEF Took, Answered, Same, LeavesAlone
<1> QED BY <1>4, <1>5, <1>6, <1>7, Zenon DEF AcquireStep

\* Every step of t leaves the others alone in that sense.
LEMMA OthersAlone ==
  ASSUME Types, NEW t \in Txns, StepOf(t)
  PROVE  UNCHANGED config /\ \A u \in Txns \ {t} : LeavesAlone(u)
<1>1. CASE AcquireStep(t)
  BY <1>1, AcquireResult, Zenon
<1>2. /\ pc \in [Txns -> Pcs] /\ request \in [Txns -> Requests]
      /\ unlocking \in [Txns -> UnLocks] /\ txn_state \in [Txns -> States]
      /\ expiration_time \in [Txns -> Nat]
      /\ tracked_keys \in [Txns -> [Keys -> {"no", "shared", "exclusive"}]]
  BY Zenon DEF Types, TxnTypes, CallTypes
<1> USE <1>2 DEF LeavesAlone
<1>3. CASE \E k \in Keys, ex \in BOOLEAN : TryLock(t, k, ex)
  BY <1>3 DEF TryLock, txnVars
<1>4. CASE UnLock(t)
  BY <1>4, Zenon DEF UnLock, txnVars
<1>5. CASE NotifyAll(t)
  BY <1>5, Zenon DEF NotifyAll, txnVars
<1>6. CASE UnLocked(t)
  BY <1>6, Zenon DEF UnLocked, txnVars
<1>7. CASE SetSavePoint(t)
  BY <1>7, Zenon DEF SetSavePoint, txnVars
<1>8. CASE RollbackToSavePoint(t)
  BY <1>8, Zenon DEF RollbackToSavePoint, StartUnLock, txnVars
<1>9. CASE Prepare(t)
  BY <1>9, Zenon DEF Prepare, Goto, txnVars
<1>10. CASE PrepareInternal(t)
  BY <1>10, Zenon DEF PrepareInternal, Goto, txnVars
<1>11. CASE AwaitCommit(t) \/ RefuseCommitTimeBatch(t) \/ CommitInternal(t)
  BY <1>11, Zenon DEF AwaitCommit, RefuseCommitTimeBatch, CommitInternal, Fails, StartUnLock, Goto, txnVars
<1>12. CASE Commit(t)
  BY <1>12, Zenon DEF Commit, Fails, StartUnLock, Goto, txnVars
<1>13. CASE Rollback(t)
  BY <1>13, Zenon DEF Rollback, Fails, StartUnLock, Goto, txnVars
<1>14. CASE Delete(t)
  BY <1>14, Zenon DEF Delete, Fails, StartUnLock, Goto, txnVars
<1> QED BY <1>1, <1>3, <1>4, <1>5, <1>6, <1>7, <1>8, <1>9, <1>10, <1>11, <1>12, <1>13,
           <1>14, Zenon DEF StepOf, OwnStep, End

\* A transaction that is left alone, or is robbed, stays in order.
LEMMA AloneLife ==
  ASSUME Types, NEW u \in Txns, LeavesAlone(u), UNCHANGED config,
         Life(u), Asks(u), Expires(u)
  PROVE  Life(u)' /\ Asks(u)' /\ Expires(u)'
<1>1. (Unlocking(u)' <=> Unlocking(u)) /\ (Acquiring(u)' <=> Acquiring(u))
  BY Zenon DEF LeavesAlone, Unlocking, Acquiring
<1>2. Life(u)'
  BY <1>1, Zenon DEF LeavesAlone, Life
<1>3. Asks(u)'
  BY <1>1, Zenon DEF LeavesAlone, Asks
<1>4. Expires(u)'
  BY Zenon DEF LeavesAlone, Expires
<1> QED BY <1>2, <1>3, <1>4, Zenon

\* A thread in AcquireWithTimeout keeps its transaction in order.
LEMMA AcquireLife ==
  ASSUME Types, NEW t \in Txns, Life(t), Asks(t), Expires(t),
         AcquireStep(t)
  PROVE  Life(t)' /\ Asks(t)' /\ Expires(t)'
<1>1. /\ Acquiring(t) /\ request[t].key \in Keys /\ txn_state'[t] = txn_state[t]
      /\ UNCHANGED <<config, expiration_time, expirable>>
      /\ \/ Answered(t) \/ GoesOn(t)
         \/ /\ pc'[t] \in {"wait", "pass"} /\ tracked_keys'[t] = tracked_keys[t]
            /\ unlocking'[t] = unlocking[t]
            /\ request'[t].key = request[t].key
            /\ request'[t].exclusive = request[t].exclusive
  BY AcquireResult, Zenon
<1>2. Expires(t)'
  BY <1>1, Zenon DEF Expires, Acquiring
<1>3. txn_state[t] # "PREPARED" /\ ~Unlocking(t) /\ unlocking[t] = NoUnLock
  BY <1>1, Zenon DEF Life, Acquiring, Unlocking
<1>4. CASE Answered(t)
  <2>1. ~Acquiring(t)' /\ pc'[t] \notin {"write", "writeprepared"}
    BY <1>4, Zenon DEF Answered, GivesUp, Tracks, KeepsIt, GivesBack, Acquiring
  <2>2. CASE unlocking'[t] = unlocking[t] /\ pc'[t] \in {"refused", "idle"}
    BY <1>1, <1>2, <1>3, <2>1, <2>2, Zenon DEF Life, Asks, Unlocking, NoUnLock
  <2>3. ASSUME /\ pc'[t] = "unlock"
               /\ unlocking'[t].state = "same" /\ unlocking'[t].next = "refused"
               /\ unlocking'[t].keys \cap unlocking'[t].tracked = {}
        PROVE  Life(t)' /\ Asks(t)' /\ Expires(t)'
    BY <1>1, <1>2, <1>3, <2>1, <2>3, Zenon DEF Life, Asks, Unlocking
  <2>4. CASE GivesBack(t)
    BY <2>3, <2>4 DEF GivesBack, Tracked
  <2>5. CASE unlocking'[t] = [keys |-> Tracked(t), stripe |-> 0, tracked |-> {},
                              state |-> "same", next |-> "refused"] /\ pc'[t] = "unlock"
    BY <2>3, <2>5
  <2> QED BY <1>2, <1>4, <2>2, <2>4, <2>5, Zenon DEF Answered, GivesUp, Tracks, KeepsIt
<1>5. CASE ~Answered(t)
  <2>1. /\ pc'[t] \in {"loop", "insert", "wait", "pass"}
        /\ tracked_keys'[t] = tracked_keys[t]
        /\ unlocking'[t] = unlocking[t]
        /\ request'[t].key = request[t].key
        /\ request'[t].exclusive = request[t].exclusive
    BY <1>1, <1>5, Zenon DEF GoesOn
  <2>2. Life(t)'
    BY <1>1, <1>3, <2>1, Zenon DEF Life, Unlocking, NoUnLock
  <2>3. Asks(t)'
    BY <1>1, <2>1, Zenon DEF Asks
  <2> QED BY <1>2, <2>2, <2>3, Zenon
<1> QED BY <1>2, <1>4, <1>5, Zenon

\* StartUnLock at t, with either the keys to keep or none.
Starts(t, st, next) ==
  /\ pc'[t] = "unlock"
  /\ unlocking'[t] = [keys |-> Tracked(t), stripe |-> 0, tracked |-> {},
                      state |-> st, next |-> next]

\* UnLock starts with all the tracked keys.
LEMMA StartResult ==
  ASSUME Types, NEW t \in Txns, NEW st, NEW next, StartUnLock(t, Tracked(t), {}, st, next)
  PROVE  Starts(t, st, next)
BY Zenon DEF StartUnLock, Starts, Types, CallTypes

\* What an operation of the transaction itself comes to.
OwnResult(t) ==
  \/ /\ \E next \in {"prepare", "prepared", "commit", "write", "writeprepared", "over"} :
          /\ pc'[t] = next
          /\ next \in {"write", "writeprepared"} => txn_state'[t] = "AWAITING_COMMIT"
          /\ txn_state'[t] = "PREPARED" =>
               next \in {"prepared", "commit"} /\ expiration_time'[t] = 0
     /\ unlocking'[t] = unlocking[t]
  \/ \E st \in {"same", "COMMITED", "ROLLEDBACK"}, next \in {"over", "gone"} :
       /\ Starts(t, st, next)
       /\ txn_state'[t] = "PREPARED" => next = "gone" /\ expiration_time'[t] = 0
  \/ /\ txn_state'[t] # "PREPARED" /\ pc'[t] = "unlock"
     /\ unlocking'[t] = [keys |-> Tracked(t) \ save_point[t].keys, stripe |-> 0,
                         tracked |-> save_point[t].keys, state |-> "same", next |-> "idle"]
  \/ pc'[t] = pc[t] /\ txn_state'[t] = txn_state[t] /\ unlocking'[t] = unlocking[t]

\* The transaction's own operations leave the lock table alone, and none of them
\* undoes a theft.
LEMMA OwnStepResult ==
  ASSUME Types, NEW t \in Txns, Life(t), OwnStep(t)
  PROVE  /\ OwnResult(t) /\ ~Acquiring(t) /\ ~Unlocking(t) /\ pc[t] # "gone"
         /\ UNCHANGED <<config, lockVars, waitVars, expirable, tracked_keys, request>>
         /\ expiration_time'[t] \in {expiration_time[t], 0}
         /\ txn_state[t] = "LOCKS_STOLEN" => txn_state'[t] = "LOCKS_STOLEN"
<1> USE DEF Types, TxnTypes, CallTypes
<1>0. /\ ~Acquiring(t) /\ ~Unlocking(t) /\ pc[t] # "gone"
      /\ UNCHANGED <<config, lockVars, waitVars, expirable, tracked_keys, request>>
      /\ expiration_time'[t] \in {expiration_time[t], 0}
  BY Zenon
     DEF OwnStep, SetSavePoint, RollbackToSavePoint, Prepare, PrepareInternal, AwaitCommit, RefuseCommitTimeBatch,
    CommitInternal, End, Commit, Rollback, Delete, txnVars, Acquiring, Unlocking
<1>1. /\ pc[t] \notin {"prepared", "commit"} => txn_state[t] # "PREPARED"
      /\ pc[t] \in {"write", "writeprepared"} => txn_state[t] = "AWAITING_COMMIT"
      /\ txn_state[t] = "PREPARED" => expiration_time[t] = 0
  BY <1>0, Zenon DEF Life
<1>2. CASE SetSavePoint(t)
  BY <1>0, <1>2, Zenon DEF SetSavePoint, OwnResult, txnVars
<1>3. CASE RollbackToSavePoint(t)
  BY <1>0, <1>1, <1>3, Zenon
     DEF RollbackToSavePoint, OwnResult, StartUnLock, txnVars
<1>4. CASE Prepare(t)
  BY <1>0, <1>1, <1>4, Zenon DEF Prepare, OwnResult, Goto, txnVars
<1>5. CASE PrepareInternal(t)
  BY <1>0, <1>1, <1>5, Zenon DEF PrepareInternal, OwnResult, Goto
<1>6. CASE Commit(t)
  <2>1. UNCHANGED txn_state
    BY <1>6, Zenon DEF Commit, txnVars
  <2>2. CASE IsExpired(t)
    <3>1. txn_state[t] # "PREPARED"
      BY <1>1, <2>2, SMTT(30) DEF IsExpired
    <3>2. CASE Goto(t, "over")
      BY <1>0, <2>1, <3>1, <3>2, Zenon DEF Goto, OwnResult
    <3>3. CASE StartUnLock(t, Tracked(t), {}, "same", "over")
      BY <1>0, <2>1, <3>1, <3>3, StartResult, Zenon DEF OwnResult
    <3> QED BY <1>6, <2>2, <3>2, <3>3, Zenon DEF Commit, Fails
  <2>3. CASE ~IsExpired(t)
    BY <1>0, <1>1, <1>6, <2>1, <2>3, Zenon DEF Commit, Goto, OwnResult, txnVars
  <2> QED BY <2>2, <2>3, Zenon
<1>7. CASE AwaitCommit(t)
  <2>1. CASE txn_state[t] \in {"STARTED", "PREPARED"}
    BY <1>0, <1>7, <2>1, Zenon DEF AwaitCommit, Goto, OwnResult
  <2>2. CASE txn_state[t] \notin {"STARTED", "PREPARED"}
    <3>1. CASE Goto(t, "over")
      BY <1>0, <1>7, <2>2, <3>1, Zenon DEF AwaitCommit, Goto, OwnResult
    <3>2. CASE StartUnLock(t, Tracked(t), {}, "same", "over")
      BY <1>0, <1>7, <2>2, <3>2, StartResult, Zenon DEF AwaitCommit, OwnResult
    <3> QED BY <1>7, <2>2, <3>1, <3>2, Zenon DEF AwaitCommit, Fails
  <2> QED BY <2>1, <2>2, Zenon
<1>8. CASE CommitInternal(t)
  <2>1. txn_state[t] = "AWAITING_COMMIT" /\ txn_state'[t] \notin {"PREPARED", "LOCKS_STOLEN"}
    BY <1>1, <1>8, Zenon DEF CommitInternal
  <2>2. CASE Goto(t, "over")
    BY <1>0, <1>1, <1>8, <2>1, <2>2, Zenon DEF CommitInternal, Goto, OwnResult
  <2>3. ASSUME NEW st \in {"same", "COMMITED"}, StartUnLock(t, Tracked(t), {}, st, "over")
        PROVE  OwnResult(t)
    BY <2>1, <2>3, StartResult, Zenon DEF OwnResult
  <2> QED BY <1>0, <1>8, <2>1, <2>2, <2>3, Zenon DEF CommitInternal
<1>9. CASE Rollback(t)
  <2>1. ASSUME NEW st \in {"same", "ROLLEDBACK"}, StartUnLock(t, Tracked(t), {}, st, "over"),
               txn_state'[t] # "PREPARED"
        PROVE  OwnResult(t)
    BY <2>1, StartResult, Zenon DEF OwnResult
  <2>2. ASSUME Goto(t, "over"), txn_state'[t] # "PREPARED"
        PROVE  OwnResult(t)
    BY <2>2, Zenon DEF Goto, OwnResult
  <2>3. /\ txn_state'[t] # "PREPARED"
        /\ txn_state[t] = "LOCKS_STOLEN" => txn_state'[t] = "LOCKS_STOLEN"
    BY <1>9, Zenon DEF Rollback
  <2> QED BY <1>0, <1>9, <2>1, <2>2, <2>3, Zenon DEF Rollback
<1>10. CASE Delete(t)
  <2>1. Starts(t, "same", "gone") /\ UNCHANGED <<txn_state, expiration_time>>
    BY <1>10, StartResult, Zenon DEF Delete, txnVars
  <2> QED BY <1>0, <1>1, <2>1, Zenon DEF OwnResult
<1>11. CASE RefuseCommitTimeBatch(t)
  <2>1. txn_state[t] = "STARTED" /\ txn_state'[t] \in {"STARTED", "AWAITING_COMMIT"}
    BY <1>11, Zenon DEF RefuseCommitTimeBatch
  <2> QED BY <1>0, <1>11, <2>1, Zenon DEF RefuseCommitTimeBatch, Goto, OwnResult
<1> QED BY <1>2, <1>3, <1>4, <1>5, <1>6, <1>7, <1>8, <1>9, <1>10, <1>11, Zenon
  DEF OwnStep, End

\* The transaction's own operations keep it in order.
LEMMA OwnStepLife ==
  ASSUME Types, NEW t \in Txns, Life(t), Asks(t), Expires(t), OwnStep(t)
  PROVE  Life(t)' /\ Asks(t)' /\ Expires(t)'
<1>1. /\ OwnResult(t) /\ ~Acquiring(t) /\ ~Unlocking(t) /\ pc[t] # "gone"
      /\ UNCHANGED <<config, lockVars, waitVars, expirable, tracked_keys, request>>
      /\ expiration_time'[t] \in {expiration_time[t], 0}
  BY OwnStepResult, Zenon
<1>2. unlocking[t] = NoUnLock /\ NoUnLock.keys = {}
  BY <1>1, Zenon DEF Life, NoUnLock
<1>3. ~Acquiring(t)' /\ Expires(t)'
  BY <1>1 DEF OwnResult, Starts, Expires, Acquiring
<1>4. Life(t)'
  <2>1. CASE \E next \in {"prepare", "prepared", "commit", "write", "writeprepared", "over"} :
               /\ pc'[t] = next
               /\ next \in {"write", "writeprepared"} => txn_state'[t] = "AWAITING_COMMIT"
               /\ txn_state'[t] = "PREPARED" =>
                    next \in {"prepared", "commit"} /\ expiration_time'[t] = 0
               /\ unlocking'[t] = unlocking[t]
    BY <1>2, <2>1, Zenon DEF Life, Unlocking
  <2>2. CASE \E st \in {"same", "COMMITED", "ROLLEDBACK"}, next \in {"over", "gone"} :
               /\ Starts(t, st, next)
               /\ txn_state'[t] = "PREPARED" => next = "gone" /\ expiration_time'[t] = 0
    <3>1. /\ pc'[t] = "unlock" /\ unlocking'[t].tracked = {}
          /\ txn_state'[t] = "PREPARED" =>
               unlocking'[t].next = "gone" /\ expiration_time'[t] = 0
      BY <2>2 DEF Starts
    <3>2. unlocking'[t].keys \cap unlocking'[t].tracked = {}
      BY <3>1, Zenon
    <3> QED BY <3>1, <3>2, Zenon DEF Life, Unlocking
  <2>3. CASE /\ txn_state'[t] # "PREPARED" /\ pc'[t] = "unlock"
             /\ unlocking'[t] = [keys |-> Tracked(t) \ save_point[t].keys, stripe |-> 0,
                                 tracked |-> save_point[t].keys, state |-> "same",
                                 next |-> "idle"]
    <3>1. /\ unlocking'[t].keys \cap unlocking'[t].tracked = {}
          /\ unlocking'[t].state = "same" /\ unlocking'[t].next = "idle"
      BY <2>3
    <3> QED BY <2>3, <3>1, Zenon DEF Life, Unlocking
  <2>4. CASE pc'[t] = pc[t] /\ txn_state'[t] = txn_state[t] /\ unlocking'[t] = unlocking[t]
    BY <1>1, <2>4, Zenon DEF Life, Unlocking
  <2> QED BY <1>1, <2>1, <2>2, <2>3, <2>4, Zenon DEF OwnResult
<1> QED BY <1>3, <1>4, Zenon DEF Asks

\* The steps of UnLock keep the transaction in order.
LEMMA UnLockLife ==
  ASSUME Types, NEW t \in Txns, Life(t), Asks(t), Expires(t),
         UnLock(t) \/ NotifyAll(t) \/ UnLocked(t)
  PROVE  Life(t)' /\ Asks(t)' /\ Expires(t)'
<1> USE DEF Types, TxnTypes, CallTypes
<1>1. CASE UnLock(t)
  <2>1. PICK s \in {Stripe(k) : k \in unlocking[t].keys} :
          LET mine == {k \in unlocking[t].keys : Stripe(k) = s}
          IN  unlocking' = [unlocking EXCEPT ![t].keys = @ \ mine, ![t].stripe = s]
    BY <1>1, Zenon DEF UnLock
  <2> DEFINE mine == {k \in unlocking[t].keys : Stripe(k) = s}
             new == [unlocking[t] EXCEPT !.keys = @ \ mine, !.stripe = s]
  <2>2. unlocking[t] \in UnLocks
    BY Zenon
  <2>3. new.keys = unlocking[t].keys \ mine /\ new.tracked = unlocking[t].tracked
        /\ new.state = unlocking[t].state /\ new.next = unlocking[t].next
    BY <2>2, Zenon DEF UnLocks
  <2>4. unlocking' = [unlocking EXCEPT ![t] = new]
    BY <2>1, Zenon
  <2> HIDE DEF new, mine
  <2>5. unlocking'[t] = new
    BY <2>4, Zenon
  <2>6. /\ pc[t] = "unlock" /\ pc'[t] = "notify"
        /\ UNCHANGED <<config, txnVars, tracked_keys, request>>
    BY <1>1, Zenon DEF UnLock
  <2>7. Life(t)'
    BY <2>3, <2>5, <2>6, Zenon DEF Life, Unlocking, txnVars
  <2> QED BY <2>6, <2>7, Zenon DEF Asks, Expires, Acquiring, txnVars
<1>2. CASE NotifyAll(t)
  <2> DEFINE new == [unlocking[t] EXCEPT !.stripe = 0]
  <2>1. unlocking[t] \in UnLocks
    BY Zenon
  <2>2. new.keys = unlocking[t].keys /\ new.tracked = unlocking[t].tracked
        /\ new.state = unlocking[t].state /\ new.next = unlocking[t].next
    BY <2>1, Zenon DEF UnLocks
  <2> HIDE DEF new
  <2>3. unlocking'[t] = new
    BY <1>2, Zenon DEF NotifyAll, new
  <2>4. /\ pc[t] = "notify" /\ pc'[t] = "unlock"
        /\ UNCHANGED <<config, txnVars, tracked_keys, request>>
    BY <1>2, Zenon DEF NotifyAll
  <2>5. Life(t)'
    BY <2>2, <2>3, <2>4, Zenon DEF Life, Unlocking, txnVars
  <2> QED BY <2>4, <2>5, Zenon DEF Asks, Expires, Acquiring, txnVars
<1>3. CASE UnLocked(t)
  <2>1. /\ pc[t] = "unlock" /\ pc'[t] = unlocking[t].next /\ unlocking'[t] = NoUnLock
        /\ txn_state'[t] = (IF unlocking[t].state = "same" THEN txn_state[t]
                            ELSE unlocking[t].state)
        /\ UNCHANGED <<config, expiration_time, request>>
        /\ unlocking[t].next # "gone" => UNCHANGED expirable
    BY <1>3, Zenon DEF UnLocked
  <2>2. /\ unlocking[t].next \in {"idle", "refused", "over", "gone"}
        /\ unlocking[t].state \in {"same", "COMMITED", "ROLLEDBACK"}
    BY Zenon DEF UnLocks
  <2>3. Life(t)'
    <3>1. unlocking'[t].keys \cap unlocking'[t].tracked = {}
      BY <2>1 DEF NoUnLock
    <3>2. /\ txn_state'[t] \in {txn_state[t], "COMMITED", "ROLLEDBACK"}
          /\ txn_state'[t] = "PREPARED" => pc'[t] = "gone" /\ expiration_time'[t] = 0
      BY <2>1, <2>2, Zenon DEF Life
    <3> QED BY <2>1, <2>2, <3>1, <3>2, Zenon DEF Life, Unlocking
  <2> QED BY <2>1, <2>2, <2>3, Zenon DEF Asks, Expires, Acquiring
<1> QED BY <1>1, <1>2, <1>3, Zenon

\* The start of TryLock keeps the transaction in order.
LEMMA TryLockLife ==
  ASSUME Types, NEW t \in Txns, NEW k \in Keys, NEW ex \in BOOLEAN, TryLock(t, k, ex),
         Life(t), Expires(t)
  PROVE  Life(t)' /\ Asks(t)' /\ Expires(t)'
<1> DEFINE new == [NoRequest EXCEPT !.key = k, !.exclusive = ex,
                     !.end_time = IF Timeout(t) > 0 THEN now + Timeout(t) ELSE 0]
<1>1. new.key = k /\ new.exclusive = ex
  BY Zenon DEF NoRequest
<1> HIDE DEF new
<1>2. /\ request'[t] = new /\ pc[t] = "idle" /\ pc'[t] = "acquire"
      /\ tracked_keys[t][k] = "no" \/ (ex /\ tracked_keys[t][k] = "shared")
      /\ ex \in config.modes[t]
      /\ UNCHANGED <<config, txnVars, tracked_keys, unlocking>>
  BY Zenon DEF TryLock, Types, CallTypes, new
<1>3. Life(t)'
  BY <1>2, Zenon DEF Life, Unlocking, txnVars
<1>4. Asks(t)'
  BY <1>1, <1>2, Zenon DEF Asks
<1> QED BY <1>2, <1>3, <1>4, Zenon DEF Expires, txnVars

\* Transactions are in order at the start.
LEMMA InitLife == Init => LifeInv
<1> SUFFICES ASSUME Init, NEW t \in Txns PROVE Life(t) /\ Asks(t) /\ Expires(t)
  BY Zenon DEF LifeInv
<1>1. pc[t] \in {"idle", "gone"} /\ unlocking[t] = NoUnLock /\ txn_state[t] = "STARTED"
  BY Zenon DEF Init
<1>2. Life(t) /\ Asks(t)
  BY <1>1 DEF Life, Asks, Acquiring, Unlocking, NoUnLock
<1> QED BY <1>2, Zenon DEF Init, Expires

\* Every step keeps every transaction in order.
LEMMA StepLife ==
  ASSUME Types, LifeInv, [Next]_vars
  PROVE  LifeInv'
<1>1. CASE UNCHANGED vars \/ Tick
  <2>1. UNCHANGED config /\ \A u \in Txns : LeavesAlone(u)
    BY <1>1, Zenon DEF Tick, vars, txnVars, LeavesAlone
  <2> QED BY <2>1, AloneLife, Zenon DEF LifeInv
<1>2. ASSUME NEW t \in Txns, StepOf(t)
      PROVE  LifeInv'
  <2>1. ASSUME NEW u \in Txns \ {t} PROVE Life(u)' /\ Asks(u)' /\ Expires(u)'
    BY <1>2, OthersAlone, AloneLife, Zenon DEF LifeInv
  <2>2. Life(t)' /\ Asks(t)' /\ Expires(t)'
    BY <1>2, AcquireLife, OwnStepLife, UnLockLife, TryLockLife, Zenon DEF LifeInv, StepOf
  <2> QED BY <2>1, <2>2, Zenon DEF LifeInv
<1> QED BY <1>1, <1>2, NextCases, Zenon

\* The facts about the life of a transaction hold throughout.
LEMMA LifeHolds == Spec => []LifeInv
<1>1. Types /\ LifeInv /\ [Next]_vars => LifeInv'
  BY StepLife, Zenon
<1> QED BY <1>1, InitLife, TypesHold, PTL DEF Spec

-----------------------------------------------------------------------------
(* No lock is left behind.                                                 *)

\* An attempt leaves the lock table alone, or changes the entry of one key
\* and grants the lock.
Grants(t, T) ==
  /\ Tracks(t) \/ KeepsIt(t) \/ GivesBack(t)
  /\ Robs(T)
  /\ Took(t, request[t].key, T) \/ Joined(t, request[t].key)

\* An attempt grants the lock, robbing some STARTED holders, or leaves the lock
\* table alone.
LEMMA AttemptLocks ==
  ASSUME Types, NEW t \in Txns, AcquireStep(t)
  PROVE  \/ /\ UNCHANGED lockVars
            /\ \/ GivesUp(t, "refused") \/ GoesOn(t)
               \/ /\ pc'[t] \in {"wait", "pass"} /\ tracked_keys'[t] = tracked_keys[t]
                  /\ unlocking'[t] = unlocking[t]
         \/ \E T \in SUBSET {u \in keys[request[t].key].txn_ids \ {t} :
                               txn_state[u] = "STARTED"} : Grants(t, T)
<1> DEFINE k == request[t].key
           victims == {u \in keys[k].txn_ids \ {t} : txn_state[u] = "STARTED"}
           Out == \/ /\ UNCHANGED lockVars
                     /\ GivesUp(t, "refused") \/ GoesOn(t)
                  \/ \E T \in SUBSET victims : Grants(t, T)
<1>1. k \in Keys
  BY AcquireResult, Zenon
<1>2. ASSUME NEW last \in BOOLEAN, AcquireLocked(t, last)
      PROVE  Out
  <2>1. PICK T \in SUBSET victims :
          Robs(T) /\ (Missed(t, last) \/ LetIn(t) \/ Took(t, k, T) \/ Joined(t, k))
    BY <1>1, <1>2, AcquireLockedAttempts, Zenon DEF Attempted
  <2>2. CASE Missed(t, last)
    BY <2>2, NotAcquiredResult, Zenon DEF Missed
  <2>3. CASE Took(t, k, T) \/ Joined(t, k)
    BY <1>1, <2>1, <2>3, GrantedResult, Zenon DEF Took, Joined, Grants
  <2>4. CASE LetIn(t)
    BY <2>4, Zenon DEF LetIn, BelowLimit, GoesOn, Types, CallTypes
  <2> QED BY <2>1, <2>2, <2>3, <2>4, Zenon
<1>3. CASE Acquire(t)
  <2>1. (Timeout(t) = 0) \in BOOLEAN
    BY Zenon
  <2>2. CASE AcquireLocked(t, Timeout(t) = 0)
    BY <1>2, <2>1, <2>2, Zenon
  <2>3. CASE Fails(t, "refused") /\ UNCHANGED <<lockVars, tracked_keys>>
    BY <2>3, FailsResult, Zenon
  <2> QED BY <1>3, <2>2, <2>3, Zenon DEF Acquire
<1>4. CASE Wake(t)
  <2>1. CASE AcquireLocked(t, TRUE) \/ AcquireLocked(t, FALSE)
    BY <1>2, <2>1, Zenon
  <2>2. CASE /\ pc' = [pc EXCEPT ![t] = "loop"]
             /\ UNCHANGED <<lockVars, stripe_mutex, txn_state, tracked_keys, request,
                            unlocking>>
    BY <2>2, Zenon DEF GoesOn, Types, CallTypes
  <2> QED BY <1>4, <2>1, <2>2, Zenon DEF Wake
<1>5. CASE Loop(t)
  <2>1. UNCHANGED lockVars
    BY <1>5, Zenon DEF Loop
  <2>2. CASE Refused(t)
    BY <2>1, <2>2, RefusedResult, Zenon
  <2>3. CASE /\ pc' \in {[pc EXCEPT ![t] = "wait"], [pc EXCEPT ![t] = "pass"]}
             /\ UNCHANGED <<tracked_keys, unlocking>>
    BY <2>1, <2>3, Zenon DEF Types, CallTypes
  <2> QED BY <1>5, <2>2, <2>3, Zenon DEF Loop
<1>6. CASE InsertLock(t)
  <2>1. Robs({}) /\ Took(t, k, {})
    BY <1>6, InsertTakes, Zenon
  <2>2. Grants(t, {})
    BY <1>1, <2>1, GrantedResult, Zenon DEF Grants, Took
  <2> QED BY <2>2, Zenon
<1> QED BY <1>3, <1>4, <1>5, <1>6, Zenon DEF AcquireStep

\* The entry of the key a grant leaves behind.
LEMMA GrantedEntry ==
  ASSUME Types, NEW t \in Txns, NEW T, request[t].key \in Keys, Grants(t, T)
  PROVE  /\ \A j \in Keys \ {request[t].key} : keys'[j] = keys[j]
         /\ \/ keys'[request[t].key] = LockInfo(t, request[t].exclusive)
            \/ /\ ~request[t].exclusive /\ ~keys[request[t].key].exclusive
               /\ \E e \in {keys[request[t].key].expiration_time, expiration_time[t]} :
                    keys'[request[t].key] =
                      [exclusive |-> FALSE, expiration_time |-> e,
                       txn_ids |-> keys[request[t].key].txn_ids \cup {t}]
BY Zenon DEF Grants, Took, Joined, Types, LockTypes

\* UnLock takes t off the locks of one stripe.
LEMMA UnLockEntry ==
  ASSUME Types, NEW t \in Txns, UnLock(t)
  PROVE  \E mine \in SUBSET unlocking[t].keys :
           /\ unlocking'[t].keys = unlocking[t].keys \ mine
           /\ unlocking'[t].tracked = unlocking[t].tracked
           /\ lock_cnt' = lock_cnt -
                (IF config.max_num_locks > 0
                 THEN Cardinality({k \in mine : t \in keys[k].txn_ids}) ELSE 0)
           /\ \A k \in Keys :
                keys'[k] = IF k \in mine /\ t \in keys[k].txn_ids
                           THEN UnLockKey(t, keys[k]) ELSE keys[k]
<1>1. PICK s \in {Stripe(k) : k \in unlocking[t].keys} :
        LET mine == {k \in unlocking[t].keys : Stripe(k) = s}
            found == {k \in mine : t \in keys[k].txn_ids}
        IN  /\ keys' = [k \in Keys |-> IF k \in found THEN UnLockKey(t, keys[k])
                                                      ELSE keys[k]]
            /\ lock_cnt' = lock_cnt - (IF config.max_num_locks > 0
                                       THEN Cardinality(found) ELSE 0)
            /\ unlocking' = [unlocking EXCEPT ![t].keys = @ \ mine, ![t].stripe = s]
  BY Zenon DEF UnLock
<1> DEFINE mine == {k \in unlocking[t].keys : Stripe(k) = s}
           found == {k \in mine : t \in keys[k].txn_ids}
           new == [unlocking[t] EXCEPT !.keys = @ \ mine, !.stripe = s]
<1>2. unlocking[t] \in UnLocks
  BY Zenon DEF Types, CallTypes
<1>3. new.keys = unlocking[t].keys \ mine /\ new.tracked = unlocking[t].tracked
  BY <1>2, Zenon DEF UnLocks
<1>4. unlocking' = [unlocking EXCEPT ![t] = new]
  BY <1>1, Zenon
<1>5. mine \in SUBSET unlocking[t].keys
  BY Zenon
<1>6. \A k \in Keys : keys'[k] = IF k \in mine /\ t \in keys[k].txn_ids
                                 THEN UnLockKey(t, keys[k]) ELSE keys[k]
  BY <1>1, Zenon
<1>7. lock_cnt' = lock_cnt - (IF config.max_num_locks > 0
                              THEN Cardinality({k \in mine : t \in keys[k].txn_ids}) ELSE 0)
  BY <1>1, Zenon
<1> HIDE DEF new
<1>8. unlocking'[t] = new
  BY <1>4, Zenon DEF Types, CallTypes
<1> HIDE DEF mine, found
<1> QED BY <1>3, <1>5, <1>6, <1>7, <1>8, Zenon

\* t accounts for its lock on k.
Accounts(t, k) ==
  /\ pc[t] # "gone"
  /\ k \in Tracked(t) \cup unlocking[t].keys
  /\ Unlocking(t) => k \in unlocking[t].keys \cup unlocking[t].tracked

\* After an attempt its own transaction accounts for what it holds.
LEMMA AcquireAccounts ==
  ASSUME Types, NEW t \in Txns, NEW k \in Keys, Life(t),
         t \in keys[k].txn_ids => Accounts(t, k),
         AcquireStep(t), t \in keys'[k].txn_ids
  PROVE  Accounts(t, k)'
<1> DEFINE q == request[t].key
<1>1. Acquiring(t) /\ q \in Keys
  BY AcquireResult, Zenon
<1>2. ~Unlocking(t) /\ unlocking[t].keys = {}
  BY <1>1 DEF Life, Acquiring, Unlocking, NoUnLock
<1>3. tracked_keys \in [Txns -> [Keys -> {"no", "shared", "exclusive"}]]
  BY Zenon DEF Types, TxnTypes
<1>4. CASE UNCHANGED lockVars
  <2>1. k \in Tracked(t)
    BY <1>2, <1>4, Zenon DEF Accounts, lockVars
  <2>2. CASE tracked_keys'[t] = tracked_keys[t] /\ unlocking'[t] = unlocking[t]
             /\ pc'[t] \in {"wait", "pass", "loop", "insert", "refused"}
    BY <2>1, <2>2, Zenon DEF Accounts, Tracked, Unlocking
  <2>3. CASE GivesUp(t, "refused") /\ pc'[t] = "unlock"
    BY <2>1, <2>3 DEF GivesUp, Accounts, Tracked, Unlocking
  <2>4. CASE \E T \in SUBSET {u \in keys[q].txn_ids \ {t} : txn_state[u] = "STARTED"} :
               Grants(t, T)
    <3>1. CASE Tracks(t)
      BY <1>1, <1>3, <2>1, <3>1, Zenon DEF Tracks, Mode, Accounts, Tracked, Unlocking
    <3>2. CASE KeepsIt(t)
      BY <2>1, <3>2, Zenon DEF KeepsIt, Accounts, Tracked, Unlocking
    <3>3. CASE GivesBack(t)
      BY <2>1, <3>3 DEF GivesBack, Accounts, Tracked, Unlocking
    <3> QED BY <2>4, <3>1, <3>2, <3>3, Zenon DEF Grants
  <2> QED BY <2>2, <2>3, <2>4, AttemptLocks, Zenon DEF GivesUp, GoesOn
<1>5. ASSUME NEW T, Grants(t, T)
      PROVE  Accounts(t, k)'
  <2>1. k = q \/ k \in Tracked(t)
    BY <1>1, <1>2, <1>5, GrantedEntry, ZenonT(30) DEF Accounts
  <2>2. CASE Tracks(t)
    BY <1>1, <1>3, <2>1, <2>2 DEF Tracks, Mode, Accounts, Tracked, Unlocking
  <2>3. CASE KeepsIt(t)
    BY <1>1, <2>1, <2>3, Zenon DEF KeepsIt, Accounts, Tracked, Unlocking
  <2>4. CASE GivesBack(t)
    BY <2>1, <2>4 DEF GivesBack, Accounts, Tracked, Unlocking
  <2> QED BY <1>5, <2>2, <2>3, <2>4, Zenon DEF Grants
<1> QED BY <1>4, <1>5, AttemptLocks, Zenon

\* After any other step of its own a transaction accounts for what it holds.
LEMMA OtherAccounts ==
  ASSUME Types, NEW t \in Txns, NEW k \in Keys, Life(t),
         t \in keys[k].txn_ids => Accounts(t, k),
         \/ \E j \in Keys, ex \in BOOLEAN : TryLock(t, j, ex)
         \/ UnLock(t) \/ NotifyAll(t) \/ UnLocked(t) \/ OwnStep(t),
         t \in keys'[k].txn_ids
  PROVE  Accounts(t, k)'
<1> USE DEF Types, TxnTypes, CallTypes
<1>1. CASE \E j \in Keys, ex \in BOOLEAN : TryLock(t, j, ex)
  BY <1>1, Zenon DEF TryLock, lockVars, Accounts, Tracked, Unlocking
<1>2. CASE UnLock(t)
  <2>1. PICK mine \in SUBSET unlocking[t].keys :
          /\ unlocking'[t].keys = unlocking[t].keys \ mine
          /\ unlocking'[t].tracked = unlocking[t].tracked
          /\ \A j \in Keys : keys'[j] = IF j \in mine /\ t \in keys[j].txn_ids
                                        THEN UnLockKey(t, keys[j]) ELSE keys[j]
    BY <1>2, UnLockEntry, ZenonT(30)
  <2>2. keys[k] \in LockInfos
    BY Zenon DEF LockTypes
  <2>3. t \notin UnLockKey(t, keys[k]).txn_ids
    BY <2>2, Zenon DEF UnLockKey, NotLocked, LockInfos
  <2>4. t \in keys[k].txn_ids /\ k \notin mine
    BY <2>1, <2>3, Zenon
  <2>5. pc[t] = "unlock" /\ pc'[t] = "notify" /\ UNCHANGED tracked_keys
    BY <1>2, Zenon DEF UnLock
  <2> QED BY <2>1, <2>4, <2>5, Zenon DEF Accounts, Tracked, Unlocking
<1>3. CASE NotifyAll(t)
  <2>1. unlocking[t] \in UnLocks
    BY Zenon
  <2>2. unlocking'[t] = [unlocking[t] EXCEPT !.stripe = 0]
    BY <1>3, Zenon DEF NotifyAll
  <2>3. unlocking'[t].keys = unlocking[t].keys /\ unlocking'[t].tracked = unlocking[t].tracked
    BY <2>1, <2>2, Zenon DEF UnLocks
  <2>4. pc[t] = "notify" /\ pc'[t] = "unlock" /\ UNCHANGED <<keys, tracked_keys>>
    BY <1>3, Zenon DEF NotifyAll, lockVars
  <2> QED BY <2>3, <2>4, Zenon DEF Accounts, Tracked, Unlocking
<1>4. CASE UnLocked(t)
  <2>1. /\ pc[t] = "unlock" /\ unlocking[t].keys = {} /\ pc'[t] = unlocking[t].next
        /\ unlocking'[t] = NoUnLock /\ UNCHANGED keys
        /\ \A j \in unlocking[t].tracked \cap Keys : tracked_keys'[t][j] = tracked_keys[t][j]
    BY <1>4, Zenon DEF UnLocked, lockVars
  <2>2. k \in unlocking[t].tracked /\ k \in Tracked(t)
    BY <2>1, Zenon DEF Accounts, Unlocking
  <2>3. unlocking[t].next \in {"idle", "refused", "over"}
    BY <2>1, <2>2, Zenon DEF Life, Unlocking, UnLocks
  <2> QED BY <2>1, <2>2, <2>3, Zenon DEF Accounts, Tracked, Unlocking
<1>5. CASE OwnStep(t)
  <2>1. /\ OwnResult(t) /\ ~Unlocking(t) /\ pc[t] # "gone"
        /\ UNCHANGED <<lockVars, tracked_keys>>
    BY <1>5, OwnStepResult, Zenon
  <2>2. k \in Tracked(t) /\ unlocking[t] = NoUnLock
    BY <2>1 DEF Accounts, Life, NoUnLock, lockVars
  <2>3. pc'[t] # "gone"
    BY <2>1, Zenon DEF OwnResult, Starts
  <2>4. Unlocking(t)' => k \in unlocking'[t].keys \cup unlocking'[t].tracked
    BY <2>1, <2>2 DEF OwnResult, Starts, Unlocking
  <2> QED BY <2>1, <2>2, <2>3, <2>4, Zenon DEF Accounts, Tracked
<1> QED BY <1>1, <1>2, <1>3, <1>4, <1>5, Zenon

\* A step of t makes nobody else a holder.
LEMMA HoldersKept ==
  ASSUME Types, NEW t \in Txns, NEW u \in Txns \ {t}, NEW k \in Keys,
         StepOf(t),
         u \in keys'[k].txn_ids
  PROVE  u \in keys[k].txn_ids
<1>1. CASE AcquireStep(t)
  <2>1. request[t].key \in Keys
    BY <1>1, AcquireResult, Zenon
  <2>2. ASSUME NEW T, Grants(t, T) PROVE u \in keys[k].txn_ids
    <3> DEFINE q == request[t].key
    <3>1. CASE k # q
      BY <2>1, <2>2, <3>1, GrantedEntry, ZenonT(30)
    <3>2. CASE k = q /\ keys'[q] = LockInfo(t, request[t].exclusive)
      BY <3>2 DEF LockInfo
    <3>3. CASE k = q /\ \E e \in {keys[q].expiration_time, expiration_time[t]} :
                 keys'[q] = [exclusive |-> FALSE, expiration_time |-> e,
                             txn_ids |-> keys[q].txn_ids \cup {t}]
      BY <3>3
    <3> QED BY <2>1, <2>2, <3>1, <3>2, <3>3, GrantedEntry, Zenon
  <2> QED BY <1>1, <2>2, AttemptLocks, Zenon DEF lockVars
<1>2. CASE UnLock(t)
  <2>1. keys[k] \in LockInfos
    BY Zenon DEF Types, LockTypes
  <2>2. keys'[k] \in {keys[k], UnLockKey(t, keys[k])}
    BY <1>2, UnLockEntry, Zenon
  <2>3. UnLockKey(t, keys[k]).txn_ids \subseteq keys[k].txn_ids
    BY <2>1, Zenon DEF UnLockKey, NotLocked, LockInfos
  <2> QED BY <2>2, <2>3, Zenon
<1>3. CASE NotifyAll(t) \/ UnLocked(t) \/ \E j \in Keys, ex \in BOOLEAN : TryLock(t, j, ex)
  BY <1>3, Zenon DEF NotifyAll, UnLocked, TryLock, lockVars
<1>4. CASE OwnStep(t)
  BY <1>4, Zenon DEF OwnStep, SetSavePoint, RollbackToSavePoint, Prepare, PrepareInternal,
    AwaitCommit, RefuseCommitTimeBatch, CommitInternal, End, Commit, Rollback, Delete, lockVars
<1> QED BY <1>1, <1>2, <1>3, <1>4, Zenon DEF StepOf

\* Every holder in the lock table still has the key among those its
\* transaction tracks or is about to unlock (NoOrphanLock), whatever the
\* interleaving of Commit, Rollback, timeouts, stealing and destructors: the
\* inductive invariant adds what Life says of UnLock's callers.
THEOREM LocksAccounted == Spec => []NoOrphanLock
<1> DEFINE Inv == LifeInv /\ NoOrphanLock
<1>1. NoOrphanLock <=> \A k \in Keys : \A t \in keys[k].txn_ids : Accounts(t, k)
  BY Zenon DEF NoOrphanLock, Accounts, Unlocking
<1>2. NoOrphanLock' <=> \A k \in Keys : \A t \in keys'[k].txn_ids : Accounts(t, k)'
  BY Zenon DEF NoOrphanLock, Accounts, Unlocking
<1>3. Init => Inv
  BY InitLife DEF Init, NoOrphanLock, NotLocked
<1>4. Types /\ Types' /\ Inv /\ [Next]_vars => Inv'
  <2> SUFFICES ASSUME Types, Types', LifeInv, NoOrphanLock, [Next]_vars PROVE NoOrphanLock'
    BY StepLife, Zenon
  <2>1. CASE UNCHANGED vars \/ Tick
    BY <2>1, Zenon DEF Tick, vars, lockVars, NoOrphanLock, Tracked
  <2>2. ASSUME NEW t \in Txns, StepOf(t),
               NEW k \in Keys, NEW u \in keys'[k].txn_ids
        PROVE  Accounts(u, k)'
    <3>1. u \in Txns
      BY Zenon DEF Types, LockTypes, LockInfos
    <3>2. CASE u = t
      <4>1. Life(t) /\ (t \in keys[k].txn_ids => Accounts(t, k))
        BY <1>1, Zenon DEF LifeInv
      <4>2. CASE AcquireStep(t)
        BY <3>2, <4>1, <4>2, AcquireAccounts, Zenon
      <4>3. CASE ~AcquireStep(t)
        BY <2>2, <3>2, <4>1, <4>3, OtherAccounts, Zenon DEF StepOf
      <4> QED BY <4>2, <4>3, Zenon
    <3>3. CASE u # t
      <4>1. u \in keys[k].txn_ids
        BY <2>2, <3>1, <3>3, HoldersKept, Zenon
      <4>2. LeavesAlone(u)
        BY <2>2, <3>1, <3>3, OthersAlone, Zenon
      <4>3. Accounts(u, k)
        BY <1>1, <4>1, Zenon
      <4> QED BY <4>2, <4>3, Zenon DEF LeavesAlone, Accounts, Tracked, Unlocking
    <3> QED BY <3>2, <3>3, Zenon
  <2> QED BY <1>2, <2>1, <2>2, NextCases, Zenon
<1> QED BY <1>3, <1>4, TypesHold, PTL DEF Spec

-----------------------------------------------------------------------------
(* The stripe mutexes.                                                     *)

AtMutex(t) == pc[t] \in {"loop", "pass", "insert"}

\* A thread in the loop of AcquireWithTimeout, or about to insert, has the
\* mutex of its stripe; the key it is about to insert is still free.
MutexInv ==
  /\ stripe_mutex \in [Stripes -> Txns \cup {NoTxn}]
  /\ \A t \in Txns : AtMutex(t) => stripe_mutex[Stripe(request[t].key)] = t
  /\ \A t \in Txns : pc[t] = "insert" => keys[request[t].key].txn_ids = {}

\* A step of AcquireWithTimeout touches the lock table only at its own key,
\* with the mutex of the stripe free or its own.
Guarded(t) ==
  LET s == Stripe(request[t].key) IN
  \/ UNCHANGED <<stripe_mutex, keys>> /\ ~AtMutex(t)'
  \/ /\ stripe_mutex[s] \in {NoTxn, t}
     /\ stripe_mutex' = [stripe_mutex EXCEPT ![s] = IF AtMutex(t)' THEN t ELSE NoTxn]
     /\ \A k \in Keys \ {request[t].key} : keys'[k] = keys[k]
     /\ AtMutex(t)' => request'[t].key = request[t].key
     /\ pc'[t] = "insert" => keys'[request[t].key].txn_ids = {}

\* What an attempt leaves of the mutex: it is kept by a thread that goes on.
LEMMA AttemptMutex ==
  ASSUME Types, NEW t \in Txns, request[t].key \in Keys,
         NEW last \in BOOLEAN, AcquireLocked(t, last),
         stripe_mutex[Stripe(request[t].key)] \in {NoTxn, t}
  PROVE  Guarded(t)
<1> DEFINE k == request[t].key
           s == Stripe(k)
<1>1. PICK T \in SUBSET {u \in keys[k].txn_ids \ {t} : txn_state[u] = "STARTED"} :
        Robs(T) /\ (Missed(t, last) \/ LetIn(t) \/ Took(t, k, T) \/ Joined(t, k))
  BY AcquireLockedAttempts, Zenon DEF Attempted
<1>2. keys \in [Keys -> LockInfos] /\ pc \in [Txns -> Pcs] /\ request \in [Txns -> Requests]
  BY Zenon DEF Types, LockTypes, CallTypes
<1>3. CASE Missed(t, last)
  <2>1. UNCHANGED keys
    BY <1>3, Zenon DEF Missed, lockVars
  <2>2. PICK result \in {"Busy", "TimedOut"}, ids \in SUBSET Txns, e \in Nat :
          NotAcquired(t, last, result, ids, e)
    BY <1>3, Zenon DEF Missed
  <2>3. CASE last
    <3>1. Refused(t)
      BY <2>2, <2>3, Zenon DEF NotAcquired
    <3>2. ~AtMutex(t)'
      BY <3>1, RefusedResult, Zenon DEF GivesUp, AtMutex
    <3> QED BY <2>1, <3>1, <3>2, Zenon DEF Refused, Guarded, AtMutex
  <2>4. CASE ~last
    <3>1. pc'[t] = "loop" /\ stripe_mutex' = [stripe_mutex EXCEPT ![s] = t]
      BY <1>2, <2>2, <2>4, Zenon DEF NotAcquired
    <3>2. GivesUp(t, "refused") \/ GoesOn(t)
      BY <2>2, NotAcquiredResult, Zenon
    <3>3. request'[t].key = request[t].key
      BY <3>1, <3>2, Zenon DEF GivesUp, GoesOn
    <3> QED BY <2>1, <3>1, <3>3, Zenon DEF Guarded, AtMutex
  <2> QED BY <2>3, <2>4, Zenon
<1>4. CASE LetIn(t)
  BY <1>2, <1>4, Zenon DEF LetIn, BelowLimit, Guarded, AtMutex, lockVars
<1>5. CASE Took(t, k, T) \/ Joined(t, k)
  <2>1. Granted(t) /\ \A j \in Keys \ {k} : keys'[j] = keys[j]
    BY <1>2, <1>5, Zenon DEF Took, Joined
  <2>2. ~AtMutex(t)' /\ pc'[t] # "insert"
    BY <2>1, GrantedResult, Zenon DEF Tracks, KeepsIt, GivesBack, AtMutex
  <2> QED BY <2>1, <2>2, Zenon DEF Granted, Guarded
<1> QED BY <1>1, <1>3, <1>4, <1>5, Zenon

\* Every step of AcquireWithTimeout is guarded.
LEMMA AcquireGuarded ==
  ASSUME Types, MutexInv, NEW t \in Txns, AcquireStep(t)
  PROVE  Guarded(t)
<1> DEFINE k == request[t].key
           s == Stripe(k)
<1>1. /\ Acquiring(t) /\ k \in Keys /\ pc \in [Txns -> Pcs]
      /\ request \in [Txns -> Requests]
  BY AcquireResult, Zenon DEF Types, CallTypes
<1>2. AtMutex(t) => stripe_mutex[s] = t
  BY Zenon DEF MutexInv
<1>3. CASE Acquire(t)
  <2>1. (Timeout(t) = 0) \in BOOLEAN
    BY Zenon
  <2>2. CASE stripe_mutex[s] = NoTxn /\ AcquireLocked(t, Timeout(t) = 0)
    BY <1>1, <2>1, <2>2, AttemptMutex, Zenon
  <2>3. CASE Fails(t, "refused") /\ UNCHANGED <<lockVars, stripe_mutex, tracked_keys>>
    <3>1. GivesUp(t, "refused")
      BY <2>3, FailsResult, Zenon
    <3> QED BY <2>3, <3>1, Zenon DEF GivesUp, Guarded, AtMutex, lockVars
  <2> QED BY <1>3, <2>2, <2>3, Zenon DEF Acquire
<1>4. CASE InsertLock(t)
  <2>1. Granted(t) /\ \A j \in Keys \ {k} : keys'[j] = keys[j]
    BY <1>4, Zenon DEF InsertLock, Types, LockTypes
  <2>2. ~AtMutex(t)' /\ pc'[t] # "insert"
    BY <1>1, <2>1, GrantedResult, Zenon DEF Tracks, KeepsIt, GivesBack, AtMutex
  <2>3. stripe_mutex[s] = t
    BY <1>2, <1>4, Zenon DEF InsertLock, AtMutex
  <2> QED BY <2>1, <2>2, <2>3, Zenon DEF Granted, Guarded
<1>5. CASE Wake(t)
  <2>1. CASE /\ AcquireLocked(t, TRUE) \/ AcquireLocked(t, FALSE)
             /\ stripe_mutex[s] = NoTxn \/ pc[t] = "pass"
    BY <1>1, <1>2, <2>1, AttemptMutex, Zenon DEF AtMutex
  <2>2. CASE /\ pc[t] = "pass" /\ pc' = [pc EXCEPT ![t] = "loop"]
             /\ UNCHANGED <<lockVars, stripe_mutex, request>>
    <3>1. stripe_mutex' = [stripe_mutex EXCEPT ![s] = t] /\ stripe_mutex[s] = t
      BY <1>1, <1>2, <2>2, Zenon DEF MutexInv, AtMutex, Stripes
    <3> QED BY <1>1, <2>2, <3>1, Zenon DEF Guarded, AtMutex, lockVars
  <2> QED BY <1>5, <2>1, <2>2, Zenon DEF Wake
<1>6. CASE Loop(t)
  <2>1. UNCHANGED keys /\ stripe_mutex[s] = t
    BY <1>2, <1>6, Zenon DEF Loop, AtMutex, lockVars
  <2>2. CASE Refused(t)
    <3>1. ~AtMutex(t)'
      BY <2>2, RefusedResult, Zenon DEF GivesUp, AtMutex
    <3> QED BY <2>1, <2>2, <3>1, Zenon DEF Refused, Guarded, AtMutex
  <2>3. ASSUME NEW waits \in BOOLEAN,
               pc' = [pc EXCEPT ![t] = IF waits THEN "wait" ELSE "pass"],
               stripe_mutex' = [stripe_mutex EXCEPT ![s] = IF waits THEN NoTxn ELSE t],
               request' = [request EXCEPT ![t].cv_end_time = CvEndTime(t)]
        PROVE  Guarded(t)
    <3>1. pc'[t] = (IF waits THEN "wait" ELSE "pass")
      BY <1>1, <2>3, Zenon
    <3>2. (AtMutex(t)' <=> ~waits) /\ pc'[t] # "insert"
      BY <3>1, Zenon DEF AtMutex
    <3>3. request'[t].key = request[t].key
      BY <1>1, <2>3, SMTT(30) DEF Requests
    <3> QED BY <2>1, <2>3, <3>2, <3>3, Zenon DEF Guarded
  <2> QED BY <1>6, <2>2, <2>3, Zenon DEF Loop
<1> QED BY <1>3, <1>4, <1>5, <1>6, Zenon DEF AcquireStep

\* No other step begins or ends with a stripe mutex.
LEMMA OutsideMutex ==
  ASSUME Types, NEW t \in Txns, StepOf(t), ~AcquireStep(t)
  PROVE  ~AtMutex(t) /\ ~AtMutex(t)'
<1>1. CASE OwnStep(t)
  BY <1>1, Zenon DEF OwnStep, SetSavePoint, RollbackToSavePoint, Prepare, PrepareInternal,
    AwaitCommit, RefuseCommitTimeBatch, CommitInternal, End, Commit, Rollback, Delete,
    Fails, StartUnLock, Goto, AtMutex, Types, CallTypes
<1>2. CASE ~OwnStep(t)
  BY <1>2, ZenonT(30) DEF StepOf, TryLock, UnLock, NotifyAll, UnLocked, AtMutex, Types,
    CallTypes, UnLocks
<1> QED BY <1>1, <1>2, Zenon

\* No step breaks MutexInv.
LEMMA StepMutex ==
  ASSUME Types, MutexInv, NEW t \in Txns, StepOf(t)
  PROVE  MutexInv'
<1>1. UNCHANGED config /\ \A u \in Txns \ {t} : LeavesAlone(u)
  BY OthersAlone, Zenon
<1>2. /\ Stripes' = Stripes /\ \A k : Stripe(k)' = Stripe(k)
      /\ \A k \in Keys : Stripe(k) \in Stripes
  BY <1>1, Zenon DEF Stripes, Stripe
<1>3. \A u \in Txns \ {t} : /\ AtMutex(u)' <=> AtMutex(u)
                            /\ pc'[u] = "insert" <=> pc[u] = "insert"
                            /\ request'[u] = request[u]
  BY <1>1, Zenon DEF LeavesAlone, AtMutex
<1>4. \A u \in Txns : u # NoTxn /\ (AtMutex(u) => request[u].key \in Keys)
  BY TxnsAndKeys, Zenon DEF Types, CallTypes, AtMutex, Acquiring
<1>5. ASSUME UNCHANGED stripe_mutex, ~AtMutex(t)',
             \A u \in Txns \ {t} : pc[u] = "insert" =>
               keys'[request[u].key] = keys[request[u].key]
      PROVE  MutexInv'
  <2>1. pc'[t] # "insert"
    BY <1>5, Zenon DEF AtMutex
  <2>2. stripe_mutex' \in [Stripes' -> Txns \cup {NoTxn}]
    BY <1>2, <1>5, Zenon DEF MutexInv
  <2>3. ASSUME NEW u \in Txns, AtMutex(u)' PROVE (stripe_mutex[Stripe(request[u].key)] = u)'
    <3>1. u # t /\ AtMutex(u) /\ request'[u] = request[u]
      BY <1>3, <1>5, <2>3, Zenon
    <3>2. stripe_mutex[Stripe(request[u].key)] = u
      BY <3>1, Zenon DEF MutexInv
    <3> QED BY <1>1, <1>5, <3>1, <3>2 DEF Stripe
  <2>4. ASSUME NEW u \in Txns, pc'[u] = "insert" PROVE keys'[request'[u].key].txn_ids = {}
    <3>1. u # t /\ pc[u] = "insert" /\ request'[u] = request[u]
      BY <1>3, <2>1, <2>4, Zenon
    <3>2. keys'[request[u].key] = keys[request[u].key]
      BY <1>5, <3>1, Zenon
    <3>3. keys[request[u].key].txn_ids = {}
      BY <3>1, Zenon DEF MutexInv
    <3> QED BY <3>1, <3>2, <3>3
  <2> QED BY <2>2, <2>3, <2>4, Zenon DEF MutexInv
<1>6. CASE AcquireStep(t)
  <2>1. CASE UNCHANGED <<stripe_mutex, keys>> /\ ~AtMutex(t)'
    BY <1>5, <2>1, Zenon
  <2> DEFINE s == Stripe(request[t].key)
  <2>2. CASE /\ stripe_mutex[s] \in {NoTxn, t}
             /\ stripe_mutex' = [stripe_mutex EXCEPT ![s] = IF AtMutex(t)' THEN t ELSE NoTxn]
             /\ \A k \in Keys \ {request[t].key} : keys'[k] = keys[k]
             /\ AtMutex(t)' => request'[t].key = request[t].key
             /\ pc'[t] = "insert" => keys'[request[t].key].txn_ids = {}
    <3>1. /\ request[t].key \in Keys /\ s \in Stripes
          /\ stripe_mutex \in [Stripes -> Txns \cup {NoTxn}]
      BY <1>2, <1>6, AcquireResult, Zenon DEF MutexInv
    <3>2. stripe_mutex' \in [Stripes -> Txns \cup {NoTxn}]
      BY <2>2, <3>1, Zenon
    <3>3. ASSUME AtMutex(t)'
          PROVE  /\ stripe_mutex'[Stripe(request'[t].key)] = t
                 /\ pc'[t] = "insert" => keys'[request'[t].key].txn_ids = {}
      BY <2>2, <3>1, <3>3, Zenon
    <3>4. ASSUME NEW u \in Txns \ {t}, AtMutex(u)
          PROVE  /\ stripe_mutex'[Stripe(request'[u].key)] = u
                 /\ pc[u] = "insert" => keys'[request'[u].key].txn_ids = {}
      <4>1. /\ stripe_mutex[Stripe(request[u].key)] = u
            /\ pc[u] = "insert" => keys[request[u].key].txn_ids = {}
        BY <3>4, Zenon DEF MutexInv
      <4>2. Stripe(request[u].key) # s /\ request[u].key # request[t].key
        BY <1>4, <2>2, <4>1, Zenon
      <4> QED BY <1>2, <1>3, <1>4, <2>2, <3>1, <3>4, <4>1, <4>2, Zenon
    <3>5. \A u \in Txns : pc'[u] = "insert" => AtMutex(u)'
      BY Zenon DEF AtMutex
    <3> HIDE DEF s
    <3> QED BY <1>2, <1>3, <3>2, <3>3, <3>4, <3>5, Zenon DEF MutexInv
  <2> QED BY <1>6, <2>1, <2>2, AcquireGuarded, Zenon DEF Guarded
<1>7. CASE UnLock(t)
  <2>1. /\ UNCHANGED stripe_mutex /\ pc' = [pc EXCEPT ![t] = "notify"]
    BY <1>7, Zenon DEF UnLock
  <2>2. ~AtMutex(t)'
    BY <2>1, Zenon DEF AtMutex, Types, CallTypes
  <2>3. PICK s \in {Stripe(k) : k \in unlocking[t].keys} :
          /\ stripe_mutex[s] = NoTxn
          /\ \A k \in Keys : Stripe(k) # s => keys'[k] = keys[k]
    BY <1>7, Zenon DEF UnLock
  <2>4. ASSUME NEW u \in Txns \ {t}, pc[u] = "insert"
        PROVE  keys'[request[u].key] = keys[request[u].key]
    <3>1. AtMutex(u) /\ request[u].key \in Keys
      BY <1>4, <2>4, Zenon DEF AtMutex
    <3>2. stripe_mutex[Stripe(request[u].key)] # NoTxn
      BY <1>4, <3>1, Zenon DEF MutexInv
    <3> QED BY <2>3, <3>1, <3>2, Zenon
  <2> QED BY <1>5, <2>1, <2>2, <2>4, Zenon
<1>8. CASE ~AcquireStep(t) /\ ~UnLock(t)
  <2>1. UNCHANGED <<keys, stripe_mutex>>
    BY <1>8, Zenon DEF StepOf, TryLock, NotifyAll, UnLocked, OwnStep, SetSavePoint,
      RollbackToSavePoint, Prepare, PrepareInternal, AwaitCommit, RefuseCommitTimeBatch,
      CommitInternal, End, Commit, Rollback, Delete, lockVars
  <2> QED BY <1>5, <1>8, <2>1, OutsideMutex, Zenon
<1> QED BY <1>6, <1>7, <1>8, Zenon

\* At the start every mutex is free.
LEMMA InitMutex == Init => MutexInv
<1> SUFFICES ASSUME Init PROVE MutexInv
  OBVIOUS
<1>1. \A t \in Txns : pc[t] \notin {"loop", "pass", "insert"}
  BY Zenon DEF Init
<1>2. stripe_mutex \in [Stripes -> Txns \cup {NoTxn}]
  BY Zenon DEF Init
<1> QED BY <1>1, <1>2, Zenon DEF MutexInv, AtMutex

\* The mutexes are as MutexInv says throughout.
LEMMA MutexHolds == Spec => []MutexInv
<1>2. Types /\ MutexInv /\ [Next]_vars => MutexInv'
  <2> SUFFICES ASSUME Types, MutexInv, [Next]_vars PROVE MutexInv'
    BY Zenon
  <2>1. CASE UNCHANGED vars \/ Tick
    <3>1. UNCHANGED <<config, keys, stripe_mutex, pc, request>>
      BY <2>1, Zenon DEF Tick, vars, lockVars
    <3> QED BY <3>1 DEF MutexInv, AtMutex, Stripes, Stripe
  <2> QED BY <2>1, StepMutex, NextCases, Zenon
<1> QED BY <1>2, InitMutex, TypesHold, PTL DEF Spec

-----------------------------------------------------------------------------
(* A commit has its locks.                                                 *)

\* Locks are shared only among transactions that all expire or all do not.
Uniform ==
  \/ \A t \in Txns : config.expiration[t] = 0
  \/ \A t \in Txns : config.expiration[t] > 0
  \/ \A t \in Txns : FALSE \notin config.modes[t]

\* A lock that can expire has only holders that can.
ExpireInv ==
  \A k \in Keys : keys[k].expiration_time > 0 =>
    \A t \in keys[k].txn_ids : config.expiration[t] > 0

\* A transaction that was not robbed has the locks it tracks, except those
\* it has already given back.
Owns(t) ==
  \A k \in Tracked(t) :
    (Unlocking(t) => k \in unlocking[t].keys \cup unlocking[t].tracked) => HoldsLock(t, k)

OwnInv == \A t \in Txns : txn_state[t] # "LOCKS_STOLEN" => Owns(t)

\* Only attempts and UnLock touch the lock table and the detector.
LEMMA QuietSteps ==
  ASSUME NEW t \in Txns, StepOf(t), ~AcquireStep(t), ~UnLock(t)
  PROVE  UNCHANGED <<config, lockVars, waitVars>>
<1>1. CASE OwnStep(t)
  BY <1>1, Zenon DEF OwnStep, SetSavePoint, RollbackToSavePoint, Prepare, PrepareInternal,
    AwaitCommit, RefuseCommitTimeBatch, CommitInternal, End, Commit, Rollback, Delete
<1>2. CASE ~OwnStep(t)
  BY <1>2, Zenon DEF StepOf, TryLock, NotifyAll, UnLocked
<1> QED BY <1>1, <1>2, Zenon

\* A lock can expire only if all its holders can.
LEMMA StepExpire ==
  ASSUME Types, LifeInv, Uniform, ExpireInv, NEW t \in Txns, StepOf(t)
  PROVE  ExpireInv'
<1>1. UNCHANGED config
  BY OthersAlone, Zenon
<1>2. config \in Configs /\ keys \in [Keys -> LockInfos] /\ expiration_time \in [Txns -> Nat]
  BY Zenon DEF Types, LockTypes, TxnTypes
<1>3. config.expiration \in [Txns -> Nat]
  BY <1>2, ConfigsOK, Zenon
<1> SUFFICES ASSUME NEW k \in Keys, keys'[k].expiration_time > 0, NEW u \in keys'[k].txn_ids
             PROVE  config.expiration[u] > 0
  BY <1>1, Zenon DEF ExpireInv
<1>4. keys[k] \in LockInfos /\ keys[k].txn_ids \in SUBSET Txns
      /\ keys[k].expiration_time \in Nat
  BY <1>2, Zenon DEF LockInfos
<1>5. CASE UNCHANGED lockVars
  BY <1>5, Zenon DEF ExpireInv, lockVars
<1>6. CASE UnLock(t)
  <2>1. keys'[k] \in {keys[k], UnLockKey(t, keys[k])}
    BY <1>6, UnLockEntry, Zenon
  <2>2. CASE keys'[k] = UnLockKey(t, keys[k])
    <3>1. /\ u \in keys[k].txn_ids
          /\ keys[k].expiration_time > 0
      BY <1>4, <2>2 DEF UnLockKey, NotLocked, LockInfos
    <3> QED BY <3>1, Zenon DEF ExpireInv
  <2> QED BY <2>1, <2>2, Zenon DEF ExpireInv
<1>7. ASSUME NEW T, Grants(t, T), Acquiring(t), request[t].key \in Keys
      PROVE  config.expiration[u] > 0
  <2> DEFINE q == request[t].key
  <2>1. CASE k # q
    <3>1. keys'[k] = keys[k]
      BY <1>7, <2>1, GrantedEntry, ZenonT(30)
    <3> QED BY <3>1, Zenon DEF ExpireInv
  <2>2. CASE k = q /\ keys'[q] = LockInfo(t, request[t].exclusive)
    BY <2>2 DEF LockInfo, LifeInv, Expires
  <2>3. CASE k = q /\ Joined(t, q)
    <3>1. ~request[t].exclusive /\ keys[q].txn_ids # {}
      BY <2>3, Zenon DEF Joined
    <3>2. PICK e \in {keys[q].expiration_time, expiration_time[t]} :
            keys' = [keys EXCEPT ![q] = [exclusive |-> FALSE, expiration_time |-> e,
                                         txn_ids |-> keys[q].txn_ids \cup {t}]]
      BY <2>3, Zenon DEF Joined
    <3>3. keys'[k].txn_ids = keys[k].txn_ids \cup {t} /\ keys'[k].expiration_time = e
      BY <1>2, <2>3, <3>2, Zenon
    <3>4. PICK v \in Txns : config.expiration[v] > 0
      BY <1>4, <2>3, <3>1, <3>3, Zenon DEF ExpireInv, LifeInv, Expires
    <3>5. request[t].exclusive \in config.modes[t] /\ request[t].exclusive \in BOOLEAN
      BY <1>7, Zenon DEF LifeInv, Asks, Types, CallTypes, Requests
    <3>6. \A w \in Txns : config.expiration[w] > 0
      BY <1>3, <3>1, <3>4, <3>5, Zenon DEF Uniform
    <3> QED BY <1>4, <3>3, <3>6, Zenon
  <2> QED BY <1>2, <1>7, <2>1, <2>2, <2>3, Zenon DEF Grants, Took
<1>8. CASE AcquireStep(t)
  BY <1>5, <1>7, <1>8, AttemptLocks, AcquireResult, Zenon
<1> QED BY <1>5, <1>6, <1>8, QuietSteps, Zenon

\* Another transaction keeps a lock it holds, or is told that it lost it.
LEMMA HoldsKept ==
  ASSUME Types, LifeInv, MutexInv, NoOrphanLock, ExpireInv, NEW t \in Txns, StepOf(t),
         NEW u \in Txns \ {t}, NEW k \in Keys, HoldsLock(u, k),
         txn_state'[u] # "LOCKS_STOLEN"
  PROVE  HoldsLock(u, k)'
<1>1. LeavesAlone(u)
  BY OthersAlone, Zenon
<1>2. /\ keys \in [Keys -> LockInfos] /\ keys[k] \in LockInfos
      /\ u \in keys[k].txn_ids /\ tracked_keys'[u][k] = tracked_keys[u][k]
  BY <1>1, Zenon DEF Types, LockTypes, HoldsLock, LeavesAlone
<1>3. CASE UNCHANGED lockVars
  BY <1>2, <1>3, Zenon DEF HoldsLock, lockVars
<1>4. CASE UnLock(t)
  <2>1. keys'[k] = keys[k] \/ (t \in keys[k].txn_ids /\ keys'[k] = UnLockKey(t, keys[k]))
    BY <1>4, UnLockEntry, Zenon
  <2>2. CASE t \in keys[k].txn_ids /\ keys'[k] = UnLockKey(t, keys[k])
    <3>1. tracked_keys[u][k] # "exclusive"
      BY <2>2, Zenon DEF HoldsLock
    <3>2. u \in keys'[k].txn_ids
      BY <1>2, <2>2, Zenon DEF UnLockKey, LockInfos
    <3> QED BY <1>2, <3>1, <3>2, Zenon DEF HoldsLock
  <2> QED BY <1>2, <2>1, <2>2, Zenon DEF HoldsLock
<1>5. ASSUME NEW T, Grants(t, T), request[t].key \in Keys
      PROVE  HoldsLock(u, k)'
  <2> DEFINE q == request[t].key
  <2>1. CASE k # q
    BY <1>2, <1>5, <2>1, GrantedEntry, ZenonT(30) DEF HoldsLock
  <2>2. CASE k = q /\ Took(t, q, T)
    <3>1. keys[k].expiration_time > 0 /\ (u \in expirable => u \in T)
      BY <1>2, <2>2, Zenon DEF Took, MutexInv
    <3>2. config.expiration[u] > 0 /\ pc[u] # "gone"
      BY <1>2, <3>1, Zenon DEF ExpireInv, NoOrphanLock
    <3>3. u \in T
      BY <3>1, <3>2, Zenon DEF LifeInv, Expires
    <3> QED BY <1>5, <3>3, Zenon DEF Grants, Robs
  <2>3. CASE k = q /\ Joined(t, q)
    <3>1. tracked_keys[u][k] # "exclusive"
      BY <2>3, Zenon DEF Joined, HoldsLock
    <3>2. u \in keys'[k].txn_ids
      BY <1>2, <2>3 DEF Joined
    <3> QED BY <1>2, <3>1, <3>2, Zenon DEF HoldsLock
  <2> QED BY <1>5, <2>1, <2>2, <2>3, Zenon DEF Grants
<1>6. CASE AcquireStep(t)
  BY <1>3, <1>5, <1>6, AttemptLocks, AcquireResult, Zenon
<1> QED BY <1>3, <1>4, <1>6, QuietSteps, Zenon

\* A transaction in AcquireWithTimeout keeps its locks and gets one more.
LEMMA AcquireOwns ==
  ASSUME Types, LifeInv, NEW t \in Txns, Owns(t), AcquireStep(t)
  PROVE  Owns(t)'
<1> DEFINE q == request[t].key
<1>1. /\ Acquiring(t) /\ q \in Keys /\ keys \in [Keys -> LockInfos]
      /\ tracked_keys \in [Txns -> [Keys -> {"no", "shared", "exclusive"}]]
  BY AcquireResult, Zenon DEF Types, LockTypes, TxnTypes
<1>2. \A k \in Tracked(t) : HoldsLock(t, k)
  BY <1>1, Zenon DEF Owns, Acquiring, Unlocking
<1>3. CASE UNCHANGED lockVars /\ tracked_keys'[t] = tracked_keys[t]
  BY <1>2, <1>3, Zenon DEF Owns, HoldsLock, Tracked, lockVars
<1>4. ASSUME NEW T, Grants(t, T)
      PROVE  Owns(t)'
  <2> SUFFICES ASSUME NEW k \in Keys, tracked_keys'[t][k] # "no" PROVE HoldsLock(t, k)'
    BY Zenon DEF Owns, Tracked
  <2>1. CASE k # q
    <3>1. keys'[k] = keys[k]
      BY <1>1, <1>4, <2>1, GrantedEntry, ZenonT(30)
    <3>2. tracked_keys'[t][k] = tracked_keys[t][k]
      BY <1>1, <1>4, <2>1, Zenon DEF Grants, Tracks, KeepsIt, GivesBack
    <3> QED BY <1>2, <3>1, <3>2, Zenon DEF HoldsLock, Tracked
  <2>2. CASE k = q
    <3>1. \/ tracked_keys[t][q] = "no"
          \/ request[t].exclusive /\ tracked_keys[t][q] = "shared"
      BY <1>1, Zenon DEF LifeInv, Asks
    <3>2. tracked_keys'[t][q] = "exclusive" => request[t].exclusive
      BY <1>1, <1>4, <3>1, Zenon DEF Grants, Tracks, KeepsIt, GivesBack, Mode
    <3>3. CASE keys'[q] = LockInfo(t, request[t].exclusive)
      <4>1. keys'[k].txn_ids = {t} /\ keys'[k].exclusive = request[t].exclusive
        BY <2>2, <3>3 DEF LockInfo
      <4> QED BY <2>2, <3>2, <4>1, Zenon DEF HoldsLock
    <3>4. CASE /\ ~request[t].exclusive
               /\ \E e \in {keys[q].expiration_time, expiration_time[t]} :
                    keys'[q] = [exclusive |-> FALSE, expiration_time |-> e,
                                txn_ids |-> keys[q].txn_ids \cup {t}]
      BY <2>2, <3>2, <3>4 DEF HoldsLock
    <3> QED BY <1>1, <1>4, <3>3, <3>4, GrantedEntry, Zenon
  <2> QED BY <2>1, <2>2, Zenon
<1> QED BY <1>3, <1>4, AttemptLocks, Zenon DEF GivesUp, GoesOn

\* A step of its own that is no attempt takes no lock from a transaction, except
\* those it gives back.
LEMMA OtherOwns ==
  ASSUME Types, LifeInv, NEW t \in Txns, Owns(t),
         StepOf(t), ~AcquireStep(t)
  PROVE  Owns(t)'
<1> USE DEF Types, TxnTypes, CallTypes
<1>1. CASE UnLock(t)
  <2>1. PICK mine \in SUBSET unlocking[t].keys :
          /\ unlocking'[t].keys = unlocking[t].keys \ mine
          /\ unlocking'[t].tracked = unlocking[t].tracked
          /\ \A j \in Keys : keys'[j] = IF j \in mine /\ t \in keys[j].txn_ids
                                        THEN UnLockKey(t, keys[j]) ELSE keys[j]
    BY <1>1, UnLockEntry, Zenon
  <2>2. pc[t] = "unlock" /\ pc'[t] = "notify" /\ UNCHANGED tracked_keys
    BY <1>1, Zenon DEF UnLock
  <2> SUFFICES ASSUME NEW k \in Keys, tracked_keys[t][k] # "no",
                      k \in (unlocking[t].keys \ mine) \cup unlocking[t].tracked
               PROVE  HoldsLock(t, k)'
    BY <2>1, <2>2, Zenon DEF Owns, Tracked, Unlocking
  <2>3. k \notin mine
    BY <2>1, Zenon DEF LifeInv, Life
  <2>4. HoldsLock(t, k)
    BY <2>2, Zenon DEF Owns, Tracked, Unlocking
  <2>5. keys'[k] = keys[k]
    BY <2>1, <2>3, Zenon
  <2> QED BY <2>2, <2>4, <2>5, Zenon DEF HoldsLock
<1>2. ASSUME UNCHANGED <<lockVars, tracked_keys>>, ~Unlocking(t)
      PROVE  Owns(t)'
  BY <1>2, Zenon DEF Owns, HoldsLock, Tracked, lockVars
<1>3. CASE \E k \in Keys, ex \in BOOLEAN : TryLock(t, k, ex)
  BY <1>2, <1>3, Zenon DEF TryLock, Unlocking
<1>4. CASE OwnStep(t)
  BY <1>2, <1>4, OwnStepResult, Zenon DEF LifeInv
<1>5. CASE NotifyAll(t)
  <2>1. unlocking[t] \in UnLocks
    BY Zenon
  <2>2. unlocking'[t] = [unlocking[t] EXCEPT !.stripe = 0]
    BY <1>5, Zenon DEF NotifyAll
  <2>3. unlocking'[t].keys = unlocking[t].keys /\ unlocking'[t].tracked = unlocking[t].tracked
    BY <2>1, <2>2, Zenon DEF UnLocks
  <2>4. pc[t] = "notify" /\ pc'[t] = "unlock" /\ UNCHANGED <<keys, tracked_keys>>
    BY <1>5, Zenon DEF NotifyAll, lockVars
  <2> QED BY <2>3, <2>4, Zenon DEF Owns, HoldsLock, Tracked, Unlocking
<1>6. CASE UnLocked(t)
  <2>1. /\ pc[t] = "unlock" /\ UNCHANGED keys
        /\ \A j \in Keys : tracked_keys'[t][j] =
             IF j \in unlocking[t].tracked THEN tracked_keys[t][j] ELSE "no"
    BY <1>6, Zenon DEF UnLocked, lockVars
  <2> SUFFICES ASSUME NEW k \in Keys, tracked_keys'[t][k] # "no" PROVE HoldsLock(t, k)'
    BY Zenon DEF Owns, Tracked
  <2>2. k \in unlocking[t].tracked /\ tracked_keys'[t][k] = tracked_keys[t][k]
    BY <2>1, Zenon
  <2>3. HoldsLock(t, k)
    BY <2>1, <2>2, Zenon DEF Owns, Tracked, Unlocking
  <2> QED BY <2>1, <2>2, <2>3, Zenon DEF HoldsLock
<1> QED BY <1>1, <1>3, <1>4, <1>5, <1>6, Zenon DEF StepOf

\* A transaction that was robbed stays so, unless it tracks no key any more.
LEMMA StolenStays ==
  ASSUME Types, LifeInv, NEW t \in Txns, StepOf(t), txn_state[t] = "LOCKS_STOLEN"
  PROVE  txn_state'[t] = "LOCKS_STOLEN" \/ Tracked(t)' = {}
<1>1. CASE AcquireStep(t)
  BY <1>1, AcquireResult, Zenon
<1>2. CASE OwnStep(t)
  BY <1>2, OwnStepResult, Zenon DEF LifeInv
<1>3. CASE UnLocked(t)
  <2>1. /\ pc[t] = "unlock"
        /\ \A j \in Keys : tracked_keys'[t][j] =
             IF j \in unlocking[t].tracked THEN tracked_keys[t][j] ELSE "no"
        /\ unlocking[t].state = "same" => txn_state'[t] = txn_state[t]
    BY <1>3, Zenon DEF UnLocked, Types, TxnTypes
  <2>2. unlocking[t].state # "same" => unlocking[t].tracked = {}
    BY <2>1, Zenon DEF LifeInv, Life, Unlocking
  <2> QED BY <2>1, <2>2, Zenon DEF Tracked
<1>4. CASE \/ UnLock(t) \/ NotifyAll(t)
           \/ \E k \in Keys, ex \in BOOLEAN : TryLock(t, k, ex)
  BY <1>4, Zenon DEF UnLock, NotifyAll, TryLock, txnVars
<1> QED BY <1>1, <1>2, <1>3, <1>4, Zenon DEF StepOf

\* No step, a theft included, breaks OwnInv.
LEMMA StepOwn ==
  ASSUME Types, LifeInv, MutexInv, NoOrphanLock, ExpireInv, OwnInv,
         NEW t \in Txns, StepOf(t)
  PROVE  OwnInv'
<1> SUFFICES ASSUME NEW u \in Txns, txn_state'[u] # "LOCKS_STOLEN" PROVE Owns(u)'
  BY Zenon DEF OwnInv
<1>1. CASE u = t
  <2>1. CASE txn_state[t] = "LOCKS_STOLEN"
    BY <1>1, <2>1, StolenStays, Zenon DEF Owns
  <2>2. CASE Owns(t)
    BY <1>1, <2>2, AcquireOwns, OtherOwns, Zenon
  <2> QED BY <2>1, <2>2, Zenon DEF OwnInv
<1>2. CASE u # t
  <2>1. LeavesAlone(u)
    BY <1>2, OthersAlone, Zenon
  <2>2. Owns(u) /\ Tracked(u)' = Tracked(u) /\ (Unlocking(u)' <=> Unlocking(u))
    BY <2>1, Zenon DEF OwnInv, LeavesAlone, Tracked, Unlocking
  <2>3. ASSUME NEW k \in Tracked(u), HoldsLock(u, k) PROVE HoldsLock(u, k)'
    BY <1>2, <2>3, HoldsKept, Zenon DEF Tracked
  <2> QED BY <2>1, <2>2, <2>3, Zenon DEF Owns, LeavesAlone
<1> QED BY <1>1, <1>2, Zenon

\* A transaction that writes its commit, or is prepared and not yet committed,
\* rolled back or deleted, holds every lock it tracks (CommitHoldsLocks),
\* however the expiration, the thieves and Commit or Prepare interleave, when
\* locks are shared only among transactions that all expire or all do not.
THEOREM CommitsHoldTheirLocks == Spec => [](Uniform => CommitHoldsLocks)
<1> DEFINE Inv == Uniform => ExpireInv /\ OwnInv
<1>1. Init => Inv
  BY DEF Init, ExpireInv, OwnInv, Owns, Tracked, NotLocked
<1>2. Types /\ LifeInv /\ MutexInv /\ NoOrphanLock /\ Inv /\ [Next]_vars => Inv'
  <2> SUFFICES ASSUME Types, LifeInv, MutexInv, NoOrphanLock, Inv, [Next]_vars PROVE Inv'
    BY Zenon
  <2>1. CASE UNCHANGED vars \/ Tick
    BY <2>1, Zenon DEF Tick, vars, lockVars, txnVars, Uniform, ExpireInv, OwnInv, Owns, Tracked,
      HoldsLock, Unlocking
  <2>2. ASSUME NEW t \in Txns, StepOf(t) PROVE Inv'
    <3>1. Uniform' => Uniform
      BY <2>2, OthersAlone, Zenon DEF Uniform
    <3> QED BY <2>2, <3>1, StepExpire, StepOwn, Zenon
  <2> QED BY <2>1, <2>2, NextCases, Zenon
<1>3. LifeInv /\ Inv => (Uniform => CommitHoldsLocks)
  <2> SUFFICES ASSUME LifeInv, OwnInv, NEW t \in Txns,
                      \/ pc[t] \in {"write", "writeprepared"}
                      \/ pc[t] \in {"prepared", "commit"} /\ txn_state[t] = "PREPARED",
                      NEW k \in Tracked(t)
               PROVE  HoldsLock(t, k)
    BY Zenon DEF CommitHoldsLocks
  <2>1. txn_state[t] # "LOCKS_STOLEN" /\ ~Unlocking(t)
    BY Zenon DEF LifeInv, Life, Unlocking
  <2> QED BY <2>1, Zenon DEF OwnInv, Owns
<1> QED BY <1>1, <1>2, <1>3, TypesHold, LifeHolds, MutexHolds, LocksAccounted, PTL DEF Spec

-----------------------------------------------------------------------------
(* Deadlock detection.                                                     *)

Waits(t) == pc[t] \in {"wait", "notified", "pass"}

\* A detecting transaction is in the map, with those it waits for, as long as
\* its thread is in the wait.
WaitInv ==
  \A t \in Txns :
    wait_txn_map[t] = IF Waits(t) /\ Registers(t) THEN request[t].wait_ids ELSE {}

\* After a first attempt or a wake-up the thread is not registered.
LEMMA AttemptEndsWait ==
  ASSUME Types, NEW t \in Txns, Acquire(t) \/ Wake(t)
  PROVE  ~Waits(t)'
<1>1. request[t].key \in Keys
  BY AcquireResult, Zenon DEF AcquireStep
<1>2. ASSUME NEW last \in BOOLEAN, AcquireLocked(t, last) PROVE ~Waits(t)'
  BY <1>1, <1>2, AttemptResult, Zenon
    DEF Answered, GivesUp, Tracks, KeepsIt, GivesBack, GoesOn, Waits
<1>3. CASE Acquire(t)
  <2>1. (Timeout(t) = 0) \in BOOLEAN
    BY Zenon
  <2>2. CASE Fails(t, "refused") /\ UNCHANGED tracked_keys
    <3>1. GivesUp(t, "refused")
      BY <2>2, FailsResult, Zenon
    <3> QED BY <3>1, Zenon DEF GivesUp, Waits
  <2>3. CASE AcquireLocked(t, Timeout(t) = 0)
    BY <1>2, <2>1, <2>3, Zenon
  <2> QED BY <1>3, <2>2, <2>3, Zenon DEF Acquire
<1>4. CASE Wake(t)
  <2>1. CASE pc' = [pc EXCEPT ![t] = "loop"]
    BY <2>1, Zenon DEF Types, CallTypes, Waits
  <2> QED BY <1>2, <1>4, <2>1, Zenon DEF Wake
<1> QED BY <1>3, <1>4, Zenon

\* The maps change in the loop of AcquireWithTimeout only: t enters them
\* before the wait and leaves them after it.
Enters(t) ==
  /\ Registers(t) /\ wait_txn_map[t] = {} /\ request[t].wait_ids \in SUBSET Txns
  /\ wait_txn_map' = [wait_txn_map EXCEPT ![t] = request[t].wait_ids]
  /\ rev_wait_txn_map' =
       [u \in Txns |-> rev_wait_txn_map[u] + (IF u \in request[t].wait_ids THEN 1 ELSE 0)]
  /\ ~Deadlocked(t, wait_txn_map', rev_wait_txn_map')
  /\ Waits(t)' /\ (Registers(t)' <=> Registers(t))
  /\ request'[t].wait_ids = request[t].wait_ids

Leaves(t) ==
  /\ Registers(t) /\ wait_txn_map[t] = request[t].wait_ids
  /\ wait_txn_map' = [wait_txn_map EXCEPT ![t] = {}]
  /\ rev_wait_txn_map' =
       [u \in Txns |-> rev_wait_txn_map[u] - (IF u \in request[t].wait_ids THEN 1 ELSE 0)]
  /\ ~Waits(t)'

\* A step that leaves the maps alone: t is not in the map before or after.
StaysOut(t) ==
  /\ UNCHANGED waitVars
  /\ \/ wait_txn_map[t] = {} /\ (~Waits(t)' \/ ~Registers(t)')
     \/ /\ Waits(t)' <=> Waits(t)
        /\ request'[t] = request[t]

\* A step registers its thread, deregisters it, or leaves the detector alone.
LEMMA StepWaits ==
  ASSUME Types, WaitInv, NEW t \in Txns, StepOf(t)
  PROVE  Enters(t) \/ Leaves(t) \/ StaysOut(t)
<1>1. UNCHANGED config
  BY OthersAlone, Zenon
<1>2. /\ wait_txn_map[t] = IF Waits(t) /\ Registers(t) THEN request[t].wait_ids ELSE {}
      /\ request[t] \in Requests /\ request[t].wait_ids \in SUBSET Txns
      /\ pc \in [Txns -> Pcs] /\ request \in [Txns -> Requests]
  BY Zenon DEF WaitInv, Types, CallTypes, Requests
<1>3. CASE Acquire(t)
  <2>1. pc[t] = "acquire" /\ UNCHANGED waitVars
    BY <1>3, Zenon DEF Acquire
  <2> QED BY <1>2, <1>3, <2>1, AttemptEndsWait, Zenon DEF StaysOut, Waits
<1>4. CASE Wake(t)
  <2>1. DecrementWaiters(t) /\ Waits(t)
    BY <1>4, Zenon DEF Wake, Waits
  <2>2. CASE Registers(t)
    BY <1>2, <1>4, <2>1, <2>2, AttemptEndsWait, Zenon DEF DecrementWaiters, Leaves
  <2>3. CASE ~Registers(t)
    BY <1>2, <1>4, <2>1, <2>3, AttemptEndsWait, Zenon DEF DecrementWaiters, StaysOut, waitVars
  <2> QED BY <2>2, <2>3, Zenon
<1>5. CASE Loop(t)
  <2> DEFINE ids == request[t].wait_ids
             map == [wait_txn_map EXCEPT ![t] = ids]
             rev == [u \in Txns |-> rev_wait_txn_map[u] + (IF u \in ids THEN 1 ELSE 0)]
  <2>1. pc[t] = "loop" /\ wait_txn_map[t] = {}
    BY <1>2, <1>5, Zenon DEF Loop, Waits
  <2>2. CASE Refused(t) /\ UNCHANGED waitVars
    BY <2>1, <2>2, RefusedResult, Zenon DEF GivesUp, StaysOut, Waits
  <2>3. CASE /\ ~(Registers(t) /\ Deadlocked(t, map, rev))
             /\ wait_txn_map' = IF Registers(t) THEN map ELSE wait_txn_map
             /\ rev_wait_txn_map' = IF Registers(t) THEN rev ELSE rev_wait_txn_map
             /\ pc' \in {[pc EXCEPT ![t] = "wait"], [pc EXCEPT ![t] = "pass"]}
             /\ request' = [request EXCEPT ![t].cv_end_time = CvEndTime(t)]
    <3> DEFINE new == [request[t] EXCEPT !.cv_end_time = CvEndTime(t)]
    <3>1. new.wait_ids = request[t].wait_ids
      BY <1>2, Zenon DEF Requests
    <3>2. request' = [request EXCEPT ![t] = new]
      BY <2>3, Zenon
    <3> HIDE DEF new
    <3>3. request'[t].wait_ids = request[t].wait_ids
      BY <1>2, <3>1, <3>2, Zenon
    <3>4. (Registers(t)' <=> Registers(t)) /\ Waits(t)'
      BY <1>1, <1>2, <2>3, <3>3, Zenon DEF Registers, Waits
    <3>5. CASE Registers(t)
      <4>1. /\ wait_txn_map' = map /\ rev_wait_txn_map' = rev
            /\ ~Deadlocked(t, map, rev)
        BY <2>3, <3>5, Zenon
      <4> HIDE DEF map, rev
      <4>2. ~Deadlocked(t, wait_txn_map', rev_wait_txn_map')
        BY <4>1, Zenon
      <4> QED BY <1>2, <2>1, <3>3, <3>4, <3>5, <4>1, <4>2, Zenon DEF Enters, map, rev
    <3>6. CASE ~Registers(t)
      BY <2>1, <2>3, <3>4, <3>6, Zenon DEF StaysOut, waitVars
    <3> QED BY <3>5, <3>6, Zenon
  <2> QED BY <1>5, <2>2, <2>3, Zenon DEF Loop
<1>6. CASE OwnStep(t)
  <2>1. UNCHANGED <<waitVars, request>> /\ ~Waits(t) /\ ~Waits(t)'
    BY <1>2, <1>6, Zenon DEF OwnStep, SetSavePoint, RollbackToSavePoint, Prepare, PrepareInternal,
      AwaitCommit, RefuseCommitTimeBatch, CommitInternal, End, Commit, Rollback, Delete, Fails, StartUnLock, Goto,
      Waits
  <2> QED BY <2>1, Zenon DEF StaysOut
<1>7. CASE UnLock(t) \/ NotifyAll(t) \/ UnLocked(t)
  <2>1. UNCHANGED <<waitVars, request>> /\ ~Waits(t) /\ ~Waits(t)'
    BY <1>2, <1>7, ZenonT(30) DEF UnLock, NotifyAll, UnLocked, Waits, Types, CallTypes, UnLocks
  <2> QED BY <2>1, Zenon DEF StaysOut
<1>8. CASE \E k \in Keys, ex \in BOOLEAN : TryLock(t, k, ex)
  <2>1. UNCHANGED waitVars /\ ~Waits(t) /\ ~Waits(t)'
    BY <1>2, <1>8, Zenon DEF TryLock, Waits
  <2> QED BY <1>2, <2>1, Zenon DEF StaysOut
<1>9. CASE InsertLock(t)
  <2>1. /\ UNCHANGED waitVars /\ ~Waits(t)
        /\ Tracks(t) \/ KeepsIt(t) \/ GivesBack(t)
    BY <1>9, InsertTakes, GrantedResult, Zenon DEF InsertLock, Took, Waits
  <2>2. ~Waits(t)'
    BY <2>1, Zenon DEF Tracks, KeepsIt, GivesBack, Waits
  <2> QED BY <1>2, <2>1, <2>2, Zenon DEF StaysOut
<1> QED BY <1>3, <1>4, <1>5, <1>6, <1>7, <1>8, <1>9, Zenon DEF StepOf, AcquireStep

\* No step breaks WaitInv.
LEMMA StepWaitInv ==
  ASSUME Types, WaitInv, NEW t \in Txns, StepOf(t)
  PROVE  WaitInv'
<1>1. wait_txn_map \in [Txns -> SUBSET Txns]
  BY Zenon DEF Types, LockTypes
<1>2. UNCHANGED config /\ \A u \in Txns \ {t} : LeavesAlone(u)
  BY OthersAlone, Zenon
<1>3. Enters(t) \/ Leaves(t) \/ StaysOut(t)
  BY StepWaits, Zenon
<1> SUFFICES ASSUME NEW u \in Txns
             PROVE  wait_txn_map'[u] =
                      IF Waits(u)' /\ Registers(u)' THEN request'[u].wait_ids ELSE {}
  BY Zenon DEF WaitInv
<1>4. wait_txn_map[u] = IF Waits(u) /\ Registers(u) THEN request[u].wait_ids ELSE {}
  BY Zenon DEF WaitInv
<1>5. CASE u # t
  <2>1. wait_txn_map'[u] = wait_txn_map[u]
    BY <1>1, <1>3, <1>5, Zenon DEF Enters, Leaves, StaysOut, waitVars
  <2>2. request'[u] = request[u] /\ (Waits(u)' <=> Waits(u)) /\ (Registers(u)' <=> Registers(u))
    BY <1>2, <1>5, Zenon DEF LeavesAlone, Waits, Registers
  <2> QED BY <1>4, <2>1, <2>2, Zenon
<1>6. CASE u = t /\ (Enters(t) \/ Leaves(t))
  BY <1>1, <1>6, Zenon DEF Enters, Leaves
<1>7. CASE u = t /\ StaysOut(t)
  <2>1. wait_txn_map'[u] = wait_txn_map[u]
    BY <1>7, Zenon DEF StaysOut, waitVars
  <2>2. CASE wait_txn_map[t] = {} /\ (~Waits(t)' \/ ~Registers(t)')
    BY <1>7, <2>1, <2>2, Zenon
  <2>3. CASE (Waits(t)' <=> Waits(t)) /\ request'[t] = request[t]
    <3>1. Registers(t)' <=> Registers(t)
      BY <1>2, <2>3, Zenon DEF Registers
    <3> QED BY <1>4, <1>7, <2>1, <2>3, <3>1, Zenon
  <2> QED BY <1>7, <2>2, <2>3, Zenon DEF StaysOut
<1> QED BY <1>3, <1>5, <1>6, <1>7, Zenon

\* How many wait for u, before and after t enters or leaves the map.
Waiters(u) == {t \in Txns : u \in wait_txn_map[t]}

\* A thread that registers adds one to the waiters of each it waits for.
LEMMA EntersCounts ==
  ASSUME Types, NEW t \in Txns, Enters(t), NEW u \in Txns
  PROVE  Cardinality(Waiters(u)') =
           Cardinality(Waiters(u)) + (IF u \in request[t].wait_ids THEN 1 ELSE 0)
<1>1. IsFiniteSet(Waiters(u)) /\ Cardinality(Waiters(u)) \in Nat
  <2>1. Waiters(u) \in SUBSET Txns
    BY Zenon DEF Waiters
  <2> QED BY <2>1, TxnsAndKeys, FS_Subset, FS_CardinalityType, Zenon
<1>2. wait_txn_map \in [Txns -> SUBSET Txns] /\ t \notin Waiters(u)
  BY Zenon DEF Types, LockTypes, Enters, Waiters
<1>3. CASE u \in request[t].wait_ids
  <2>1. Waiters(u)' = Waiters(u) \cup {t}
    BY <1>2, <1>3, Zenon DEF Enters, Waiters
  <2> QED BY <1>1, <1>2, <1>3, <2>1, FS_AddElement, Zenon
<1>4. CASE u \notin request[t].wait_ids
  <2>1. Waiters(u)' = Waiters(u)
    BY <1>2, <1>4, Zenon DEF Enters, Waiters
  <2> QED BY <1>1, <1>4, <2>1
<1> QED BY <1>3, <1>4, Zenon

\* A thread that deregisters takes one from the waiters of each it waited for.
LEMMA LeavesCounts ==
  ASSUME Types, NEW t \in Txns, Leaves(t), NEW u \in Txns
  PROVE  Cardinality(Waiters(u)') =
           Cardinality(Waiters(u)) - (IF u \in request[t].wait_ids THEN 1 ELSE 0)
<1>1. IsFiniteSet(Waiters(u)) /\ Cardinality(Waiters(u)) \in Nat
  <2>1. Waiters(u) \in SUBSET Txns
    BY Zenon DEF Waiters
  <2> QED BY <2>1, TxnsAndKeys, FS_Subset, FS_CardinalityType, Zenon
<1>2. wait_txn_map \in [Txns -> SUBSET Txns]
  BY Zenon DEF Types, LockTypes
<1>3. Waiters(u)' = Waiters(u) \ {t}
  BY <1>2, Zenon DEF Leaves, Waiters
<1>4. t \in Waiters(u) <=> u \in request[t].wait_ids
  BY Zenon DEF Leaves, Waiters
<1>5. Cardinality(Waiters(u) \ {t}) =
        IF t \in Waiters(u) THEN Cardinality(Waiters(u)) - 1 ELSE Cardinality(Waiters(u))
  BY <1>1, FS_RemoveElement, Zenon
<1> QED BY <1>1, <1>3, <1>4, <1>5, SMTT(30), SMTT(45)

\* No step breaks RevMapCounts.
LEMMA StepRevMap ==
  ASSUME Types, WaitInv, RevMapCounts, NEW t \in Txns, StepOf(t)
  PROVE  RevMapCounts'
<1> SUFFICES ASSUME NEW u \in Txns PROVE rev_wait_txn_map'[u] = Cardinality(Waiters(u)')
  BY Zenon DEF RevMapCounts, Waiters
<1>1. rev_wait_txn_map[u] = Cardinality(Waiters(u))
  BY Zenon DEF RevMapCounts, Waiters
<1>2. CASE Enters(t)
  BY <1>1, <1>2, EntersCounts, Zenon DEF Enters
<1>3. CASE Leaves(t)
  BY <1>1, <1>3, LeavesCounts, Zenon DEF Leaves
<1>4. CASE StaysOut(t)
  BY <1>1, <1>4, Zenon DEF StaysOut, waitVars, Waiters
<1> QED BY <1>2, <1>3, <1>4, StepWaits, Zenon

\* rev_wait_txn_map_ counts exactly the waiters of wait_txn_map_
\* (RevMapCounts), although IncrementWaiters and DecrementWaiters are called
\* far apart: the inductive invariant says what the map has for a thread at
\* every place of AcquireWithTimeout.
THEOREM CountsAreExact == Spec => []RevMapCounts
<1>1. Init => WaitInv /\ RevMapCounts
  <2> SUFFICES ASSUME Init PROVE WaitInv /\ RevMapCounts
    BY Zenon
  <2>1. WaitInv
    BY Zenon DEF Init, WaitInv, Waits
  <2>2. ASSUME NEW u \in Txns PROVE rev_wait_txn_map[u] = Cardinality(Waiters(u))
    <3>1. Waiters(u) = {}
      BY Zenon DEF Init, Waiters
    <3> QED BY <3>1, FS_EmptySet, Zenon DEF Init
  <2> QED BY <2>1, <2>2, Zenon DEF RevMapCounts, Waiters
<1>2. Types /\ WaitInv /\ RevMapCounts /\ [Next]_vars => WaitInv' /\ RevMapCounts'
  <2> SUFFICES ASSUME Types, WaitInv, RevMapCounts, [Next]_vars
               PROVE  WaitInv' /\ RevMapCounts'
    BY Zenon
  <2>1. CASE UNCHANGED vars \/ Tick
    BY <2>1, Zenon DEF Tick, vars, waitVars, WaitInv, RevMapCounts, Registers, Waits
  <2>2. ASSUME NEW t \in Txns, StepOf(t) PROVE WaitInv' /\ RevMapCounts'
    BY <2>2, StepWaitInv, StepRevMap, Zenon
  <2> QED BY <2>1, <2>2, NextCases, Zenon
<1> QED BY <1>1, <1>2, TypesHold, PTL DEF Spec

\* A waiter that is let in closes no circle: nobody waits for it, or those it
\* waits for lead to a closed set it is not in.
LEMMA EntersNoDeadlock ==
  ASSUME Types, Types', NoDeadlock, RevMapCounts', NEW t \in Txns, Enters(t)
  PROVE  NoDeadlock'
<1> DEFINE ids == request[t].wait_ids
<1>1. /\ wait_txn_map \in [Txns -> SUBSET Txns] /\ ids \in SUBSET Txns
      /\ wait_txn_map' = [wait_txn_map EXCEPT ![t] = ids]
      /\ ~Deadlocked(t, wait_txn_map', rev_wait_txn_map')
  BY Zenon DEF Types, LockTypes, Enters
<1>2. wait_txn_map'[t] = ids /\ \A v \in Txns \ {t} : wait_txn_map'[v] = wait_txn_map[v]
  BY <1>1, Zenon
<1>3. ASSUME NEW S \in SUBSET Txns, S # {}, \A v \in S : wait_txn_map[v] \cap S # {}
      PROVE  FALSE
  BY <1>3, Zenon DEF NoDeadlock
<1> SUFFICES ASSUME NEW S \in SUBSET Txns, S # {}, \A v \in S : wait_txn_map'[v] \cap S # {}
             PROVE  FALSE
  BY Zenon DEF NoDeadlock
<1>4. t \in S
  BY <1>2, <1>3, Zenon
<1>5. CASE ~(rev_wait_txn_map'[t] > 0)
  <2>1. {v \in Txns : t \in wait_txn_map'[v]} = {}
    <3> DEFINE W == {v \in Txns : t \in wait_txn_map'[v]}
    <3>1. W \in SUBSET Txns
      BY Zenon
    <3>2. rev_wait_txn_map'[t] = Cardinality(W)
      BY Zenon DEF RevMapCounts
    <3> HIDE DEF W
    <3>3. IsFiniteSet(W) /\ Cardinality(W) \in Nat
      BY <3>1, TxnsAndKeys, FS_Subset, FS_CardinalityType, Zenon
    <3>4. Cardinality(W) = 0
      BY <1>5, <3>2, <3>3
    <3>5. W = {}
      BY <3>3, <3>4, FS_EmptySet, Zenon
    <3> QED BY <3>5, Zenon DEF W
  <2>2. \A v \in S \ {t} : wait_txn_map[v] \cap (S \ {t}) # {}
    BY <1>2, <2>1
  <2>3. S \ {t} # {}
    BY <1>4, <2>1, Zenon
  <2> QED BY <1>3, <2>2, <2>3, Zenon
<1>6. CASE t \notin Reachable(wait_txn_map', wait_txn_map'[t])
  <2>1. PICK C \in SUBSET Txns :
          /\ ids \subseteq C /\ t \notin C
          /\ \A v \in C : wait_txn_map'[v] \subseteq C
    BY <1>2, <1>6, Zenon DEF Reachable
  <2>2. S \cap C # {}
    BY <1>2, <1>4, <2>1, Zenon
  <2>3. \A v \in S \cap C : wait_txn_map[v] \cap (S \cap C) # {}
    BY <1>2, <2>1, Zenon
  <2> QED BY <1>3, <2>2, <2>3, Zenon
<1> QED BY <1>1, <1>5, <1>6, Zenon DEF Deadlocked

\* No step closes a circle of waiters.
LEMMA StepNoDeadlock ==
  ASSUME Types, Types', WaitInv, NoDeadlock, RevMapCounts', NEW t \in Txns, StepOf(t)
  PROVE  NoDeadlock'
<1>1. wait_txn_map \in [Txns -> SUBSET Txns]
  BY Zenon DEF Types, LockTypes
<1>2. ASSUME \A u \in Txns : wait_txn_map'[u] \subseteq wait_txn_map[u]
      PROVE  NoDeadlock'
  BY <1>2 DEF NoDeadlock
<1>3. CASE Leaves(t)
  BY <1>1, <1>2, <1>3, Zenon DEF Leaves
<1>4. CASE StaysOut(t)
  BY <1>2, <1>4, Zenon DEF StaysOut, waitVars
<1> QED BY <1>3, <1>4, EntersNoDeadlock, StepWaits, Zenon

\* The transactions that detect deadlocks never wait for each other in a
\* circle (NoDeadlock), for any number of them: the test of IncrementWaiters
\* finds every circle its caller would close, and its early exit on
\* rev_wait_txn_map_ hides none because the counts are exact.
THEOREM NoCircleOfWaiters == Spec => []NoDeadlock
<1> DEFINE Inv == WaitInv /\ NoDeadlock
<1>1. Init => Inv
  <2> SUFFICES ASSUME Init PROVE WaitInv /\ NoDeadlock
    BY Zenon
  <2>1. \A t \in Txns : wait_txn_map[t] = {} /\ ~Waits(t)
    BY Zenon DEF Init, Waits
  <2>2. WaitInv
    BY <2>1, Zenon DEF WaitInv
  <2>3. NoDeadlock
    BY <2>1, Zenon DEF NoDeadlock
  <2> QED BY <2>2, <2>3, Zenon
<1>2. Types /\ Types' /\ RevMapCounts' /\ Inv /\ [Next]_vars => Inv'
  <2> SUFFICES ASSUME Types, Types', RevMapCounts', WaitInv, NoDeadlock, [Next]_vars
               PROVE  WaitInv' /\ NoDeadlock'
    BY Zenon
  <2>1. CASE UNCHANGED vars \/ Tick
    BY <2>1, Zenon DEF Tick, vars, waitVars, WaitInv, NoDeadlock, Registers, Waits
  <2>2. ASSUME NEW t \in Txns, StepOf(t) PROVE WaitInv' /\ NoDeadlock'
    BY <2>2, StepWaitInv, StepNoDeadlock, Zenon
  <2> QED BY <2>1, <2>2, NextCases, Zenon
<1> QED BY <1>1, <1>2, TypesHold, CountsAreExact, PTL DEF Spec

-----------------------------------------------------------------------------
(* The limit on the locks.                                                 *)

OnlyExclusive == \A t \in Txns : FALSE \notin config.modes[t]

\* Exclusive locks have one holder.
OneHolder == \A k \in Keys : \A t \in keys[k].txn_ids : keys[k].txn_ids = {t}

Held == {k \in Keys : keys[k].txn_ids # {}}

\* The threads that the load of lock_cnt let in and that have not counted yet.
Inserting == {t \in Txns : pc[t] = "insert"}

CountInv ==
  /\ lock_cnt = Cardinality(Held)
  /\ lock_cnt + Cardinality(Inserting) <= config.max_num_locks + Cardinality(Stripes) - 1

\* The locked keys can be counted.
LEMMA HeldFinite ==
  /\ IsFiniteSet(Held) /\ Cardinality(Held) \in Nat
  /\ \A S \in SUBSET Held : IsFiniteSet(S) /\ Cardinality(S) \in Nat
<1>1. Held \in SUBSET Keys
  BY Zenon DEF Held
<1>2. \A S \in SUBSET Keys : IsFiniteSet(S) /\ Cardinality(S) \in Nat
  BY TxnsAndKeys, FS_Subset, FS_CardinalityType, Zenon
<1> QED BY <1>1, <1>2, Zenon

\* The stripes and the threads about to insert can be counted, and there is at
\* most one such thread for each stripe, because it has the stripe's mutex.
LEMMA InsertingBound ==
  ASSUME Types, MutexInv
  PROVE  /\ IsFiniteSet(Inserting) /\ Cardinality(Inserting) \in Nat
         /\ Cardinality(Stripes) \in Nat
         /\ Cardinality(Inserting) <= Cardinality(Stripes)
<1>1. IsFiniteSet(Inserting) /\ Cardinality(Inserting) \in Nat
  <2>1. Inserting \in SUBSET Txns
    BY Zenon DEF Inserting
  <2> QED BY <2>1, TxnsAndKeys, FS_Subset, FS_CardinalityType, Zenon
<1>2. IsFiniteSet(Stripes)
  <2> DEFINE f == [k \in Keys |-> Stripe(k)]
  <2>1. f \in Surjection(Keys, Stripes)
    BY Zenon DEF Surjection, Stripes
  <2> HIDE DEF f
  <2> QED BY <2>1, TxnsAndKeys, FS_Surjection, Zenon
<1>3. Cardinality(Stripes) \in Nat
  BY <1>2, FS_CardinalityType, Zenon
<1>4. Cardinality(Inserting) <= Cardinality(Stripes)
  <2> DEFINE f == [t \in Inserting |-> Stripe(request[t].key)]
  <2>1. \A t \in Inserting : /\ Stripe(request[t].key) \in Stripes
                             /\ stripe_mutex[Stripe(request[t].key)] = t
    BY Zenon DEF Inserting, MutexInv, AtMutex, Stripes, Types, CallTypes, Acquiring
  <2>2. f \in Injection(Inserting, Stripes)
    BY <2>1, Zenon DEF Injection, IsInjective
  <2> HIDE DEF f
  <2> QED BY <1>2, <2>2, FS_Injection, Zenon
<1> QED BY <1>1, <1>3, <1>4, Zenon

LEMMA InsertingFits ==
  Types /\ MutexInv => /\ Cardinality(Inserting) \in Nat
                       /\ Cardinality(Inserting) <= Cardinality(Stripes)
BY InsertingBound, Zenon

\* A grant keeps the count of locked keys exact and within the limit.
LEMMA GrantCounts ==
  ASSUME Types, LifeInv, MutexInv, OnlyExclusive, config.max_num_locks > 0, OneHolder,
         CountInv, NEW t \in Txns, NEW T, Acquiring(t), Grants(t, T), UNCHANGED config,
         \A u \in Txns \ {t} : LeavesAlone(u)
  PROVE  OneHolder' /\ CountInv'
<1> DEFINE q == request[t].key
<1>1. q \in Keys /\ keys \in [Keys -> LockInfos] /\ config \in Configs
  BY Zenon DEF Types, LockTypes, CallTypes
<1>2. request[t].exclusive
  <2>1. request[t].exclusive \in BOOLEAN /\ request[t].exclusive \in config.modes[t]
    BY Zenon DEF LifeInv, Asks, Types, CallTypes, Requests
  <2>2. FALSE \notin config.modes[t]
    BY Zenon DEF OnlyExclusive
  <2> QED BY <2>1, <2>2, Zenon
<1>3. Took(t, q, T)
  BY <1>2, Zenon DEF Grants, Joined
<1>4. keys' = [keys EXCEPT ![q] = LockInfo(t, request[t].exclusive)]
  BY <1>3, Zenon DEF Took
<1>5. keys'[q].txn_ids = {t} /\ \A k \in Keys \ {q} : keys'[k] = keys[k]
  BY <1>1, <1>4, Zenon DEF LockInfo
<1>6. OneHolder'
  BY <1>5, Zenon DEF OneHolder
<1>7. Held' = Held \cup {q}
  BY <1>1, <1>5, Zenon DEF Held
<1>8. config.max_num_locks \in Nat
  BY <1>1, ConfigsOK, Zenon
<1>9. Inserting' = Inserting \ {t} /\ Stripes' = Stripes
  <2>1. pc'[t] # "insert"
    BY Zenon DEF Grants, Tracks, KeepsIt, GivesBack
  <2>2. \A u \in Txns \ {t} : pc'[u] = "insert" <=> pc[u] = "insert"
    BY Zenon DEF LeavesAlone
  <2> QED BY <2>1, <2>2, Zenon DEF Inserting, Stripes, Stripe
<1>10. /\ IsFiniteSet(Inserting) /\ Cardinality(Inserting) \in Nat
       /\ Cardinality(Stripes) \in Nat
  BY InsertingBound, Zenon
<1>11. Cardinality(Inserting') = IF pc[t] = "insert" THEN Cardinality(Inserting) - 1
                                 ELSE Cardinality(Inserting)
  <2>1. t \in Inserting <=> pc[t] = "insert"
    BY Zenon DEF Inserting
  <2>2. Cardinality(Inserting \ {t}) = IF t \in Inserting THEN Cardinality(Inserting) - 1
                                       ELSE Cardinality(Inserting)
    BY <1>10, FS_RemoveElement, Zenon
  <2> QED BY <1>9, <2>1, <2>2, Zenon
<1>12. CASE pc[t] = "insert"
  <2>1. q \notin Held
    BY <1>12, Zenon DEF Held, MutexInv
  <2>2. Cardinality(Held') = Cardinality(Held) + 1
    BY <1>7, <2>1, HeldFinite, FS_AddElement, Zenon
  <2>3. lock_cnt' = lock_cnt + 1
    <3>1. keys[q].txn_ids = {} /\ config.max_num_locks # 0
      BY <1>12 DEF MutexInv
    <3> QED BY <1>3, <3>1, Zenon DEF Took
  <2> QED BY <1>6, <1>8, <1>9, <1>10, <1>11, <1>12, <2>2, <2>3, HeldFinite DEF CountInv
<1>13. CASE pc[t] # "insert"
  <2>1. config.max_num_locks # 0
    OBVIOUS
  <2>2. keys[q].txn_ids # {} /\ UNCHANGED lock_cnt
    BY <1>3, <1>13, <2>1, Zenon DEF Took
  <2>3. Held' = Held
    BY <1>1, <1>7, <2>2, Zenon DEF Held
  <2> QED BY <1>6, <1>9, <1>11, <1>13, <2>2, <2>3, Zenon DEF CountInv
<1> QED BY <1>12, <1>13, Zenon

\* A thread that is let in is one of at most one for each stripe.
LEMMA LetInCounts ==
  ASSUME Types, Types', MutexInv, MutexInv', config.max_num_locks > 0, OneHolder, CountInv,
         NEW t \in Txns, GoesOn(t), UNCHANGED <<config, lockVars>>,
         \A u \in Txns \ {t} : LeavesAlone(u)
  PROVE  OneHolder' /\ CountInv'
<1>1. OneHolder' /\ Held' = Held /\ Stripes' = Stripes
  BY Zenon DEF OneHolder, Held, Stripes, Stripe, lockVars
<1>2. \A u \in Txns \ {t} : pc'[u] = "insert" <=> pc[u] = "insert"
  BY Zenon DEF LeavesAlone
<1>3. /\ IsFiniteSet(Inserting) /\ Cardinality(Inserting) \in Nat
      /\ Cardinality(Stripes) \in Nat
  BY InsertingBound, Zenon
<1>4. (/\ Cardinality(Inserting) \in Nat
       /\ Cardinality(Inserting) <= Cardinality(Stripes))'
  BY InsertingFits, PTL
<1>5. config.max_num_locks \in Nat /\ Cardinality(Held) \in Nat
  BY ConfigsOK, HeldFinite, Zenon DEF Types, LockTypes
<1>6. CASE pc'[t] = "insert"
  <2>1. ~(lock_cnt >= config.max_num_locks)
    BY <1>6, Zenon DEF GoesOn, Full
  <2> QED BY <1>1, <1>3, <1>4, <1>5, <2>1 DEF CountInv, lockVars
<1>7. CASE pc'[t] # "insert"
  <2>1. Inserting' = Inserting \ {t}
    BY <1>2, <1>7, Zenon DEF Inserting
  <2>2. Cardinality(Inserting') \in {Cardinality(Inserting) - 1, Cardinality(Inserting)}
    BY <1>3, <2>1, FS_RemoveElement, Zenon
  <2> QED BY <1>1, <1>3, <1>5, <2>2 DEF CountInv, lockVars
<1> QED BY <1>6, <1>7, Zenon

\* Unlocking keeps the count of locked keys exact and within the limit.
LEMMA UnLockCounts ==
  ASSUME Types, MutexInv, config.max_num_locks > 0, OneHolder, CountInv,
         NEW t \in Txns, UnLock(t), UNCHANGED config, Inserting' = Inserting
  PROVE  OneHolder' /\ CountInv'
<1>1. PICK mine \in SUBSET unlocking[t].keys :
        /\ lock_cnt' = lock_cnt - (IF config.max_num_locks > 0
             THEN Cardinality({k \in mine : t \in keys[k].txn_ids}) ELSE 0)
        /\ \A k \in Keys : keys'[k] = IF k \in mine /\ t \in keys[k].txn_ids
                                      THEN UnLockKey(t, keys[k]) ELSE keys[k]
  BY UnLockEntry, Zenon
<1> DEFINE found == {k \in mine : t \in keys[k].txn_ids}
<1>2. unlocking[t].keys \in SUBSET Keys /\ config \in Configs
  BY Zenon DEF Types, LockTypes, CallTypes, UnLocks
<1>3. config.max_num_locks \in Nat
  BY <1>2, ConfigsOK, Zenon
<1>4. found \in SUBSET Held
  BY <1>2, Zenon DEF Held
<1>5. \A k \in Keys : keys'[k] = IF k \in found THEN NotLocked ELSE keys[k]
  BY <1>1, Zenon DEF OneHolder, UnLockKey
<1>6. lock_cnt' = lock_cnt - Cardinality(found)
  BY <1>1, Zenon
<1> HIDE DEF found
<1>7. OneHolder'
  BY <1>5 DEF OneHolder, NotLocked
<1>8. Held' = Held \ found
  BY <1>4, <1>5 DEF Held, NotLocked
<1>9. Cardinality(Held') = Cardinality(Held) - Cardinality(found)
  <2>1. Held \cap found = found
    BY <1>4, Zenon
  <2>2. Cardinality(Held \ found) = Cardinality(Held) - Cardinality(Held \cap found)
    BY HeldFinite, FS_Difference, Zenon
  <2> QED BY <1>8, <2>1, <2>2, Zenon
<1>10. Cardinality(Held) \in Nat /\ Cardinality(found) \in Nat
  BY <1>4, HeldFinite, Zenon
<1>11. Cardinality(Inserting) \in Nat /\ Cardinality(Stripes) \in Nat
       /\ Stripes' = Stripes
  BY InsertingBound, Zenon DEF Stripes, Stripe
<1> QED BY <1>3, <1>6, <1>7, <1>9, <1>10, <1>11 DEF CountInv

\* With exclusive locks lock_cnt is exactly the number of locked keys, and it
\* passes max_num_locks_ by at most one lock for every stripe but one
\* (LimitHolds), whatever is granted, stolen, taken again or given back in any
\* order.  The load of lock_cnt and its increment are apart; what bounds the
\* excess is that a thread between the two has the mutex of its stripe.
THEOREM LimitIsKept == Spec => []LimitHolds
<1> DEFINE Bounded == config.max_num_locks > 0 /\ OnlyExclusive
           Inv == Bounded => OneHolder /\ CountInv
<1>1. Init => Inv
  <2> SUFFICES ASSUME Init, config.max_num_locks > 0 PROVE OneHolder /\ CountInv
    BY Zenon
  <2>1. \A k \in Keys : keys[k].txn_ids = {}
    BY Zenon DEF Init, NotLocked
  <2>2. Held = {} /\ Inserting = {} /\ lock_cnt = 0 /\ config.max_num_locks \in Nat
    BY <2>1, ConfigsOK, Zenon DEF Held, Inserting, Init
  <2>3. Cardinality(Stripes) \in Nat
    BY InitTypes, InitMutex, InsertingBound, Zenon
  <2> QED BY <2>1, <2>2, <2>3, FS_EmptySet DEF OneHolder, CountInv
<1>2. /\ Types /\ Types' /\ LifeInv /\ MutexInv /\ MutexInv' /\ Inv /\ [Next]_vars
      => Inv'
  <2> SUFFICES ASSUME Types, Types', LifeInv, MutexInv, MutexInv', Inv, [Next]_vars
               PROVE  Inv'
    BY Zenon
  <2>1. ASSUME UNCHANGED <<config, lockVars>>, Inserting' = Inserting PROVE Inv'
    BY <2>1, Zenon DEF lockVars, OnlyExclusive, OneHolder, CountInv, Held, Stripes, Stripe
  <2>2. CASE UNCHANGED vars \/ Tick
    BY <2>1, <2>2, Zenon DEF vars, Tick, Inserting
  <2>3. ASSUME NEW t \in Txns, StepOf(t) PROVE Inv'
    <3>1. /\ UNCHANGED config /\ (Bounded' <=> Bounded)
          /\ \A u \in Txns \ {t} : LeavesAlone(u)
      BY <2>3, OthersAlone, Zenon DEF OnlyExclusive
    <3>2. ASSUME pc[t] # "insert", pc'[t] # "insert" PROVE Inserting' = Inserting
      BY <3>1, <3>2, Zenon DEF LeavesAlone, Inserting
    <3>3. CASE AcquireStep(t)
      <4>1. Acquiring(t)
        BY <3>3, AcquireResult, Zenon
      <4>2. ASSUME NEW T, Grants(t, T) PROVE Inv'
        BY <3>1, <4>1, <4>2, GrantCounts, Zenon
      <4>3. CASE UNCHANGED lockVars /\ GoesOn(t)
        BY <3>1, <4>3, LetInCounts, Zenon
      <4>4. CASE UNCHANGED lockVars /\ pc'[t] \notin {"insert", "loop"}
        <5>1. CASE pc[t] # "insert"
          BY <2>1, <3>1, <3>2, <4>4, <5>1, Zenon
        <5>2. CASE pc[t] = "insert"
          <6>1. InsertLock(t)
            BY <3>3, <5>2, Zenon DEF AcquireStep, Acquire, Wake, Loop
          <6>2. Grants(t, {})
            BY <6>1, <4>1, InsertTakes, GrantedResult, Zenon DEF Grants, Took
          <6> QED BY <4>2, <6>2, Zenon
        <5> QED BY <5>1, <5>2, Zenon
      <4> QED BY <3>3, <4>2, <4>3, <4>4, AttemptLocks, Zenon DEF GivesUp
    <3>4. CASE ~AcquireStep(t)
      <4>1. pc[t] # "insert" /\ pc'[t] # "insert"
        BY <2>3, <3>4, OutsideMutex, Zenon DEF AtMutex
      <4>2. CASE UnLock(t)
        BY <3>1, <3>2, <4>1, <4>2, UnLockCounts, Zenon
      <4> QED BY <2>1, <2>3, <3>1, <3>2, <3>4, <4>1, <4>2, QuietSteps, Zenon
    <3> QED BY <3>3, <3>4, Zenon
  <2> QED BY <2>2, <2>3, NextCases, Zenon
<1>3. Types /\ MutexInv /\ Inv => LimitHolds
  <2> SUFFICES ASSUME Types, MutexInv, OneHolder, CountInv
               PROVE  /\ lock_cnt = Cardinality(Held)
                      /\ lock_cnt <= config.max_num_locks + Cardinality(Stripes) - 1
    BY Zenon DEF LimitHolds, OnlyExclusive, Held
  <2>1. /\ Cardinality(Inserting) \in Nat /\ Cardinality(Stripes) \in Nat
        /\ config.max_num_locks \in Nat /\ Cardinality(Held) \in Nat
    BY InsertingBound, HeldFinite, ConfigsOK, Zenon DEF Types, LockTypes
  <2> QED BY <2>1 DEF CountInv
<1> QED BY <1>1, <1>2, <1>3, TypesHold, LifeHolds, MutexHolds, PTL DEF Spec

==============================================================================
