------------------------------- MODULE LockMgr -------------------------------
(***************************************************************************)
(* TransactionLockMgr and the pessimistic transactions that use it: the    *)
(* lock table with its stripes, waiting with a timeout, stealing of the    *)
(* locks of expired transactions, deadlock detection, and the states of a  *)
(* transaction from its first lock to its destructor.                      *)
(*                                                                         *)
(* A transaction is used by one thread.  One action is what a thread does  *)
(* between taking a stripe mutex and leaving it, or one atomic step on     *)
(* txn_state_; the thread's place is in pc.  lock_cnt is shared by the     *)
(* stripes, so with a limit its load and its increment are two steps.      *)
(***************************************************************************)
EXTENDS Integers, FiniteSets

CONSTANTS Txns,      \* transactions
          Keys,      \* keys of one column family, numbers in sorting order
          NoTxn,     \* nobody holds a stripe mutex
          Configs    \* the option settings to check

ASSUME TxnsAndKeys ==
  /\ IsFiniteSet(Txns) /\ IsFiniteSet(Keys)
  /\ Keys \subseteq Int
  /\ NoTxn \notin Txns

\* What a setting says of each transaction and each key.
ASSUME ConfigsOK ==
  \A c \in Configs :
    /\ c.txns \in SUBSET Txns
    /\ c.expiration \in [Txns -> Nat] /\ c.timeout \in [Txns -> Int]
    /\ c.modes \in [Txns -> SUBSET BOOLEAN]
    /\ c.keys \in [Txns -> SUBSET Keys] /\ c.batch \in [Txns -> SUBSET Keys]
    /\ c.deadlock_detect \in [Txns -> BOOLEAN]
    /\ c.stripe \in [Keys -> Int]
    /\ c.max_num_locks \in Nat /\ c.max_time \in Nat

VARIABLES
  config,            \* the setting of this behaviour
  now,               \* Env::NowMicros()
  keys,              \* the stripes' maps: key -> LockInfo
  lock_cnt,          \* LockMap::lock_cnt
  stripe_mutex,      \* the holder of each stripe's mutex
  wait_txn_map,      \* whom a detecting transaction waits for
  rev_wait_txn_map,  \* how many detecting transactions wait for one
  txn_state,         \* txn_state_
  expiration_time,   \* expiration_time_, 0 when it does not expire
  expirable,         \* expirable_transactions_map_
  tracked_keys,      \* tracked_keys_: "no", "shared" or "exclusive"
  save_point,        \* the save point and the keys tracked before it
  pc,                \* where the transaction's thread is
  request,           \* the locals of AcquireWithTimeout
  unlocking          \* the locals of UnLock and of its caller

lockVars == <<keys, lock_cnt>>
waitVars == <<wait_txn_map, rev_wait_txn_map>>
txnVars == <<txn_state, expiration_time, expirable>>
vars == <<config, now, lockVars, stripe_mutex, waitVars, txnVars, tracked_keys,
          save_point, pc, request, unlocking>>

-----------------------------------------------------------------------------
\* A LockInfo; a key that is in no map has no holder.
NotLocked == [exclusive |-> FALSE, txn_ids |-> {}, expiration_time |-> 0]

LockInfo(t, ex) ==
  [exclusive |-> ex, txn_ids |-> {t}, expiration_time |-> expiration_time[t]]

NoRequest == [key |-> 0, exclusive |-> FALSE, end_time |-> 0,
              expire_time_hint |-> 0, wait_ids |-> {}, result |-> "OK",
              cv_end_time |-> -1]

NoUnLock == [keys |-> {}, stripe |-> 0, tracked |-> {}, state |-> "same",
             next |-> "idle"]

Stripe(k) == config.stripe[k]
Stripes == {Stripe(k) : k \in Keys}
Timeout(t) == config.timeout[t]
Tracked(t) == {k \in Keys : tracked_keys[t][k] # "no"}
IsExpired(t) == expiration_time[t] > 0 /\ now >= expiration_time[t]

\* The transactions of a setting are constructed, the others never exist.
Init ==
  /\ config \in Configs
  /\ now = 0
  /\ keys = [k \in Keys |-> NotLocked]
  /\ lock_cnt = 0
  /\ stripe_mutex = [s \in Stripes |-> NoTxn]
  /\ wait_txn_map = [t \in Txns |-> {}]
  /\ rev_wait_txn_map = [t \in Txns |-> 0]
  /\ txn_state = [t \in Txns |-> "STARTED"]
  /\ expiration_time = config.expiration
  /\ expirable = {t \in Txns : config.expiration[t] > 0}
  /\ tracked_keys = [t \in Txns |-> [k \in Keys |-> "no"]]
  /\ save_point = [t \in Txns |-> [set |-> "no", keys |-> {}]]
  /\ pc = [t \in Txns |-> IF t \in config.txns THEN "idle" ELSE "gone"]
  /\ request = [t \in Txns |-> NoRequest]
  /\ unlocking = [t \in Txns |-> NoUnLock]

\* Time passes, up to the bound max_time.
Tick ==
  /\ now < config.max_time
  /\ now' = now + 1
  /\ UNCHANGED <<config, lockVars, stripe_mutex, waitVars, txnVars,
                 tracked_keys, save_point, pc, request, unlocking>>

-----------------------------------------------------------------------------
(* Stealing.                                                               *)

\* TryStealingExpiredTransactionLocks: a transaction that is not in the map
\* is no obstacle, the others must still be STARTED.
CanSteal(u) == u \notin expirable \/ txn_state[u] = "STARTED"

\* IsLockExpired: whether t may take the lock, whom it stole from on the
\* way, and the new expire_time.  The holders are tried in the order of
\* their list, which is arbitrary, until one refuses.
IsLockExpired(t, info) ==
  LET others == info.txn_ids \ {t} IN
  IF info.expiration_time > now
  THEN {[expired |-> FALSE, stolen |-> {}, expire_time |-> info.expiration_time]}
  ELSE IF \A u \in others : CanSteal(u)
       THEN {[expired |-> info.expiration_time > 0, stolen |-> others,
              expire_time |-> 0]}
       ELSE {[expired |-> FALSE, stolen |-> S,
              expire_time |-> IF S = {} THEN request[t].expire_time_hint ELSE 0] :
               S \in SUBSET {u \in others : CanSteal(u)}}

Steal(stolen) ==
  txn_state' = [u \in Txns |-> IF u \in stolen \cap expirable
                               THEN "LOCKS_STOLEN" ELSE txn_state[u]]

-----------------------------------------------------------------------------
(* Acquiring a lock.                                                       *)

\* StartUnLock: the caller is about to UnLock the keys ks; afterwards it
\* tracks the keys in rest, stores the state st and goes on at next.
StartUnLock(t, ks, rest, st, next) ==
  /\ pc' = [pc EXCEPT ![t] = "unlock"]
  /\ unlocking' = [unlocking EXCEPT ![t] =
       [keys |-> ks, stripe |-> 0, tracked |-> rest, state |-> st, next |-> next]]

\* A call that only looks, or that changed nothing, lets the client go on.
Goto(t, next) ==
  /\ pc' = [pc EXCEPT ![t] = next]
  /\ UNCHANGED unlocking

\* A call fails; CommitBatch first unlocks the keys of its batch.
Fails(t, next) ==
  IF config.batch[t] = {} THEN Goto(t, next)
  ELSE StartUnLock(t, Tracked(t), {}, "same", next)

\* PessimisticTransaction::TryLock after the lock is granted: the key is
\* tracked, unless ValidateSnapshot finds a newer write, when a key that
\* was not locked before is unlocked again.
Granted(t) ==
  LET k == request[t].key
      before == tracked_keys[t][k]
  IN
  /\ stripe_mutex' = [stripe_mutex EXCEPT ![Stripe(k)] = NoTxn]
  /\ request' = [request EXCEPT ![t] = NoRequest]
  /\ \/ /\ tracked_keys' = [tracked_keys EXCEPT ![t][k] =
             IF request[t].exclusive \/ @ = "exclusive" THEN "exclusive" ELSE "shared"]
        /\ Goto(t, "idle")
     \/ /\ "validate" \in config.calls /\ config.batch[t] = {}
        /\ UNCHANGED tracked_keys
        /\ IF before = "no"
           THEN StartUnLock(t, {k}, Tracked(t), "same", "refused")
           ELSE Goto(t, "refused")

\* The call returns without the lock.
Refused(t) ==
  /\ Fails(t, "refused")
  /\ stripe_mutex' = [stripe_mutex EXCEPT ![Stripe(request[t].key)] = NoTxn]
  /\ request' = [request EXCEPT ![t] = NoRequest]
  /\ UNCHANGED tracked_keys

\* AcquireLocked failed: the last attempt returns, another one goes on in
\* the loop of AcquireWithTimeout, holding the stripe mutex.
NotAcquired(t, last, result, wait_ids, expire_time) ==
  IF last THEN Refused(t)
  ELSE /\ pc' = [pc EXCEPT ![t] = "loop"]
       /\ stripe_mutex' = [stripe_mutex EXCEPT ![Stripe(request[t].key)] = t]
       /\ request' = [request EXCEPT ![t].result = result, ![t].wait_ids = wait_ids,
                                     ![t].expire_time_hint = expire_time]
       /\ UNCHANGED <<tracked_keys, unlocking>>

\* flawed: one lock more than max_num_locks_ is let in
FullAbove == config.max_num_locks > 0 /\ lock_cnt > config.max_num_locks

\* The load of lock_cnt finds max_num_locks_ locks out.
Full == config.max_num_locks > 0 /\ lock_cnt >= config.max_num_locks

\* The load of lock_cnt let t in; it goes on with the stripe mutex held, while
\* threads in other stripes may load and increment lock_cnt too.
BelowLimit(t) ==
  /\ pc' = [pc EXCEPT ![t] = "insert"]
  /\ stripe_mutex' = [stripe_mutex EXCEPT ![Stripe(request[t].key)] = t]
  /\ UNCHANGED <<request, tracked_keys, unlocking>>

\* AcquireLocked, with the stripe mutex held.
AcquireLocked(t, last) ==
  LET r == request[t]
      k == r.key
      info == keys[k]
      held == info.txn_ids # {}
      conflict == info.exclusive \/ r.exclusive
  IN
  \/ /\ ~held /\ Full
     /\ NotAcquired(t, last, "Busy", r.wait_ids, r.expire_time_hint)
     /\ UNCHANGED <<lockVars, txn_state>>
  \/ /\ ~held /\ config.max_num_locks > 0 /\ ~Full
     /\ BelowLimit(t)
     /\ UNCHANGED <<lockVars, txn_state>>
  \/ /\ ~held /\ config.max_num_locks = 0
     /\ keys' = [keys EXCEPT ![k] = LockInfo(t, r.exclusive)]
     /\ Granted(t)
     /\ UNCHANGED <<lock_cnt, txn_state>>
  \/ /\ held /\ conflict /\ info.txn_ids = {t}
     /\ keys' = [keys EXCEPT ![k] = LockInfo(t, r.exclusive)]
     /\ Granted(t)
     /\ UNCHANGED <<lock_cnt, txn_state>>
  \/ /\ held /\ conflict /\ info.txn_ids # {t}
     /\ \E o \in IsLockExpired(t, info) :
          /\ Steal(o.stolen)
          /\ IF o.expired
             THEN /\ keys' = [keys EXCEPT ![k] = LockInfo(t, r.exclusive)]
                  /\ Granted(t)
             ELSE /\ NotAcquired(t, last, "TimedOut", info.txn_ids, o.expire_time)
                  /\ UNCHANGED keys
     /\ UNCHANGED lock_cnt
  \/ /\ held /\ ~conflict
     /\ keys' = [keys EXCEPT ![k] =
          [exclusive |-> FALSE, txn_ids |-> info.txn_ids \cup {t},
           expiration_time |-> IF info.expiration_time < expiration_time[t]
                               THEN expiration_time[t] ELSE info.expiration_time]]
     /\ Granted(t)
     /\ UNCHANGED <<lock_cnt, txn_state>>

\* AcquireLocked from the test of lock_cnt on: the lock is inserted and counted.
InsertLock(t) ==
  /\ pc[t] = "insert"
  /\ keys' = [keys EXCEPT ![request[t].key] = LockInfo(t, request[t].exclusive)]
  /\ lock_cnt' = lock_cnt + 1
  /\ Granted(t)
  /\ UNCHANGED <<config, now, waitVars, txnVars, save_point>>

\* TryLock: a key that is not tracked yet, or is to be upgraded, is asked of
\* the lock manager.  Write() asks for the keys of its batch in their order.
TryLock(t, k, ex) ==
  /\ pc[t] = "idle"
  /\ tracked_keys[t][k] = "no" \/ (ex /\ tracked_keys[t][k] = "shared")
  /\ k \in config.keys[t] /\ ex \in config.modes[t]
  /\ config.batch[t] # {} =>
       /\ ex /\ k \in config.batch[t]
       /\ \A j \in config.batch[t] \ Tracked(t) : k <= j
  /\ now + Timeout(t) <= config.max_time
  /\ pc' = [pc EXCEPT ![t] = "acquire"]
  /\ request' = [request EXCEPT ![t] =
       [NoRequest EXCEPT !.key = k, !.exclusive = ex,
                         !.end_time = IF Timeout(t) > 0 THEN now + Timeout(t) ELSE 0]]
  /\ UNCHANGED <<config, now, lockVars, stripe_mutex, waitVars, txnVars,
                 tracked_keys, save_point, unlocking>>

\* AcquireWithTimeout up to the first AcquireLocked.  Without a timeout the
\* mutex is only tried, and somebody may always have it.
Acquire(t) ==
  /\ pc[t] = "acquire"
  /\ \/ /\ Timeout(t) = 0
        /\ Fails(t, "refused")
        /\ request' = [request EXCEPT ![t] = NoRequest]
        /\ UNCHANGED <<lockVars, stripe_mutex, txn_state, tracked_keys>>
     \/ /\ stripe_mutex[Stripe(request[t].key)] = NoTxn
        /\ AcquireLocked(t, Timeout(t) = 0)
  /\ UNCHANGED <<config, now, waitVars, expiration_time, expirable, save_point>>

-----------------------------------------------------------------------------
(* Waiting and deadlock detection.                                         *)

\* The transactions in ids and everybody they wait for, directly or not: the
\* members of every set that has the ids and whom its members wait for.
Reachable(map, ids) ==
  {u \in Txns : \A S \in SUBSET Txns :
                  ids \subseteq S /\ (\A v \in S : map[v] \subseteq S) => u \in S}

\* flawed: only those t itself waits for are looked at
DirectlyDeadlocked(t, map, rev) == rev[t] > 0 /\ t \in map[t]

\* IncrementWaiters: t has been added to both maps.  The search either ends
\* at t or, in a setting with a small deadlock_detect_depth, is given up.
Deadlocked(t, map, rev) == rev[t] > 0 /\ t \in Reachable(map, map[t])
SearchGivenUp(t, rev) == rev[t] > 0 /\ config.shallow

Registers(t) == request[t].wait_ids # {} /\ config.deadlock_detect[t]

CvEndTime(t) ==
  LET r == request[t] IN
  IF r.expire_time_hint > 0 /\
     (Timeout(t) < 0 \/ (Timeout(t) > 0 /\ r.expire_time_hint < r.end_time))
  THEN r.expire_time_hint
  ELSE IF Timeout(t) >= 0 THEN r.end_time ELSE -1

\* The loop of AcquireWithTimeout up to the wait.  A wait whose end has
\* already come is passed by, with the stripe mutex held.
Loop(t) ==
  LET ids == request[t].wait_ids
      map == [wait_txn_map EXCEPT ![t] = ids]
      rev == [u \in Txns |-> rev_wait_txn_map[u] + (IF u \in ids THEN 1 ELSE 0)]
      waits == CvEndTime(t) < 0 \/ CvEndTime(t) > now
      s == Stripe(request[t].key)
  IN
  /\ pc[t] = "loop"
  /\ \/ /\ Registers(t)
        /\ Deadlocked(t, map, rev) \/ SearchGivenUp(t, rev)
        /\ Refused(t)
        /\ UNCHANGED waitVars
     \/ /\ ~(Registers(t) /\ Deadlocked(t, map, rev))
        /\ wait_txn_map' = IF Registers(t) THEN map ELSE wait_txn_map
        /\ rev_wait_txn_map' = IF Registers(t) THEN rev ELSE rev_wait_txn_map
        /\ pc' = [pc EXCEPT ![t] = IF waits THEN "wait" ELSE "pass"]
        /\ stripe_mutex' = [stripe_mutex EXCEPT ![s] = IF waits THEN NoTxn ELSE t]
        /\ request' = [request EXCEPT ![t].cv_end_time = CvEndTime(t)]
        /\ UNCHANGED <<tracked_keys, unlocking>>
  /\ UNCHANGED <<config, now, lockVars, txnVars, save_point>>

\* flawed: the counts are not taken back
KeepsCounts(t) ==
  /\ wait_txn_map' = IF Registers(t) THEN [wait_txn_map EXCEPT ![t] = {}]
                     ELSE wait_txn_map
  /\ UNCHANGED rev_wait_txn_map

\* DecrementWaiters.
DecrementWaiters(t) ==
  /\ wait_txn_map' = IF Registers(t) THEN [wait_txn_map EXCEPT ![t] = {}]
                     ELSE wait_txn_map
  /\ rev_wait_txn_map' =
       IF Registers(t)
       THEN [u \in Txns |-> rev_wait_txn_map[u] -
                            (IF u \in request[t].wait_ids THEN 1 ELSE 0)]
       ELSE rev_wait_txn_map

\* The loop of AcquireWithTimeout from the end of the wait: notified, timed
\* out, or never waited, when result still is that of the last attempt.
Wake(t) ==
  LET r == request[t]
      free == stripe_mutex[Stripe(r.key)] = NoTxn
  IN
  /\ DecrementWaiters(t)
  /\ \/ /\ pc[t] = "notified" /\ free
        /\ AcquireLocked(t, FALSE)
     \/ /\ pc[t] = "wait" /\ free /\ r.cv_end_time >= 0 /\ now >= r.cv_end_time
        /\ AcquireLocked(t, TRUE)
     \/ /\ pc[t] = "pass" /\ r.result = "TimedOut"
        /\ AcquireLocked(t, TRUE)
     \/ /\ pc[t] = "pass" /\ r.result = "Busy"
        /\ pc' = [pc EXCEPT ![t] = "loop"]
        /\ UNCHANGED <<lockVars, stripe_mutex, txn_state, tracked_keys, request,
                       unlocking>>
  /\ UNCHANGED <<config, now, expiration_time, expirable, save_point>>

-----------------------------------------------------------------------------
(* Unlocking.                                                              *)

\* flawed: a shared lock keeps the holder that leaves
UnLockLast(t, info) == IF info.txn_ids = {t} THEN NotLocked ELSE info

\* UnLockKey of a lock that t holds.
UnLockKey(t, info) ==
  IF info.txn_ids = {t} THEN NotLocked
  ELSE [info EXCEPT !.txn_ids = @ \ {t}]

\* UnLock: the keys of one stripe, under its mutex.  lock_cnt is decremented
\* key by key; a load in between finds what it would have found before or after.
UnLock(t) ==
  /\ pc[t] = "unlock"
  /\ \E s \in {Stripe(k) : k \in unlocking[t].keys} :
       LET mine == {k \in unlocking[t].keys : Stripe(k) = s}
           found == {k \in mine : t \in keys[k].txn_ids}
       IN
       /\ stripe_mutex[s] = NoTxn
       /\ keys' = [k \in Keys |-> IF k \in found THEN UnLockKey(t, keys[k]) ELSE keys[k]]
       /\ lock_cnt' = lock_cnt - (IF config.max_num_locks > 0
                                  THEN Cardinality(found) ELSE 0)
       /\ unlocking' = [unlocking EXCEPT ![t].keys = @ \ mine, ![t].stripe = s]
  /\ pc' = [pc EXCEPT ![t] = "notify"]
  /\ UNCHANGED <<config, now, stripe_mutex, waitVars, txnVars, tracked_keys,
                 save_point, request>>

\* flawed: only the waiters of the last stripe are notified
NotifyLastStripe(t) ==
  LET woken == {u \in Txns : /\ pc[u] = "wait" /\ unlocking[t].keys = {}
                             /\ Stripe(request[u].key) = unlocking[t].stripe}
  IN
  /\ pc[t] = "notify"
  /\ pc' = [u \in Txns |-> IF u = t THEN "unlock"
                           ELSE IF u \in woken THEN "notified" ELSE pc[u]]
  /\ unlocking' = [unlocking EXCEPT ![t].stripe = 0]
  /\ UNCHANGED <<config, now, lockVars, stripe_mutex, waitVars, txnVars,
                 tracked_keys, save_point, request>>

\* NotifyAll, after the mutex has been left.
NotifyAll(t) ==
  LET woken == {u \in Txns : pc[u] = "wait" /\ Stripe(request[u].key) = unlocking[t].stripe}
  IN
  /\ pc[t] = "notify"
  /\ pc' = [u \in Txns |-> IF u = t THEN "unlock"
                           ELSE IF u \in woken THEN "notified" ELSE pc[u]]
  /\ unlocking' = [unlocking EXCEPT ![t].stripe = 0]
  /\ UNCHANGED <<config, now, lockVars, stripe_mutex, waitVars, txnVars,
                 tracked_keys, save_point, request>>

\* The caller of UnLock goes on: Clear, RollbackToSavePoint, TryLock or the
\* destructor, which leaves the map of expirable transactions.
UnLocked(t) ==
  LET u == unlocking[t] IN
  /\ pc[t] = "unlock" /\ u.keys = {}
  /\ tracked_keys' = [tracked_keys EXCEPT ![t] =
       [k \in Keys |-> IF k \in u.tracked THEN @[k] ELSE "no"]]
  /\ txn_state' = [txn_state EXCEPT ![t] = IF u.state = "same" THEN @ ELSE u.state]
  /\ expirable' = IF u.next = "gone" /\ expiration_time[t] > 0
                  THEN expirable \ {t} ELSE expirable
  /\ pc' = [pc EXCEPT ![t] = u.next]
  /\ unlocking' = [unlocking EXCEPT ![t] = NoUnLock]
  /\ UNCHANGED <<config, now, lockVars, stripe_mutex, waitVars, expiration_time,
                 save_point, request>>

-----------------------------------------------------------------------------
(* The transaction.                                                        *)

SetSavePoint(t) ==
  /\ pc[t] = "idle" /\ "savepoint" \in config.calls
  /\ save_point[t].set = "no"
  /\ save_point' = [save_point EXCEPT ![t] = [set |-> "yes", keys |-> Tracked(t)]]
  /\ UNCHANGED <<config, now, lockVars, stripe_mutex, waitVars, txnVars,
                 tracked_keys, pc, request, unlocking>>

\* RollbackToSavePoint unlocks the keys first used since the save point.
\* A transaction sets one save point (a bound of the model).
RollbackToSavePoint(t) ==
  /\ pc[t] = "idle" /\ save_point[t].set = "yes"
  /\ txn_state[t] = "STARTED"
  /\ StartUnLock(t, Tracked(t) \ save_point[t].keys, save_point[t].keys, "same", "idle")
  /\ save_point' = [save_point EXCEPT ![t] = [set |-> "popped", keys |-> {}]]
  /\ UNCHANGED <<config, now, lockVars, stripe_mutex, waitVars, txnVars,
                 tracked_keys, request>>

\* Prepare: the test of the expiration, then the compare-and-exchange, after
\* which the transaction cannot expire, and the write of the prepare section.
Prepare(t) ==
  /\ pc[t] \in {"idle", "refused"} /\ "prepare" \in config.calls
  /\ config.batch[t] = {}
  /\ Goto(t, IF IsExpired(t) THEN "over" ELSE "prepare")
  /\ UNCHANGED <<config, now, lockVars, stripe_mutex, waitVars, txnVars,
                 tracked_keys, save_point, request>>

PrepareInternal(t) ==
  /\ pc[t] = "prepare"
  /\ IF txn_state[t] = "STARTED"
     THEN /\ expiration_time' = [expiration_time EXCEPT ![t] = 0]
          /\ \/ /\ txn_state' = [txn_state EXCEPT ![t] = "PREPARED"]
                /\ Goto(t, "prepared")
             \/ /\ "fail" \in config.calls
                /\ txn_state' = [txn_state EXCEPT ![t] = "AWAITING_PREPARE"]
                /\ Goto(t, "over")
     ELSE /\ Goto(t, "over")
          /\ UNCHANGED <<expiration_time, txn_state>>
  /\ UNCHANGED <<config, now, lockVars, stripe_mutex, waitVars, expirable,
                 tracked_keys, save_point, request>>

\* Commit and, for Write(), CommitBatch: the test of the expiration, the
\* step to AWAITING_COMMIT, the write, and Clear.
Commit(t) ==
  /\ \/ pc[t] \in {"idle", "refused"} /\ config.batch[t] = {}
     \/ pc[t] = "idle" /\ config.batch[t] \subseteq Tracked(t)
     \/ pc[t] = "prepared"
  /\ IF IsExpired(t) THEN Fails(t, "over") ELSE Goto(t, "commit")
  /\ UNCHANGED <<config, now, lockVars, stripe_mutex, waitVars, txnVars,
                 tracked_keys, save_point, request>>

\* flawed: the state is stored without looking whether it is still STARTED
AwaitCommitBlindly(t) ==
  /\ pc[t] = "commit"
  /\ txn_state' = [txn_state EXCEPT ![t] = "AWAITING_COMMIT"]
  /\ Goto(t, IF txn_state[t] = "PREPARED" THEN "writeprepared" ELSE "write")
  /\ UNCHANGED <<config, now, lockVars, stripe_mutex, waitVars, expiration_time,
                 expirable, tracked_keys, save_point, request>>

AwaitCommit(t) ==
  /\ pc[t] = "commit"
  /\ IF txn_state[t] \in {"STARTED", "PREPARED"}
     THEN /\ txn_state' = [txn_state EXCEPT ![t] = "AWAITING_COMMIT"]
          /\ Goto(t, IF txn_state[t] = "STARTED" THEN "write" ELSE "writeprepared")
     ELSE /\ Fails(t, "over")
          /\ UNCHANGED txn_state
  /\ UNCHANGED <<config, now, lockVars, stripe_mutex, waitVars, expiration_time,
                 expirable, tracked_keys, save_point, request>>

\* A transaction that is not prepared but has a commit-time batch is refused
\* with its locks, one that expires after the compare-and-exchange; the client
\* then gives it up.
RefuseCommitTimeBatch(t) ==
  /\ pc[t] = "commit" /\ "commit_time_batch" \in config.calls
  /\ config.batch[t] = {} /\ txn_state[t] = "STARTED"
  /\ txn_state' = [txn_state EXCEPT ![t] = IF expiration_time[t] > 0
                                           THEN "AWAITING_COMMIT" ELSE @]
  /\ Goto(t, "over")
  /\ UNCHANGED <<config, now, lockVars, stripe_mutex, waitVars, expiration_time,
                 expirable, tracked_keys, save_point, request>>

\* The write of the commit.  When it fails, a transaction that was not
\* prepared is cleared all the same, a prepared one keeps its locks.
CommitInternal(t) ==
  /\ pc[t] \in {"write", "writeprepared"}
  /\ \/ /\ config.batch[t] = {}
        /\ StartUnLock(t, Tracked(t), {}, "COMMITED", "over")
        /\ UNCHANGED txn_state
     \/ /\ config.batch[t] # {}
        /\ txn_state' = [txn_state EXCEPT ![t] = "COMMITED"]
        /\ StartUnLock(t, Tracked(t), {}, "same", "over")
     \/ /\ "fail" \in config.calls
        /\ IF pc[t] = "write" THEN StartUnLock(t, Tracked(t), {}, "same", "over")
           ELSE Goto(t, "over")
        /\ UNCHANGED txn_state
  /\ UNCHANGED <<config, now, lockVars, stripe_mutex, waitVars, expiration_time,
                 expirable, tracked_keys, save_point, request>>

\* Rollback; the rollback marker of a prepared transaction is written first.
Rollback(t) ==
  /\ pc[t] \in {"idle", "refused", "prepared"} /\ config.batch[t] = {}
  /\ "rollback" \in config.calls
  /\ \/ /\ txn_state[t] = "STARTED"
        /\ StartUnLock(t, Tracked(t), {}, "same", "over")
        /\ UNCHANGED txn_state
     \/ /\ txn_state[t] = "PREPARED"
        /\ txn_state' = [txn_state EXCEPT ![t] = "AWAITING_ROLLBACK"]
        /\ \/ StartUnLock(t, Tracked(t), {}, "ROLLEDBACK", "over")
           \/ "fail" \in config.calls /\ Goto(t, "over")
     \/ /\ txn_state[t] = "LOCKS_STOLEN"
        /\ Goto(t, "over")
        /\ UNCHANGED txn_state
  /\ UNCHANGED <<config, now, lockVars, stripe_mutex, waitVars, expiration_time,
                 expirable, tracked_keys, save_point, request>>

\* ~PessimisticTransaction, of a prepared transaction too.
Delete(t) ==
  /\ pc[t] \in {"idle", "refused", "prepared", "over"}
  /\ StartUnLock(t, Tracked(t), {}, "same", "gone")
  /\ UNCHANGED <<config, now, lockVars, stripe_mutex, waitVars, txnVars,
                 tracked_keys, save_point, request>>

-----------------------------------------------------------------------------
\* What the thread of t does inside a call, once it was called.
Step(t) ==
  \/ Acquire(t) \/ InsertLock(t) \/ Loop(t) \/ Wake(t)
  \/ UnLock(t) \/ NotifyAll(t) \/ UnLocked(t)
  \/ PrepareInternal(t) \/ AwaitCommit(t) \/ RefuseCommitTimeBatch(t)
  \/ CommitInternal(t)

\* The calls that end a transaction.
End(t) == Commit(t) \/ Rollback(t) \/ Delete(t)

Call(t) ==
  \/ \E k \in Keys, ex \in BOOLEAN : TryLock(t, k, ex)
  \/ SetSavePoint(t) \/ RollbackToSavePoint(t) \/ Prepare(t)

Next == Tick \/ \E t \in Txns : Step(t) \/ End(t) \/ Call(t)

Spec == Init /\ [][Next]_vars

\* A thread inside a call goes on, time passes, and a client does not keep
\* a transaction open for ever.
FairSpec == /\ Spec
            /\ WF_vars(Tick)
            /\ \A t \in Txns : WF_vars(Step(t)) /\ WF_vars(End(t))

-----------------------------------------------------------------------------
(* What the code promises.                                                 *)

HoldsLock(t, k) ==
  /\ t \in keys[k].txn_ids
  /\ tracked_keys[t][k] = "exclusive" => keys[k].exclusive /\ keys[k].txn_ids = {t}

\* While a transaction writes its commit, and from its prepare to its commit,
\* rollback or destructor, it still holds every lock it was granted: nobody
\* stole one on the way, however the expiration, the thief and Commit or Prepare
\* interleave.  This needs that a lock is shared only by transactions that all
\* expire or all do not (IsLockExpired looks at one expiration_time for all the
\* holders); every setting that is checked is one of those.
CommitHoldsLocks ==
  \A t \in Txns : (\/ pc[t] \in {"write", "writeprepared"}
                   \/ pc[t] \in {"prepared", "commit"} /\ txn_state[t] = "PREPARED") =>
    \A k \in Tracked(t) : HoldsLock(t, k)

\* No lock is left behind: a holder in the lock table still has the key
\* among those its transaction tracks or is about to unlock.
NoOrphanLock ==
  \A k \in Keys : \A t \in keys[k].txn_ids :
    /\ pc[t] # "gone"
    /\ k \in Tracked(t) \cup unlocking[t].keys
    /\ pc[t] \in {"unlock", "notify"} =>
         k \in unlocking[t].keys \cup unlocking[t].tracked

\* The transactions that detect deadlocks never wait for each other in a
\* circle: IncrementWaiters refuses the one that would close it.
NoDeadlock ==
  \A S \in (SUBSET Txns) \ {{}} : \E t \in S : wait_txn_map[t] \cap S = {}

\* rev_wait_txn_map_ counts exactly the waiters of wait_txn_map_, so that its
\* early exit ("nobody is waiting on self") never hides a deadlock.
RevMapCounts ==
  \A u \in Txns : rev_wait_txn_map[u] = Cardinality({t \in Txns : u \in wait_txn_map[t]})

\* With exclusive locks lock_cnt is the number of locked keys.  It may pass
\* max_num_locks_, because AcquireLocked loads it and increments it under the
\* mutex of one stripe only, but by no more than one lock for every other
\* stripe; with one stripe the limit is exact.
LimitHolds ==
  (config.max_num_locks > 0 /\ \A t \in Txns : FALSE \notin config.modes[t]) =>
    /\ lock_cnt = Cardinality({k \in Keys : keys[k].txn_ids # {}})
    /\ lock_cnt <= config.max_num_locks + Cardinality(Stripes) - 1

Acquiring(t) == pc[t] \in {"acquire", "insert", "loop", "wait", "notified", "pass"}

\* Every request for a lock is answered: no thread stays in
\* AcquireWithTimeout for ever, waiting or going round its loop.
LockCallsReturn == \A t \in Txns : []<>~Acquiring(t)

\* The transactions that wait without a timeout cannot wait for each other in a
\* circle for ever: there is at most one, all of them detect deadlocks, or all
\* of them ask for exclusive locks in the order of the keys.
NoLastingCircle ==
  LET forever == {t \in config.txns : config.timeout[t] < 0}
  IN  \/ \A t, u \in forever : t = u
      \/ \A t \in forever : config.deadlock_detect[t]
      \/ \A t \in forever : config.batch[t] # {}

\* AcquireWithTimeout answers every request when there is no limit on the
\* locks and the clients rule out a lasting circle of waiters: every wake-up
\* that a waiter depends on is sent.
UnlimitedCallsReturn ==
  \A t \in Txns : []<>(config.max_num_locks > 0 \/ ~NoLastingCircle \/ ~Acquiring(t))

=============================================================================
