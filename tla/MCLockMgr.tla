------------------------------ MODULE MCLockMgr ------------------------------
(***************************************************************************)
(* Instances of LockMgr: two or three transactions, up to three keys.      *)
(***************************************************************************)
EXTENDS LockMgr

CONSTANTS t1, t2, t3

\* One value for every transaction, or one each.
All(v) == [t \in Txns |-> v]
Each(a, b, c) == [t \in Txns |-> IF t = t1 THEN a ELSE IF t = t2 THEN b ELSE c]

OwnStripes == [k \in Keys |-> k]
OneStripe == [k \in Keys |-> 1]
TwoStripes == [k \in Keys |-> IF k = 2 THEN 2 ELSE 1]

Base == [txns |-> Txns, keys |-> All({1, 2}), modes |-> All({TRUE}),
         timeout |-> All(-1), expiration |-> All(0),
         deadlock_detect |-> All(FALSE), shallow |-> FALSE, max_num_locks |-> 0,
         stripe |-> OwnStripes, batch |-> All({}), calls |-> {}, max_time |-> 0]

\* Locks expire while the other transaction waits with or without a timeout;
\* transactions prepare, fail and roll back.
Expiring == [Base EXCEPT !.txns = {t1, t2}, !.keys = All({1}), !.timeout = Each(-1, 1, 0),
  !.expiration = Each(2, 1, 0), !.max_time = 3,
  !.calls = {"prepare", "rollback", "fail", "validate"}]
ExpiringThree == [Base EXCEPT !.keys = All({1}), !.timeout = Each(-1, 1, 0),
  !.expiration = Each(2, 1, 0), !.max_time = 2]
ExpiringKeys == [Base EXCEPT !.txns = {t1, t2}, !.timeout = Each(-1, 1, 0),
  !.expiration = Each(2, 1, 0), !.max_time = 3]

\* A commit-time batch without a prepare, of transactions that expire or not.
CommitTimeBatch == [Base EXCEPT !.txns = {t1, t2}, !.keys = All({1}), !.timeout = Each(-1, 1, 0),
  !.expiration = Each(1, 0, 0), !.max_time = 2, !.calls = {"commit_time_batch"}]

\* Shared locks, all of them of transactions that expire: one holder may
\* refuse to be stolen from, or prepare.
ExpiringShared == [Base EXCEPT !.keys = All({1}), !.modes = Each({TRUE}, {FALSE}, {FALSE}),
  !.timeout = Each(1, 0, 0), !.expiration = Each(2, 1, 2), !.max_time = 2]
PreparedShared == [Base EXCEPT !.txns = {t1, t2}, !.keys = All({1}),
  !.modes = All(BOOLEAN), !.expiration = Each(1, 2, 2), !.max_time = 2,
  !.calls = {"prepare", "fail"}]

\* Deadlock detection: circles of three, upgrades, save points, and a search
\* that may be given up.
Circle == [Base EXCEPT !.keys = Each({1, 2}, {2, 3}, {1, 3}), !.stripe = TwoStripes,
  !.deadlock_detect = All(TRUE)]
Upgrading == [Base EXCEPT !.txns = {t1, t2}, !.modes = All(BOOLEAN),
  !.deadlock_detect = All(TRUE), !.shallow = TRUE]
SavePoints == [Base EXCEPT !.txns = {t1, t2}, !.keys = Each({1, 2}, {1}, {}),
  !.deadlock_detect = All(TRUE), !.calls = {"savepoint"}]

\* A limit of one lock, in one stripe.
Limited == [Base EXCEPT !.max_num_locks = 1, !.deadlock_detect = All(TRUE),
  !.stripe = OneStripe, !.batch = Each({1}, {2}, {1})]

\* A limit of one lock, and three keys in two stripes.
LimitedStripes == [Limited EXCEPT !.keys = All({1, 2, 3}), !.stripe = TwoStripes,
  !.batch = Each({1}, {2}, {3})]

\* Write() locks the keys of its batch in their order, and may be refused,
\* fail or expire half way.
Batches == [Base EXCEPT !.batch = Each({1, 2}, {1, 2}, {2})]
FailingBatches == [Base EXCEPT !.txns = {t1, t2}, !.batch = All({1, 2}), !.timeout = All(0),
  !.expiration = Each(1, 0, 0), !.max_time = 1, !.calls = {"fail"}]

\* A limit of one lock and requests with a timeout.
LimitedTimeout == [Limited EXCEPT !.txns = {t1, t2}, !.timeout = All(1), !.max_time = 2]

UsualConfigs == {Expiring, ExpiringThree, ExpiringKeys, CommitTimeBatch, ExpiringShared,
  PreparedShared, Circle, Upgrading, SavePoints, Limited, LimitedStripes, LimitedTimeout,
  Batches, FailingBatches}

LimitConfigs == {LimitedTimeout}
=============================================================================
