--------------------------- MODULE MCCommitCache ---------------------------
(* The instances of CommitCache for TLC, and the loops of PreparedHeap.    *)
EXTENDS CommitCache, TLC

OneQueue == [two_write_queues |-> FALSE, commit_cache_size |-> 2,
             snapshot_cache_size |-> 2, recovered |-> {}, last_seq |-> 0,
             max_seq |-> 5, batch_cnt |-> 1, calls |-> {"read"}, max_snapshots |-> 1]

TwoQueues == [OneQueue EXCEPT !.two_write_queues = TRUE, !.max_seq = 6]

\* a transaction was prepared when the DB was closed
Recovered == [OneQueue EXCEPT !.recovered = {1}, !.last_seq = 2]

\* two snapshots at a time, of one sequence number or of two
TwoSnapshots == [OneQueue EXCEPT !.max_snapshots = 2, !.max_seq = 4]

UsualConfigs ==
    {OneQueue,
     [OneQueue EXCEPT !.calls = {"read", "write"}, !.max_seq = 4],
     [OneQueue EXCEPT !.calls = {"compact", "data"}, !.max_seq = 4],
     [OneQueue EXCEPT !.calls = {"latest", "write", "data"}, !.max_seq = 4],
     TwoSnapshots,
     [OneQueue EXCEPT !.batch_cnt = 2],
     TwoQueues,
     [TwoQueues EXCEPT !.calls = {"latest"}],
     Recovered}

Symmetric == Permutations(Handles)

-----------------------------------------------------------------------------
(* PreparedHeap as it is written, one entry at a time.                     *)

RECURSIVE SettleLoop(_, _)
SettleLoop(heap, erased) ==
    IF heap = {} THEN [heap |-> {}, erased_heap |-> {}]
    ELSE IF erased = {} \/ Min(heap) < Min(erased) THEN
             [heap |-> heap, erased_heap |-> erased]
    ELSE SettleLoop(heap \ {Min(erased)}, erased \ {Min(erased)})

PopOne(h) == SettleLoop(h.heap \ {Min(h.heap)}, h.erased_heap)

EraseOne(h, seq) ==
    IF h.heap = {} \/ seq < Min(h.heap) THEN h
    ELSE IF seq = Min(h.heap) THEN PopOne(h)
    ELSE [h EXCEPT !.erased_heap = @ \cup {seq}]

RECURSIVE EraseLoop(_, _)
EraseLoop(h, seqs) ==
    IF seqs = {} THEN h ELSE EraseLoop(EraseOne(h, Min(seqs)), seqs \ {Min(seqs)})

RECURSIVE PopLoop(_, _, _)
PopLoop(h, moved, new_max) ==
    IF h.heap = {} \/ Min(h.heap) > new_max
    THEN <<h, moved>>
    ELSE PopLoop(PopOne(h), moved \cup {Min(h.heap)}, new_max)

\* The loops of PreparedHeap and of its callers leave what Erase, PopUpTo and UpTo say,
\* for every heap of up to five entries whose top is not erased.
ASSUME HeapLoopsAgree ==
    \A heap, erased \in SUBSET (1 .. 5) :
        LET h == [heap |-> heap, erased_heap |-> erased] IN
        SettleLoop(heap, erased) = h =>
            /\ \A seqs \in SUBSET (1 .. 5) : EraseLoop(h, seqs) = Erase(h, seqs)
            /\ \A m \in 0 .. 5 :
                   PopLoop(h, {}, m) = <<PopUpTo(h, m), UpTo(h, m)>>
=============================================================================
