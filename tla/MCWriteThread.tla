---------------------------- MODULE MCWriteThread ----------------------------
(***************************************************************************)
(* Instances of WriteThread for model checking: the kinds of write that    *)
(* decide how a leader groups the writers behind it.                       *)
(***************************************************************************)
EXTENDS WriteThread, TLC

Put == [NullBatch EXCEPT !.batch = TRUE, !.size = 1]

MergePut == [Put EXCEPT !.merge = TRUE]

\* a 2PC prepare section: WAL only
Prepare == [Put EXCEPT !.disable_memtable = TRUE]

\* pipelined, concurrent, faults, reuse, kinds
Config(p, c, f, r, ks) ==
    [pipelined |-> p, concurrent |-> c, faults |-> f, reuse |-> r, kinds |-> ks]

\* without pipelining: what launches, what does not, and what goes alone; with
\* pipelining: writes again and again at one address, or once: who reaches the
\* memtable, and who waits for it to drain
SafetyConfigs ==
    {Config(FALSE, TRUE, FALSE, TRUE, {Put, MergePut, NullBatch}),
     Config(TRUE, TRUE, FALSE, TRUE, {Put}),
     Config(TRUE, TRUE, TRUE, FALSE, {Put, Prepare}),
     Config(TRUE, TRUE, FALSE, FALSE, {Put, Prepare, MergePut, NullBatch})}

LiveConfigs ==
    {Config(FALSE, TRUE, FALSE, TRUE, {Put}),
     Config(FALSE, TRUE, FALSE, FALSE, {Put, NullBatch}),
     Config(TRUE, FALSE, FALSE, FALSE, {Put})}

Symmetry == Permutations(Threads)
==============================================================================
