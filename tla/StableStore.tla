----------------------------- MODULE StableStore -----------------------------
(***************************************************************************)
(* What a database with a write-ahead log promises across crashes.  Items  *)
(* are accepted once; some of them become stable; a crash may lose any     *)
(* accepted item that is not stable, and what is lost never comes back.    *)
(***************************************************************************)
EXTENDS FiniteSets

VARIABLES
    used,       \* items ever accepted
    accepted,   \* items the store holds
    stable      \* items it has promised to keep

vars == <<used, accepted, stable>>

Init ==
    /\ used = {}
    /\ accepted = {}
    /\ stable = {}

\* a batch of new items
Accept ==
    /\ used \subseteq used'
    /\ accepted' = accepted \cup (used' \ used)
    /\ UNCHANGED stable

Stabilize ==
    /\ stable \subseteq stable'
    /\ stable' \subseteq accepted
    /\ UNCHANGED <<used, accepted>>

Crash ==
    /\ stable \subseteq accepted'
    /\ accepted' \subseteq accepted
    /\ UNCHANGED <<used, stable>>

Next == Accept \/ Stabilize \/ Crash

Spec == Init /\ [][Next]_vars
==============================================================================
