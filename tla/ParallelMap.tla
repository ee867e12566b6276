---------------------------- MODULE ParallelMap ----------------------------
(***************************************************************************)
(* What processWeapons and download promise their caller: every item is    *)
(* processed and collected once, in some order, and the call returns nil   *)
(* with all of them.  Only when something has gone wrong (cancelled) does  *)
(* it return an error instead.                                             *)
(***************************************************************************)
EXTENDS Naturals

CONSTANT Hashes     \* the items: weapons, or definition tables

VARIABLES
    collected,  \* collected[h] : how often h is in the results
    cancelled,  \* the caller's context is cancelled, or an item failed
    ret         \* "running", "nil" or "error"

vars == <<collected, cancelled, ret>>

Init ==
    /\ collected = [h \in Hashes |-> 0]
    /\ cancelled \in BOOLEAN
    /\ ret = "running"

Collect(h) ==
    /\ ret = "running"
    /\ collected[h] = 0
    /\ collected' = [collected EXCEPT ![h] = 1]
    /\ UNCHANGED <<cancelled, ret>>

Cancel ==
    /\ ~cancelled
    /\ cancelled' = TRUE
    /\ UNCHANGED <<collected, ret>>

ReturnAll ==
    /\ ret = "running"
    /\ \A h \in Hashes : collected[h] = 1
    /\ ret' = "nil"
    /\ UNCHANGED <<collected, cancelled>>

ReturnError ==
    /\ ret = "running"
    /\ cancelled
    /\ ret' = "error"
    /\ UNCHANGED <<collected, cancelled>>

Return == ReturnAll \/ ReturnError

Next == (\E h \in Hashes : Collect(h)) \/ Cancel \/ Return

Spec == Init /\ [][Next]_vars /\ WF_vars(Return) /\ WF_vars(\E h \in Hashes : Collect(h))
=============================================================================
