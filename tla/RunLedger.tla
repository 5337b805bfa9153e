----------------------------- MODULE RunLedger ------------------------------
(***************************************************************************)
(* What the canonical run queue promises its clients, without leases,      *)
(* attempts, slots or transactions: a submission is admitted only within   *)
(* the two limits, an admitted run settles at most once and keeps its      *)
(* outcome, and only settled runs are ever removed, for good.              *)
(***************************************************************************)
EXTENDS Integers, FiniteSets

CONSTANTS Runs, MaxQueued, MaxStored

VARIABLE ledger

Outcomes == {"completed", "failed"}

Open    == {r \in Runs : ledger[r] = "open"}
Settled == {r \in Runs : ledger[r] \in Outcomes}

Init == ledger = [r \in Runs |-> "absent"]

\* Run r is admitted; the settled runs in E make room for it.
Admit(r, E) ==
    /\ ledger[r] = "absent"
    /\ E \subseteq Settled
    /\ Cardinality(Open) < MaxQueued
    /\ Cardinality((Open \cup Settled) \ E) < MaxStored
    /\ ledger' = [q \in Runs |-> IF q \in E THEN "removed"
                                 ELSE IF q = r THEN "open" ELSE ledger[q]]

\* The open runs in R end with the same outcome.
Close(R, outcome) ==
    /\ R \subseteq Open
    /\ ledger' = [q \in Runs |-> IF q \in R THEN outcome ELSE ledger[q]]

Remove(E) ==
    /\ E \subseteq Settled
    /\ ledger' = [q \in Runs |-> IF q \in E THEN "removed" ELSE ledger[q]]

Next ==
    \/ \E r \in Runs, E \in SUBSET Runs : Admit(r, E)
    \/ \E R \in SUBSET Runs, outcome \in Outcomes : Close(R, outcome)
    \/ \E E \in SUBSET Runs : Remove(E)

Spec == Init /\ [][Next]_ledger
=============================================================================
