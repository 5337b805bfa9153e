--------------------------- MODULE RunQueueProofs ---------------------------
(***************************************************************************)
(* Proofs about RunQueue for every number of runs, processes and slots,    *)
(* every limit and every timing.  IndInv is the inductive invariant; each  *)
(* lemma below shows that one part of it survives every step.              *)
(***************************************************************************)
EXTENDS RunQueue, FiniteSetTheorems, TLAPS

\* The types of all variables are preserved by every step.
LEMMA TypeStep == TypeOK /\ [Next]_vars => TypeOK'
<1> SUFFICES ASSUME TypeOK, [Next]_vars PROVE TypeOK'
  OBVIOUS
<1> USE TimeAssumption, LimitAssumption
<1>1. ASSUME NEW r \in Runs, Submit(r) PROVE TypeOK'
  BY <1>1 DEF Submit, TypeOK, slotVars, procVars
<1>2. ASSUME NEW r \in Runs, Count(r) PROVE TypeOK'
  <2>1. IsFiniteSet(Stored)
    BY RunsAssumption, FS_Subset DEF Stored, Active, Terminal
  <2>2. Cardinality(Stored) \in Nat
    BY <2>1, FS_CardinalityType
  <2>3. needed' \in Nat
    BY <1>2, <2>2 DEF Count, Excess, TypeOK
  <2>4. QED
    BY <1>2, <2>3 DEF Count, TypeOK, rowVars, slotVars, procVars
<1>3. ASSUME NEW r \in Runs, Evict(r) PROVE TypeOK'
  BY <1>3 DEF Evict, TypeOK, rowVars, slotVars, procVars, Terminal
<1>4. ASSUME NEW r \in Runs, Commit(r, "accepted") \/ Commit(r, "error") PROVE TypeOK'
  BY <1>4 DEF Commit, TypeOK, slotVars, procVars
<1>5. ASSUME NEW r \in Runs, Rollback(r) PROVE TypeOK'
  BY <1>5 DEF Rollback, TypeOK, rowVars, slotVars, procVars
<1>6. ASSUME NEW s \in Slots, SlotNext(s) PROVE TypeOK'
  <2>1. ASSUME NEW r \in Runs, NEW heard \in BOOLEAN, Claim(s, r, heard) PROVE TypeOK'
    <3>1. attempts[r] < MaxAttempts
      BY <2>1 DEF Claim, Claimable
    <3>2. attempts' \in [Runs -> 0 .. MaxAttempts]
      BY <2>1, <3>1 DEF Claim, TypeOK
    <3>3. lease' \in [Runs -> NoLease .. LeaseTicks]
      BY <2>1 DEF Claim, TypeOK, LeaseTicks, NoLease
    <3>4. QED
      BY <2>1, <3>2, <3>3 DEF Claim, TypeOK, MoveSlot, Release, apiVars, procVars
  <2>2. CASE Poll(s) \/ ClaimNothing(s) \/ StartThread(s) \/ ThreadReturns(s) \/ ThreadFails(s) \/ CompleteFails(s)
    BY <2>2 DEF Poll, ClaimNothing, StartThread, ThreadReturns, ThreadFails, CompleteFails,
                TypeOK, MoveSlot, Release, apiVars, procVars, rowVars
  <2>3. ASSUME NEW heard \in BOOLEAN, Complete(s, heard) PROVE TypeOK'
    BY <2>3 DEF Complete, Settle, RunningRow, Terminal, TypeOK, MoveSlot, Release,
                apiVars, procVars, LeaseTicks, NoLease
  <2>4. CASE Fail(s)
    BY <2>4 DEF Fail, Settle, RunningRow, Terminal, TypeOK, MoveSlot, Release,
                apiVars, procVars, LeaseTicks, NoLease
  <2>5. QED
    BY <1>6, <2>1, <2>2, <2>3, <2>4 DEF SlotNext
<1>7. ASSUME NEW p \in Procs, ProcNext(p) PROVE TypeOK'
  <2>1. CASE Boot(p) \/ SweepTimer(p) \/ SweepFails(p) \/ Stop(p)
    BY <2>1 DEF Boot, SweepTimer, SweepFails, Stop, TypeOK, apiVars, rowVars, slotVars
  <2>2. CASE SweepExpire(p)
    BY <2>2 DEF SweepExpire, Exhausted, Settle, Terminal, TypeOK, apiVars, slotVars, LeaseTicks, NoLease
  <2>3. CASE SweepPurge(p)
    BY <2>3 DEF SweepPurge, TypeOK, apiVars, slotVars
  <2>4. CASE Exit(p) \/ Crash(p)
    BY <2>4 DEF Exit, Crash, End, TypeOK, apiVars, rowVars
  <2>5. QED
    BY <1>7, <2>1, <2>2, <2>3, <2>4 DEF ProcNext
<1>8. CASE Tick
  BY <1>8 DEF Tick, Working, TypeOK, Expired, NoLease, LeaseTicks, apiVars, procVars
<1>9. CASE UNCHANGED vars
  BY <1>9 DEF vars, apiVars, rowVars, slotVars, procVars, TypeOK
<1>10. QED
  BY <1>1, <1>2, <1>3, <1>4, <1>5, <1>6, <1>7, <1>8, <1>9 DEF Next, ApiNext

LEMMA TypeInit == Init => TypeOK
BY TimeAssumption, LimitAssumption DEF Init, TypeOK, LeaseTicks, NoLease

\* Every variable keeps its type in every behaviour of the queue.
THEOREM TypeCorrect == Spec => []TypeOK
BY TypeInit, TypeStep, PTL DEF Spec

-----------------------------------------------------------------------------
(* The limits *)

\* The steps of the workers, and of the API outside its transaction.
Outside ==
    \/ \E s \in Slots : SlotNext(s)
    \/ \E p \in Procs : ProcNext(p)
    \/ Tick
    \/ UNCHANGED vars

LEMMA FiniteRows ==
    /\ IsFiniteSet(Active) /\ IsFiniteSet(Stored) /\ IsFiniteSet(Terminal)
    /\ Cardinality(Active) \in Nat /\ Cardinality(Stored) \in Nat
BY RunsAssumption, FS_Subset, FS_CardinalityType DEF Stored, Active, Terminal

\* Between the statements of a transaction the workers only shrink what it
\* counted, and leave the rows it has deleted where they are.
LEMMA OutsideShrinks ==
    ASSUME TypeOK, Outside
    PROVE  /\ Active' \subseteq Active
           /\ Stored' \subseteq Stored
           /\ victims \cap Terminal \subseteq Terminal'
           /\ UNCHANGED <<request, needed, victims>>
<1> DEFINE P == /\ Active' \subseteq Active
                /\ Stored' \subseteq Stored
                /\ victims \cap Terminal \subseteq Terminal'
                /\ UNCHANGED <<request, needed, victims>>
<1> USE DEF Active, Terminal, Stored, TypeOK, apiVars
<1>1. ASSUME NEW s \in Slots, SlotNext(s) PROVE P
  <2>1. ASSUME NEW r \in Runs, NEW heard \in BOOLEAN, Claim(s, r, heard) PROVE P
    BY <2>1 DEF Claim, Claimable
  <2>2. CASE UNCHANGED <<apiVars, rowVars>>
    BY <2>2 DEF rowVars
  <2>3. ASSUME NEW heard \in BOOLEAN, Complete(s, heard) PROVE P
    BY <2>3 DEF Complete, Settle, RunningRow
  <2>4. CASE Fail(s)
    BY <2>4 DEF Fail, Settle, RunningRow
  <2>5. QED
    BY <1>1, <2>1, <2>2, <2>3, <2>4
    DEF SlotNext, Poll, ClaimNothing, StartThread, ThreadReturns, ThreadFails, CompleteFails
<1>2. ASSUME NEW p \in Procs, ProcNext(p) PROVE P
  <2>1. CASE UNCHANGED <<apiVars, rowVars>>
    BY <2>1 DEF rowVars
  <2>2. CASE SweepExpire(p)
    BY <2>2 DEF SweepExpire, Exhausted, Settle
  <2>3. CASE SweepPurge(p)
    BY <2>3 DEF SweepPurge
  <2>4. QED
    BY <1>2, <2>1, <2>2, <2>3
    DEF ProcNext, Boot, SweepTimer, SweepFails, Stop, Exit, Crash, End
<1>3. CASE Tick
  BY <1>3 DEF Tick
<1>4. CASE UNCHANGED vars
  BY <1>4 DEF vars, rowVars
<1>5. QED
  BY <1>1, <1>2, <1>3, <1>4 DEF Outside

LEMMA NextCases ==
    [Next]_vars =>
      \/ Outside
      \/ \E r \in Runs : \/ Submit(r) \/ Count(r) \/ Evict(r) \/ Rollback(r)
                         \/ Commit(r, "accepted") \/ Commit(r, "error")
BY DEF Next, ApiNext, Outside

\* A row leaves "absent" only by COMMIT.
LEMMA AbsentStays ==
    ASSUME Outside, TypeOK, NEW r \in Runs, status[r] = "absent"
    PROVE  status'[r] = "absent"
<1> USE DEF TypeOK
<1>1. ASSUME NEW s \in Slots, SlotNext(s) PROVE status'[r] = "absent"
  <2>1. ASSUME NEW q \in Runs, NEW heard \in BOOLEAN, Claim(s, q, heard)
        PROVE  status'[r] = "absent"
    BY <2>1 DEF Claim, Claimable
  <2>2. QED
    BY <1>1, <2>1 DEF SlotNext, Poll, ClaimNothing, StartThread, ThreadReturns,
       ThreadFails, CompleteFails, Complete, Fail, Settle, RunningRow, rowVars
<1>2. ASSUME NEW p \in Procs, ProcNext(p) PROVE status'[r] = "absent"
  BY <1>2 DEF ProcNext, Boot, SweepTimer, SweepFails, Stop, Exit, Crash, End,
     SweepExpire, Exhausted, SweepPurge, Settle, Terminal, rowVars
<1>3. QED
  BY <1>1, <1>2 DEF Outside, Tick, vars, rowVars

LEMMA LockStep == TypeOK /\ LockInv /\ [Next]_vars => LockInv'
<1> SUFFICES ASSUME TypeOK, LockInv, [Next]_vars PROVE LockInv'
  OBVIOUS
<1>1. CASE Outside
  BY <1>1, OutsideShrinks, AbsentStays DEF LockInv, LockHolders
<1>2. ASSUME NEW r \in Runs, Submit(r) PROVE LockInv'
  BY <1>2 DEF Submit, LockInv, LockHolders, TypeOK, Terminal
<1>3. ASSUME NEW r \in Runs, Count(r) PROVE LockInv'
  BY <1>3 DEF Count, LockInv, LockHolders, TypeOK, Terminal, rowVars
<1>4. ASSUME NEW r \in Runs, Evict(r) PROVE LockInv'
  <2>1. victims = {}
    BY <1>4 DEF Evict, LockInv, LockHolders
  <2>2. QED
    BY <1>4, <2>1 DEF Evict, LockInv, LockHolders, TypeOK, Terminal, rowVars
<1>5. ASSUME NEW r \in Runs, Rollback(r) PROVE LockInv'
  BY <1>5 DEF Rollback, LockInv, LockHolders, TypeOK, Terminal, rowVars
<1>6. ASSUME NEW r \in Runs, Commit(r, "accepted") \/ Commit(r, "error") PROVE LockInv'
  BY <1>6 DEF Commit, LockInv, LockHolders, TypeOK, Terminal
<1>7. QED
  BY <1>1, <1>2, <1>3, <1>4, <1>5, <1>6, NextCases

\* The budget holds from the count to the commit, whatever the workers do.
LEMMA BudgetStep ==
    TypeOK /\ LockInv /\ BudgetInv /\ [Next]_vars => BudgetInv'
<1> SUFFICES ASSUME TypeOK, LockInv, BudgetInv, [Next]_vars PROVE BudgetInv'
  OBVIOUS
<1> USE FiniteRows, LimitAssumption
<1>1. CASE Outside
  <2>1. /\ Cardinality(Active') <= Cardinality(Active)
        /\ Cardinality(Stored') <= Cardinality(Stored)
        /\ Cardinality(Active') \in Nat
        /\ Cardinality(Stored') \in Nat
    BY <1>1, OutsideShrinks, FS_Subset, FS_CardinalityType
  <2>2. UNCHANGED <<request, needed, victims>>
    BY <1>1, OutsideShrinks
  <2>3. QED
    BY <2>1, <2>2 DEF BudgetInv, LockHolders, TypeOK
<1>2. ASSUME NEW r \in Runs, Submit(r) PROVE BudgetInv'
  BY <1>2 DEF Submit, BudgetInv, LockHolders, TypeOK, Active, Stored, Terminal
<1>3. ASSUME NEW r \in Runs, Count(r) PROVE BudgetInv'
  <2>1. UNCHANGED <<Active, Stored, victims>>
    BY <1>3 DEF Count, rowVars, Active, Stored, Terminal
  <2>2. CASE request'[r] = "refused"
    BY <1>3, <2>1, <2>2 DEF Count, BudgetInv, LockHolders, TypeOK
  <2>3. CASE request'[r] = "counted"
    <3>1. Cardinality(Active) < MaxQueued /\ Cardinality(Stored) < MaxStored + needed'
      BY <1>3, <2>3 DEF Count, Excess, TypeOK
    <3>2. \A q \in LockHolders' : q = r
      BY <1>3 DEF Count, LockHolders, TypeOK
    <3>3. QED
      BY <2>1, <2>3, <3>1, <3>2 DEF BudgetInv, LockHolders
  <2>4. QED
    BY <1>3, <2>2, <2>3 DEF Count, Excess, TypeOK
<1>4. ASSUME NEW r \in Runs, Evict(r) PROVE BudgetInv'
  <2>1. UNCHANGED <<Active, Stored>>
    BY <1>4 DEF Evict, rowVars, Active, Stored, Terminal
  <2>2. PICK E \in SUBSET Terminal :
          /\ OldestTerminal(E, needed)
          /\ IF Cardinality(E) < needed
             THEN /\ request' = [request EXCEPT ![r] = "refused"]
                  /\ needed' = 0
             ELSE /\ request' = [request EXCEPT ![r] = "evicted"]
                  /\ victims' = E
                  /\ UNCHANGED needed
    BY <1>4 DEF Evict
  <2>3. \A q \in LockHolders : q = r
    BY <1>4 DEF Evict, LockInv, LockHolders
  <2>4. CASE Cardinality(E) < needed
    BY <2>2, <2>3, <2>4 DEF BudgetInv, LockHolders, TypeOK
  <2>5. CASE ~(Cardinality(E) < needed)
    <3>1. Cardinality(E) = needed
      <4>1. Cardinality(E) \in Nat
        BY FS_Subset, FS_CardinalityType
      <4>2. QED
        BY <2>2, <2>5, <4>1 DEF OldestTerminal, TypeOK
    <3>2. r \in LockHolders
      BY <1>4 DEF Evict, LockHolders
    <3>3. Cardinality(Active) < MaxQueued /\ Cardinality(Stored) < MaxStored + needed
      BY <3>2 DEF BudgetInv
    <3>4. \A q \in LockHolders' : q = r
      BY <2>2, <2>3, <2>5 DEF LockHolders, TypeOK
    <3>5. QED
      BY <2>1, <2>2, <2>5, <3>1, <3>3, <3>4 DEF BudgetInv
  <2>6. QED
    BY <2>4, <2>5
<1>5. ASSUME NEW r \in Runs, Rollback(r) PROVE BudgetInv'
  <2>1. UNCHANGED <<Active, Stored>>
    BY <1>5 DEF Rollback, rowVars, Active, Stored, Terminal
  <2>2. QED
    BY <1>5, <2>1 DEF Rollback, BudgetInv, LockInv, LockHolders, TypeOK
<1>6. ASSUME NEW r \in Runs, Commit(r, "accepted") \/ Commit(r, "error") PROVE BudgetInv'
  <2>1. LockHolders' = {}
    BY <1>6 DEF Commit, LockInv, LockHolders, TypeOK
  <2>2. QED
    BY <2>1 DEF BudgetInv
<1>7. QED
  BY <1>1, <1>2, <1>3, <1>4, <1>5, <1>6, NextCases

\* The insert stays within both limits.
LEMMA LimitsStep ==
    TypeOK /\ LockInv /\ BudgetInv /\ WithinLimits /\ [Next]_vars => WithinLimits'
<1> SUFFICES ASSUME TypeOK, LockInv, BudgetInv, WithinLimits, [Next]_vars
             PROVE  WithinLimits'
  OBVIOUS
<1> USE FiniteRows, LimitAssumption
<1>1. CASE Outside
  <2>1. /\ Cardinality(Active') <= Cardinality(Active)
        /\ Cardinality(Stored') <= Cardinality(Stored)
        /\ Cardinality(Active') \in Nat
        /\ Cardinality(Stored') \in Nat
    BY <1>1, OutsideShrinks, FS_Subset, FS_CardinalityType
  <2>2. QED
    BY <2>1 DEF WithinLimits
<1>2. ASSUME NEW r \in Runs, Submit(r) \/ Count(r) \/ Evict(r) \/ Rollback(r)
      PROVE WithinLimits'
  BY <1>2 DEF Submit, Count, Evict, Rollback, rowVars, WithinLimits, Active, Stored, Terminal
<1>3. ASSUME NEW r \in Runs, Commit(r, "accepted") \/ Commit(r, "error")
      PROVE  WithinLimits'
  <2>1. /\ r \in LockHolders
        /\ request[r] = "evicted"
        /\ r \notin Stored /\ r \notin Active
        /\ victims \subseteq Terminal
    BY <1>3 DEF Commit, LockHolders, LockInv, Stored, Active, Terminal
  <2>2. Active' = Active \cup {r}
    BY <1>3, <2>1 DEF Commit, Active, Stored, Terminal, TypeOK
  <2>3. Stored' = (Stored \ victims) \cup {r}
    BY <1>3, <2>1 DEF Commit, Active, Stored, Terminal, TypeOK
  <2>4. Cardinality(Active') = Cardinality(Active) + 1
    BY <2>1, <2>2, FS_AddElement
  <2>5. /\ IsFiniteSet(Stored \ victims)
        /\ Cardinality(Stored \ victims) = Cardinality(Stored) - Cardinality(victims)
    <3>1. victims \subseteq Stored
      BY <2>1 DEF Stored
    <3>2. Stored \cap victims = victims
      BY <3>1
    <3>3. QED
      BY <3>2, FS_Difference
  <2>6. Cardinality(Stored') = Cardinality(Stored) - Cardinality(victims) + 1
    BY <2>1, <2>3, <2>5, FS_AddElement
  <2>7. Cardinality(victims) = needed
    BY <2>1 DEF BudgetInv
  <2>8. Cardinality(Active) < MaxQueued /\ Cardinality(Stored) < MaxStored + needed
    BY <2>1 DEF BudgetInv
  <2>9. QED
    BY <2>4, <2>6, <2>7, <2>8 DEF WithinLimits, TypeOK
<1>4. QED
  BY <1>1, <1>2, <1>3, NextCases

-----------------------------------------------------------------------------
(* Leases and jobs *)

\* The steps of the API's transactions.
Inside ==
    \E r \in Runs : \/ Submit(r) \/ Count(r) \/ Evict(r) \/ Rollback(r)
                    \/ Commit(r, "accepted") \/ Commit(r, "error")

\* A transaction changes no lease and no slot; it adds an absent run and deletes
\* settled ones.
LEMMA InsideRows ==
    ASSUME TypeOK, LockInv, Inside
    PROVE  /\ UNCHANGED <<attempts, lease, code, slotVars, procVars>>
           /\ \A r \in Runs :
                 \/ status'[r] = status[r]
                 \/ status[r] = "absent" /\ status'[r] = "queued"
                 \/ r \in Terminal /\ status'[r] = "deleted"
<1> DEFINE P == /\ UNCHANGED <<attempts, lease, code, slotVars, procVars>>
                /\ \A r \in Runs :
                      \/ status'[r] = status[r]
                      \/ status[r] = "absent" /\ status'[r] = "queued"
                      \/ r \in Terminal /\ status'[r] = "deleted"
<1>1. ASSUME NEW r \in Runs, Commit(r, "accepted") \/ Commit(r, "error") PROVE P
  BY <1>1 DEF Commit, LockInv, TypeOK
<1>2. ASSUME NEW r \in Runs, Submit(r) \/ Count(r) \/ Evict(r) \/ Rollback(r) PROVE P
  BY <1>2 DEF Submit, Count, Evict, Rollback, rowVars
<1>3. QED
  BY <1>1, <1>2 DEF Inside

LEMMA LeaseStep ==
    TypeOK /\ LockInv /\ LeaseInv /\ [Next]_vars => LeaseInv'
<1> SUFFICES ASSUME TypeOK, LockInv, LeaseInv, [Next]_vars PROVE LeaseInv'
  OBVIOUS
<1> USE TimeAssumption DEF TypeOK, LeaseInv, NoLease, LeaseTicks
<1>1. CASE Inside
  BY <1>1, InsideRows DEF Terminal
<1>2. ASSUME NEW s \in Slots, SlotNext(s) PROVE LeaseInv'
  <2>1. ASSUME NEW r \in Runs, NEW heard \in BOOLEAN, Claim(s, r, heard) PROVE LeaseInv'
    BY <2>1 DEF Claim
  <2>2. CASE UNCHANGED rowVars
    BY <2>2 DEF rowVars
  <2>3. ASSUME NEW heard \in BOOLEAN, Complete(s, heard) PROVE LeaseInv'
    BY <2>3 DEF Complete, Settle
  <2>4. CASE Fail(s)
    BY <2>4 DEF Fail, Settle
  <2>5. QED
    BY <1>2, <2>1, <2>2, <2>3, <2>4
    DEF SlotNext, Poll, ClaimNothing, StartThread, ThreadReturns, ThreadFails, CompleteFails
<1>3. ASSUME NEW p \in Procs, ProcNext(p) PROVE LeaseInv'
  <2>1. CASE UNCHANGED rowVars
    BY <2>1 DEF rowVars
  <2>2. CASE SweepExpire(p)
    BY <2>2 DEF SweepExpire, Exhausted, Settle
  <2>3. CASE SweepPurge(p)
    BY <2>3 DEF SweepPurge, Terminal
  <2>4. QED
    BY <1>3, <2>1, <2>2, <2>3
    DEF ProcNext, Boot, SweepTimer, SweepFails, Stop, Exit, Crash, End
<1>4. CASE Tick
  BY <1>4 DEF Tick, Expired
<1>5. CASE UNCHANGED vars
  BY <1>5 DEF vars, rowVars
<1>6. QED
  BY <1>1, <1>2, <1>3, <1>4, <1>5, NextCases DEF Inside, Outside

LEMMA JobStep == TypeOK /\ LockInv /\ JobInv /\ [Next]_vars => JobInv'
<1> SUFFICES ASSUME TypeOK, LockInv, JobInv, [Next]_vars PROVE JobInv'
  OBVIOUS
<1> USE RunsAssumption DEF TypeOK, JobInv, Working, slotVars
<1>1. CASE Inside
  BY <1>1, InsideRows
<1>2. ASSUME NEW s \in Slots, SlotNext(s) PROVE JobInv'
  BY <1>2 DEF SlotNext, Poll, Claim, ClaimNothing, StartThread, ThreadReturns,
     ThreadFails, Complete, CompleteFails, Fail, MoveSlot, Release
<1>3. ASSUME NEW p \in Procs, ProcNext(p) PROVE JobInv'
  BY <1>3 DEF ProcNext, Boot, SweepTimer, SweepExpire, Exhausted, SweepPurge, SweepFails,
     Stop, Exit, Crash, End
<1>4. CASE Tick \/ UNCHANGED vars
  BY <1>4 DEF Tick, vars
<1>5. QED
  BY <1>1, <1>2, <1>3, <1>4, NextCases DEF Inside, Outside

-----------------------------------------------------------------------------
(* One prompt worker per run *)

\* A run that may be claimed is in no prompt slot's hands.
LEMMA ClaimableIsFree ==
    ASSUME TypeOK, JobInv, CoverInv, Prompt, NEW r \in Claimable,
           NEW s \in Slots, Working(s)
    PROVE  job[s] # r
<1>1. SUFFICES ASSUME job[s] = r PROVE FALSE
  OBVIOUS
<1>2. status[r] \in {"queued", "running"} /\ (status[r] = "running" => lease[r] = Expired)
  BY DEF Claimable
<1>3. Covered(s)
  BY DEF CoverInv
<1>4. due[s] + Remaining(s) <= lease[r]
  BY <1>1, <1>2, <1>3 DEF Covered
<1>5. due[s] \in Nat /\ Remaining(s) \in Nat
  BY TimeAssumption DEF Remaining, TypeOK
<1>6. QED
  BY <1>1, <1>2, <1>3, <1>4, <1>5 DEF Covered, Expired, TypeOK

\* A slot keeps its cover when its own state and its run do not change.
LEMMA CoverKept ==
    ASSUME TypeOK, CoverInv, Prompt, NEW t \in Slots, Working(t)', job[t] # NoRun,
           pc'[t] = pc[t], job'[t] = job[t], due'[t] = due[t],
           \/ status'[job[t]] = status[job[t]] /\ lease'[job[t]] = lease[job[t]]
           \/ /\ status[job[t]] # "running"
              /\ status'[job[t]] \in {"completed", "failed", "deleted"}
    PROVE  Covered(t)'
<1>1. Working(t) /\ Covered(t)
  BY DEF CoverInv, Working
<1>2. Remaining(t)' = Remaining(t)
  BY DEF Remaining
<1>3. QED
  BY <1>1, <1>2 DEF Covered

LEMMA CoverStep ==
    /\ TypeOK /\ LockInv /\ LeaseInv /\ JobInv /\ CoverInv /\ OneWorkerPerRun
    /\ [Next]_vars
    => CoverInv' /\ OneWorkerPerRun'
<1> SUFFICES ASSUME TypeOK, LockInv, LeaseInv, JobInv, CoverInv, OneWorkerPerRun,
                    [Next]_vars, Prompt
             PROVE  /\ \A t \in Slots : Working(t)' => Covered(t)'
                    /\ \A t, u \in Slots :
                          t # u /\ Working(t)' /\ Working(u)' => job'[t] # job'[u]
  BY DEF CoverInv, OneWorkerPerRun, Prompt
<1> DEFINE Goal == /\ \A t \in Slots : Working(t)' => Covered(t)'
                   /\ \A t, u \in Slots :
                         t # u /\ Working(t)' /\ Working(u)' => job'[t] # job'[u]
<1> USE TimeAssumption
<1>1. \A t, u \in Slots : t # u /\ Working(t) /\ Working(u) => job[t] # job[u]
  BY DEF OneWorkerPerRun
<1>2. \A t \in Slots : Working(t) => job[t] \in Runs /\ Covered(t)
  BY DEF CoverInv, JobInv, TypeOK
<1>3. CASE Inside
  <2>1. UNCHANGED <<lease, slotVars>>
    BY <1>3, InsideRows
  <2>2. ASSUME NEW t \in Slots, Working(t)' PROVE Covered(t)'
    <3>1. Working(t)
      BY <2>1, <2>2 DEF Working, slotVars
    <3>2. \/ status'[job[t]] = status[job[t]]
          \/ /\ status[job[t]] # "running"
             /\ status'[job[t]] \in {"completed", "failed", "deleted"}
      BY <1>2, <1>3, <3>1, InsideRows DEF Covered, Terminal
    <3>3. QED
      BY <2>1, <2>2, <3>1, <3>2, CoverKept, JobInv DEF slotVars, JobInv
  <2>3. QED
    BY <1>1, <2>1, <2>2 DEF Working, slotVars
<1>4. ASSUME NEW s \in Slots, SlotNext(s) PROVE Goal
  <2>1. ASSUME NEW r \in Runs, NEW heard \in BOOLEAN, Claim(s, r, heard) PROVE Goal
    <3>1. r \in Claimable
      BY <2>1 DEF Claim
    <3>2. \A t \in Slots \ {s} : /\ pc'[t] = pc[t] /\ job'[t] = job[t] /\ due'[t] = due[t]
                                 /\ Working(t)' = Working(t)
      BY <2>1 DEF Claim, MoveSlot, Release, TypeOK, Working
    <3>3. \A t \in Slots : Working(t) => job[t] # r
      BY <3>1, ClaimableIsFree
    <3>4. \A t \in Slots \ {s} : Working(t)' => Covered(t)'
      <4>1. SUFFICES ASSUME NEW t \in Slots \ {s}, Working(t)' PROVE Covered(t)'
        OBVIOUS
      <4>2. /\ job[t] # r /\ job[t] \in Runs
            /\ job[t] # NoRun
        BY <1>2, <3>2, <3>3, <4>1, RunsAssumption
      <4>3. status'[job[t]] = status[job[t]] /\ lease'[job[t]] = lease[job[t]]
        BY <2>1, <4>2 DEF Claim, TypeOK
      <4>4. QED
        BY <3>2, <4>1, <4>2, <4>3, CoverKept
    <3>5. Working(s)' => Covered(s)' /\ job'[s] = r
      <4>1. CASE heard
        <5>1. /\ pc'[s] = "claimed" /\ job'[s] = r /\ due'[s] = Delay
              /\ status'[r] = "running" /\ lease'[r] = Timeout + Grace
          BY <2>1, <4>1 DEF Claim, MoveSlot, TypeOK, LeaseTicks
        <5>2. QED
          BY <5>1 DEF Covered, Remaining, Prompt
      <4>2. CASE ~heard
        BY <2>1, <4>2 DEF Claim, Release, MoveSlot, TypeOK, Working
      <4>3. QED
        BY <4>1, <4>2
    <3>6. QED
      BY <1>1, <3>2, <3>3, <3>4, <3>5
  <2>2. CASE Poll(s) \/ ClaimNothing(s)
    <3>1. /\ ~Working(s)'
          /\ \A t \in Slots \ {s} : /\ pc'[t] = pc[t] /\ job'[t] = job[t] /\ due'[t] = due[t]
                                    /\ Working(t)' = Working(t)
          /\ UNCHANGED <<status, lease>>
      BY <2>2 DEF Poll, ClaimNothing, MoveSlot, Release, TypeOK, Working, rowVars
    <3>2. QED
      BY <1>1, <1>2, <3>1, CoverKept, RunsAssumption
  <2>3. ASSUME /\ StartThread(s) \/ ThreadReturns(s) \/ ThreadFails(s) \/ CompleteFails(s)
        PROVE Goal
    <3>1. /\ Working(s)
          /\ UNCHANGED <<job, status, lease>>
          /\ \A t \in Slots \ {s} : pc'[t] = pc[t] /\ due'[t] = due[t] /\ Working(t)' = Working(t)
      BY <2>3 DEF StartThread, ThreadReturns, ThreadFails, CompleteFails, MoveSlot,
         TypeOK, Working, rowVars
    <3>2. status[job[s]] = "running" /\ due[s] + Remaining(s) <= lease[job[s]]
      BY <1>2, <2>3, <3>1 DEF Covered, StartThread, ThreadReturns, ThreadFails, CompleteFails
    <3>3. due'[s] + Remaining(s)' <= due[s] + Remaining(s)
      BY <2>3 DEF StartThread, ThreadReturns, ThreadFails, CompleteFails, MoveSlot,
         Remaining, TypeOK
    <3>4. Remaining(s) \in Nat /\ Remaining(s)' \in Nat /\ due'[s] \in Nat /\ due[s] \in Nat
      BY <2>3 DEF Remaining, StartThread, ThreadReturns, ThreadFails, CompleteFails,
         MoveSlot, TypeOK
    <3>5. Covered(s)'
      BY <1>2, <3>1, <3>2, <3>3, <3>4 DEF Covered, TypeOK
    <3>6. QED
      BY <1>1, <1>2, <3>1, <3>5, CoverKept, RunsAssumption
  <2>4. ASSUME \/ \E heard \in BOOLEAN : Complete(s, heard)
               \/ Fail(s)
        PROVE Goal
    <3>1. /\ Working(s) /\ job[s] \in Runs
          /\ \A r \in Runs \ {job[s]} : status'[r] = status[r] /\ lease'[r] = lease[r]
          /\ \A t \in Slots \ {s} : /\ pc'[t] = pc[t] /\ job'[t] = job[t] /\ due'[t] = due[t]
                                    /\ Working(t)' = Working(t)
      <4>1. Working(s) /\ job[s] \in Runs
        BY <1>2, <2>4 DEF Complete, Fail, Working
      <4>2. QED
        BY <2>4, <4>1 DEF Complete, Fail, Settle, RunningRow, MoveSlot, Release, TypeOK, Working
    <3>2. Working(s)' => Covered(s)' /\ job'[s] = job[s]
      <4>1. SUFFICES ASSUME Working(s)' PROVE Covered(s)' /\ job'[s] = job[s]
        OBVIOUS
      <4>2. Complete(s, FALSE)
        BY <2>4, <4>1 DEF Complete, Fail, Release, MoveSlot, TypeOK, Working
      <4>3. status[job[s]] = "running"
        BY <1>2, <3>1, <4>2 DEF Complete, Covered
      <4>4. status'[job[s]] = "completed" /\ pc'[s] = "failing" /\ job'[s] = job[s]
        BY <3>1, <4>2, <4>3 DEF Complete, Settle, RunningRow, MoveSlot, TypeOK
      <4>5. QED
        BY <4>4 DEF Covered
    <3>3. \A t \in Slots \ {s} : Working(t)' => Covered(t)'
      BY <1>1, <1>2, <3>1, CoverKept, RunsAssumption
    <3>4. QED
      BY <1>1, <3>1, <3>2, <3>3
  <2>5. QED
    BY <1>4, <2>1, <2>2, <2>3, <2>4 DEF SlotNext
<1>5. ASSUME NEW p \in Procs, ProcNext(p) PROVE Goal
  <2>1. ASSUME UNCHANGED slotVars,
               \A r \in Runs : \/ status'[r] = status[r] /\ lease'[r] = lease[r]
                               \/ /\ status[r] # "running"
                                  /\ status'[r] \in {"completed", "failed", "deleted"}
        PROVE  Goal
    BY <1>1, <1>2, <2>1, CoverKept, RunsAssumption DEF Working, slotVars
  <2>2. CASE Boot(p) \/ SweepTimer(p) \/ SweepFails(p) \/ Stop(p)
    BY <2>1, <2>2 DEF Boot, SweepTimer, SweepFails, Stop, rowVars
  <2>3. CASE SweepPurge(p)
    BY <2>1, <2>3 DEF SweepPurge, Terminal, TypeOK
  <2>4. CASE SweepExpire(p)
    <3>1. UNCHANGED slotVars
      BY <2>4 DEF SweepExpire, Exhausted
    <3>2. ASSUME NEW t \in Slots, Working(t)
          PROVE  status'[job[t]] = status[job[t]] /\ lease'[job[t]] = lease[job[t]]
      <4>1. Remaining(t) \in Nat /\ due[t] \in Nat
        BY DEF Remaining, TypeOK
      <4>2. status[job[t]] = "running" => lease[job[t]] # Expired
        BY <1>2, <3>2, <4>1 DEF Covered, Expired, TypeOK
      <4>3. QED
        BY <1>2, <2>4, <3>2, <4>2 DEF SweepExpire, Exhausted, Settle
    <3>3. QED
      BY <1>1, <1>2, <3>1, <3>2, CoverKept, RunsAssumption DEF Working, slotVars
  <2>5. CASE Exit(p) \/ Crash(p)
    <3>1. /\ UNCHANGED <<status, lease>>
          /\ \A t \in Slots : Working(t)' =>
                /\ Working(t)
                /\ pc'[t] = pc[t] /\ job'[t] = job[t] /\ due'[t] = due[t]
      BY <2>5 DEF Exit, Crash, End, TypeOK, Working, rowVars
    <3>2. QED
      BY <1>1, <1>2, <3>1, CoverKept, RunsAssumption
  <2>6. QED
    BY <1>5, <2>2, <2>3, <2>4, <2>5 DEF ProcNext
<1>6. CASE Tick
  <2>1. /\ UNCHANGED <<status, pc, job>>
        /\ \A t \in Slots : Working(t)' = Working(t)
    BY <1>6 DEF Tick, Working
  <2>2. ASSUME NEW t \in Slots, Working(t) PROVE Covered(t)'
    <3>1. /\ due[t] > 0 /\ due'[t] = due[t] - 1 /\ due[t] \in Nat
          /\ Remaining(t) \in Nat /\ Remaining(t)' = Remaining(t)
      BY <1>6, <2>1, <2>2 DEF Tick, Remaining, TypeOK
    <3>2. CASE status[job[t]] = "running" /\ due[t] + Remaining(t) <= lease[job[t]]
      <4>1. lease'[job[t]] = lease[job[t]] - 1
        BY <1>2, <1>6, <2>2, <3>1, <3>2 DEF Tick, Expired, TypeOK
      <4>2. lease[job[t]] \in Int
        BY <1>2, <2>2 DEF TypeOK, NoLease, LeaseTicks
      <4>3. due'[t] + Remaining(t)' <= lease'[job[t]]
        BY <3>1, <3>2, <4>1, <4>2
      <4>4. QED
        BY <2>1, <3>2, <4>3 DEF Covered
    <3>3. QED
      BY <1>2, <2>1, <2>2, <3>2 DEF Covered
  <2>3. QED
    BY <1>1, <2>1, <2>2
<1>7. CASE UNCHANGED vars
  <2>1. UNCHANGED <<status, lease, pc, job, due>>
    BY <1>7 DEF vars, rowVars, slotVars
  <2>2. \A t \in Slots : Working(t)' = Working(t)
    BY <2>1 DEF Working
  <2>3. QED
    BY <1>1, <1>2, <2>1, <2>2, CoverKept, RunsAssumption
<1>8. QED
  BY <1>3, <1>4, <1>5, <1>6, <1>7, NextCases DEF Inside, Outside

-----------------------------------------------------------------------------
(* The theorems *)

LEMMA InitIndInv == Init => IndInv
<1> SUFFICES ASSUME Init PROVE IndInv
  OBVIOUS
<1>1. Active = {} /\ Stored = {} /\ LockHolders = {}
  BY DEF Init, Active, Stored, Terminal, LockHolders
<1>2. WithinLimits /\ BudgetInv
  BY <1>1, LimitAssumption, FS_EmptySet DEF WithinLimits, BudgetInv
<1>3. LockInv /\ LeaseInv /\ JobInv
  BY <1>1 DEF Init, LockInv, LeaseInv, JobInv, Working, NoLease
<1>4. CoverInv /\ OneWorkerPerRun
  BY DEF Init, CoverInv, OneWorkerPerRun, Working
<1>5. QED
  BY <1>2, <1>3, <1>4, TypeInit DEF IndInv

\* The inductive invariant holds in every reachable state.
THEOREM Inductive == Spec => []IndInv
<1>1. IndInv /\ [Next]_vars => IndInv'
  BY TypeStep, LockStep, BudgetStep, LimitsStep, LeaseStep, JobStep, CoverStep DEF IndInv
<1>2. QED
  BY InitIndInv, <1>1, PTL DEF Spec

\* queueRun never lets the open rows or all rows exceed their limits, for any
\* number of requests and workers and any interleaving of their statements.
THEOREM LimitsHold == Spec => []WithinLimits
<1>1. IndInv => WithinLimits
  BY DEF IndInv
<1>2. QED
  BY Inductive, <1>1, PTL

\* If the grace period covers three delays, no two slots ever work on one run.
THEOREM Exclusive == Spec => []OneWorkerPerRun
<1>1. IndInv => OneWorkerPerRun
  BY DEF IndInv
<1>2. QED
  BY Inductive, <1>1, PTL

\* If the grace period covers three delays, the row of a job that is computed or
\* saved is still open, so that the result is not dropped.
THEOREM ResultsArrive == Spec => []WorkIsNotLost
<1>1. IndInv => WorkIsNotLost
  BY DEF IndInv, CoverInv, Covered, WorkIsNotLost, Working
<1>2. QED
  BY Inductive, <1>1, PTL

\* A settled row keeps its status and its failure code until it is deleted, and
\* stays deleted: no step of a late worker reopens or rewrites it.
LEMMA FinalStep ==
    ASSUME IndInv, [Next]_vars, NEW r \in Runs
    PROVE  /\ r \in Terminal => \/ status'[r] = "deleted"
                                \/ status'[r] = status[r] /\ code'[r] = code[r]
           /\ status[r] = "deleted" => status'[r] = "deleted"
<1> DEFINE P == /\ r \in Terminal => \/ status'[r] = "deleted"
                                     \/ status'[r] = status[r] /\ code'[r] = code[r]
                /\ status[r] = "deleted" => status'[r] = "deleted"
<1> USE DEF IndInv, TypeOK, Terminal
<1>1. CASE Inside
  BY <1>1, InsideRows
<1>2. ASSUME NEW s \in Slots, SlotNext(s) PROVE P
  <2>1. ASSUME NEW q \in Runs, NEW heard \in BOOLEAN, Claim(s, q, heard) PROVE P
    BY <2>1 DEF Claim, Claimable
  <2>2. QED
    BY <1>2, <2>1 DEF SlotNext, Poll, ClaimNothing, StartThread, ThreadReturns,
       ThreadFails, Complete, CompleteFails, Fail, Settle, RunningRow, rowVars
<1>3. ASSUME NEW p \in Procs, ProcNext(p) PROVE P
  BY <1>3 DEF ProcNext, Boot, SweepTimer, SweepExpire, Exhausted, SweepPurge, SweepFails,
     Stop, Exit, Crash, End, Settle, rowVars
<1>4. CASE Tick \/ UNCHANGED vars
  BY <1>4 DEF Tick, vars, rowVars
<1>5. QED
  BY <1>1, <1>2, <1>3, <1>4, NextCases DEF Inside, Outside

\* Outcomes are final in every behaviour of the queue.
THEOREM OutcomesHold == Spec => OutcomeIsFinal
<1>1. IndInv /\ [Next]_vars =>
        [\A r \in Runs :
            /\ r \in Terminal =>
                  \/ status'[r] = "deleted"
                  \/ status'[r] = status[r] /\ code'[r] = code[r]
            /\ status[r] = "deleted" => status'[r] = "deleted"]_vars
  BY FinalStep
<1>2. QED
  BY Inductive, <1>1, PTL DEF Spec, OutcomeIsFinal

-----------------------------------------------------------------------------
(* Refinement *)

\* The ledger counts with the same Cardinality.
LEMMA LedgerCardinality == \A S : Ledger!Cardinality(S) = Cardinality(S)
BY DEF Ledger!Cardinality, Cardinality

LEMMA LedgerSets ==
    TypeOK => Ledger!Open = Active /\ Ledger!Settled = Terminal
BY DEF Ledger!Open, Ledger!Settled, Ledger!Outcomes, LedgerState, Active, Terminal, TypeOK

\* Every step of the queue admits, closes or removes runs as the ledger allows,
\* or leaves the ledger alone.
LEMMA LedgerStep ==
    ASSUME IndInv, IndInv', [Next]_vars
    PROVE  Ledger!Next \/ UNCHANGED LedgerState
<1> USE DEF IndInv
<1>1. \A r \in Runs : LedgerState[r] = IF r \in Active THEN "open"
                                       ELSE IF status[r] = "deleted" THEN "removed"
                                       ELSE status[r]
  BY DEF LedgerState
<1>2. CASE UNCHANGED status
  BY <1>2 DEF LedgerState, Active
<1>3. ASSUME NEW r \in Runs, Commit(r, "accepted") \/ Commit(r, "error")
      PROVE  Ledger!Next
  <2>1. /\ r \in LockHolders
        /\ status[r] = "absent"
        /\ victims \subseteq Terminal
    BY <1>3 DEF Commit, LockHolders, LockInv
  <2>2. Cardinality(Active) < MaxQueued
    BY <2>1 DEF BudgetInv
  <2>3. Cardinality(Stored \ victims) < MaxStored
    <3>1. Stored \cap victims = victims
      BY <2>1 DEF Stored
    <3>2. Cardinality(Stored \ victims) = Cardinality(Stored) - Cardinality(victims)
      BY <3>1, FiniteRows, FS_Difference
    <3>3. Cardinality(victims) = needed /\ Cardinality(Stored) < MaxStored + needed
      BY <1>3, <2>1 DEF BudgetInv, Commit
    <3>4. QED
      BY <3>2, <3>3, FiniteRows, LimitAssumption DEF TypeOK
  <2>4. LedgerState' = [q \in Runs |-> IF q \in victims THEN "removed"
                                       ELSE IF q = r THEN "open" ELSE LedgerState[q]]
    BY <1>3, <2>1 DEF Commit, LedgerState, Active, Terminal, TypeOK
  <2>5. LedgerState[r] = "absent"
    BY <2>1 DEF LedgerState, Active
  <2>6. Ledger!Admit(r, victims)
    BY <2>1, <2>2, <2>3, <2>4, <2>5, LedgerSets, LedgerCardinality DEF Ledger!Admit, Stored
  <2>7. QED
    BY <2>6 DEF Ledger!Next, TypeOK
<1>4. ASSUME NEW R \in SUBSET {r \in Runs : status[r] = "running"},
             NEW as \in {"completed", "failed"}, NEW why, Settle(R, as, why)
      PROVE  Ledger!Next
  <2>1. R \subseteq Active
    BY DEF Active
  <2>2. LedgerState' = [q \in Runs |-> IF q \in R THEN as ELSE LedgerState[q]]
    BY <1>4, <2>1 DEF Settle, LedgerState, Active, TypeOK
  <2>3. Ledger!Close(R, as)
    BY <2>1, <2>2, LedgerSets DEF Ledger!Close
  <2>4. QED
    BY <2>3 DEF Ledger!Next, Ledger!Outcomes
<1>5. ASSUME NEW s \in Slots, SlotNext(s) PROVE Ledger!Next \/ UNCHANGED LedgerState
  <2>1. ASSUME NEW r \in Runs, NEW heard \in BOOLEAN, Claim(s, r, heard)
        PROVE  UNCHANGED LedgerState
    BY <2>1 DEF Claim, Claimable, LedgerState, Active, TypeOK
  <2>2. ASSUME NEW heard \in BOOLEAN, Complete(s, heard) PROVE Ledger!Next
    BY <1>4, <2>2 DEF Complete, RunningRow
  <2>3. CASE Fail(s)
    BY <1>4, <2>3 DEF Fail, RunningRow
  <2>4. QED
    BY <1>2, <1>5, <2>1, <2>2, <2>3
    DEF SlotNext, Poll, ClaimNothing, StartThread, ThreadReturns, ThreadFails,
        CompleteFails, rowVars
<1>6. ASSUME NEW p \in Procs, ProcNext(p) PROVE Ledger!Next \/ UNCHANGED LedgerState
  <2>1. CASE SweepExpire(p)
    BY <1>4, <2>1 DEF SweepExpire, Exhausted
  <2>2. CASE SweepPurge(p)
    <3>1. PICK E \in SUBSET (Terminal \ victims) :
             status' = [r \in Runs |-> IF r \in E THEN "deleted" ELSE status[r]]
      BY <2>2 DEF SweepPurge
    <3>2. LedgerState' = [q \in Runs |-> IF q \in E THEN "removed" ELSE LedgerState[q]]
      BY <3>1 DEF LedgerState, Active, Terminal, TypeOK
    <3>3. Ledger!Remove(E)
      BY <3>2, LedgerSets DEF Ledger!Remove
    <3>4. E \in SUBSET Runs
      BY DEF Terminal
    <3>5. QED
      BY <3>3, <3>4 DEF Ledger!Next
  <2>3. QED
    BY <1>2, <1>6, <2>1, <2>2
    DEF ProcNext, Boot, SweepTimer, SweepFails, Stop, Exit, Crash, End, rowVars
<1>7. ASSUME NEW r \in Runs, Submit(r) \/ Count(r) \/ Evict(r) \/ Rollback(r)
      PROVE  UNCHANGED status
  BY <1>7 DEF Submit, Count, Evict, Rollback, rowVars
<1>8. CASE Tick \/ UNCHANGED vars
  BY <1>2, <1>8 DEF Tick, vars, rowVars
<1>9. QED
  BY <1>2, <1>3, <1>5, <1>6, <1>7, <1>8, NextCases DEF Outside

\* Every behaviour of the queue is, seen by its clients, one of the ledger.
THEOREM Refinement == Spec => RefinesLedger
<1>1. Init => Ledger!Init
  BY DEF Init, Ledger!Init, LedgerState, Active
<1>2. IndInv /\ IndInv' /\ [Next]_vars => [Ledger!Next]_LedgerState
  BY LedgerStep
<1>3. QED
  BY Inductive, <1>1, <1>2, PTL DEF Spec, RefinesLedger, Ledger!Spec
=============================================================================
