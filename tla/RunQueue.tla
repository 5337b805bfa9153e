------------------------------ MODULE RunQueue ------------------------------
(***************************************************************************)
(* The canonical run queue: the simulation_runs table of PostgreSQL, the   *)
(* API transactions that insert into it (PostgresStore.queueRun) and the   *)
(* worker processes that drain it (apps/worker/src).                       *)
(*                                                                         *)
(* Every SQL statement is one action, because every statement is followed  *)
(* by an await in its caller and PostgreSQL runs it on a snapshot of its   *)
(* own (READ COMMITTED).  A transaction of queueRun is therefore three     *)
(* actions: the count, the eviction, and the insert with the COMMIT.       *)
(*                                                                         *)
(* Time is a number of ticks.  A lease and a deadline are the ticks that   *)
(* are left; Tick is the only action that changes them.                    *)
(***************************************************************************)
EXTENDS Integers, FiniteSets

CONSTANTS
    Runs,         \* POST /api/runs requests, each with the id of its row
    Procs,        \* worker processes
    Slots,        \* concurrency slots (runLoop instances) of all processes
    HostOf,       \* the process a slot runs in
    MaxQueued,    \* config.maxQueuedRuns
    MaxStored,    \* config.maxStoredRuns
    MaxAttempts,  \* the 3 of "attempts < 3"
    Timeout,      \* WORKER_JOB_TIMEOUT_MS, in ticks
    Grace,        \* the 15 seconds a lease outlives the timeout, in ticks
    Delay,        \* the longest a worker takes from one step to the next
    NoRun         \* a slot without a job

ASSUME RunsAssumption == IsFiniteSet(Runs) /\ NoRun \notin Runs

ASSUME HostAssumption == HostOf \in [Slots -> Procs]

ASSUME LimitAssumption ==
    /\ MaxQueued \in Nat \ {0}
    /\ MaxStored \in Nat \ {0}
    /\ MaxAttempts \in Nat \ {0}

ASSUME TimeAssumption == Timeout \in Nat /\ Grace \in Nat /\ Delay \in Nat

VARIABLES
    request,   \* where the API is with the request for a run
    needed,    \* requiredEvictions of the transaction that holds the lock
    victims,   \* the rows that transaction has deleted and not committed
    status,    \* the row: its status, or whether it exists at all
    attempts,  \* the row's attempts
    lease,     \* the row's lease_expires_at, as ticks left
    code,      \* the row's failure_code
    created,   \* <<a, b>>: row a has an earlier created_at than row b
    finished,  \* <<a, b>>: row a has an earlier completed_at than row b
    proc,      \* the state of a worker process
    sweep,     \* which statement of maintain() a process runs next
    pc,        \* where a slot's runLoop is
    job,       \* the run a slot works on
    due        \* ticks a slot may still spend where it is

apiVars   == <<request, needed, victims>>
rowVars   == <<status, attempts, lease, code, created, finished>>
slotVars  == <<pc, job, due>>
procVars  == <<proc, sweep>>
vars      == <<apiVars, rowVars, slotVars, procVars>>

-----------------------------------------------------------------------------
(* Rows *)

LeaseTicks == Timeout + Grace     \* leaseSeconds
Expired    == -1                  \* lease_expires_at < now()
NoLease    == -2                  \* lease_expires_at IS NULL

Active   == {r \in Runs : status[r] \in {"queued", "running"}}
Terminal == {r \in Runs : status[r] \in {"completed", "failed"}}
Stored   == Active \cup Terminal

\* The order of the eviction: completed_at, then created_at among equals.
Older(a, b) ==
    \/ <<a, b>> \in finished
    \/ <<b, a>> \notin finished /\ <<a, b>> \in created

\* Mutant: the claim forgets to look at the lease.
ClaimableWhileLeased ==
    {r \in Runs : status[r] \in {"queued", "running"} /\ attempts[r] < MaxAttempts}

\* The rows the claim's WHERE clause selects.
Claimable ==
    {r \in Runs : /\ \/ status[r] = "queued"
                     \/ status[r] = "running" /\ lease[r] = Expired
                  /\ attempts[r] < MaxAttempts}

\* The rows other statements may have locked while slot s claims, which SKIP
\* LOCKED passes over: one for each other claim in flight, and the rows other
\* slots are writing the outcome of.
LockedElsewhere(s) ==
    LET claimers == {t \in Slots \ {s} : pc[t] = "claiming"}
        written  == {job[t] : t \in {u \in Slots \ {s} : pc[u] \in {"saving", "failing"}}}
    IN  {L \in SUBSET Claimable : Cardinality(L \ written) <= Cardinality(claimers)}

-----------------------------------------------------------------------------
(* POST /api/runs: PostgresStore.queueRun *)

\* Mutant: the advisory lock is not taken.
NoLockHolders == {}

\* The transaction that holds the advisory lock.
LockHolders == {r \in Runs : request[r] \in {"counted", "evicted"}}

\* BEGIN fixes now(), and with it the created_at the row will have; then the
\* transaction waits for the advisory lock.
Submit(r) ==
    /\ request[r] = "unsent"
    /\ request' = [request EXCEPT ![r] = "waiting"]
    /\ created' = created \cup {<<q, r>> : q \in {x \in Runs : request[x] # "unsent"}}
    /\ UNCHANGED <<needed, victims, status, attempts, lease, code, finished,
                   slotVars, procVars>>

\* Mutant: room for the stored rows, but not for the new one.
ExcessBeforeInsert == Cardinality(Stored) - MaxStored

\* How many rows must go so that one more fits.
Excess == Cardinality(Stored) - MaxStored + 1

\* The lock is granted and the counts are read.
Count(r) ==
    /\ request[r] = "waiting"
    /\ LockHolders = {}
    /\ IF Cardinality(Active) >= MaxQueued
       THEN /\ request' = [request EXCEPT ![r] = "refused"]
            /\ UNCHANGED needed
       ELSE /\ request' = [request EXCEPT ![r] = "counted"]
            /\ needed' = IF Excess > 0 THEN Excess ELSE 0
    /\ UNCHANGED <<victims, rowVars, slotVars, procVars>>

\* The rows a DELETE ... ORDER BY ... LIMIT n would take now.
OldestTerminal(E, n) ==
    /\ E \subseteq Terminal
    /\ Cardinality(E) <= n
    /\ Cardinality(E) < n => E = Terminal
    /\ \A e \in E, t \in Terminal \ E : ~Older(t, e)

\* The eviction; too few rows deleted roll the transaction back.
Evict(r) ==
    /\ request[r] = "counted"
    /\ \E E \in SUBSET Terminal :
          /\ OldestTerminal(E, needed)
          /\ IF Cardinality(E) < needed
             THEN /\ request' = [request EXCEPT ![r] = "refused"]
                  /\ needed' = 0
                  /\ UNCHANGED victims
             ELSE /\ request' = [request EXCEPT ![r] = "evicted"]
                  /\ victims' = E
                  /\ UNCHANGED needed
    /\ UNCHANGED <<rowVars, slotVars, procVars>>

\* INSERT and COMMIT.  The answer says what the API reports to its client: a
\* connection lost during COMMIT leaves the row behind an error.
Commit(r, answer) ==
    /\ request[r] = "evicted"
    /\ request' = [request EXCEPT ![r] = answer]
    /\ status' = [q \in Runs |-> IF q \in victims THEN "deleted"
                                 ELSE IF q = r THEN "queued" ELSE status[q]]
    /\ victims' = {}
    /\ needed' = 0
    /\ UNCHANGED <<attempts, lease, code, created, finished, slotVars, procVars>>

\* Any statement of the transaction fails, or the API process dies: the
\* database rolls back and releases the lock.
Rollback(r) ==
    /\ request[r] \in {"waiting", "counted", "evicted"}
    /\ request' = [request EXCEPT ![r] = "error"]
    /\ IF r \in LockHolders
       THEN needed' = 0 /\ victims' = {}
       ELSE UNCHANGED <<needed, victims>>
    /\ UNCHANGED <<rowVars, slotVars, procVars>>

ApiNext ==
    \E r \in Runs :
       \/ Submit(r)
       \/ Count(r)
       \/ Evict(r)
       \/ Commit(r, "accepted")
       \/ Commit(r, "error")
       \/ Rollback(r)

-----------------------------------------------------------------------------
(* A slot: runLoop and runInThread of the worker *)

Working(s) == pc[s] \in {"claimed", "executing", "saving", "failing"}

\* The slot goes to where, with ticks left to leave it again.
MoveSlot(s, where, ticks) ==
    /\ pc'  = [pc EXCEPT ![s] = where]
    /\ due' = [due EXCEPT ![s] = ticks]

Release(s) ==
    /\ MoveSlot(s, "idle", 0)
    /\ job' = [job EXCEPT ![s] = NoRun]

\* while (!stopping): the claim statement is sent.
Poll(s) ==
    /\ pc[s] = "idle"
    /\ proc[HostOf[s]] = "up"
    /\ MoveSlot(s, "claiming", 0)
    /\ UNCHANGED <<job, apiVars, rowVars, procVars>>

\* The claim takes the oldest row that qualifies and is not locked.  heard is
\* FALSE when the statement commits and its answer is lost.
Claim(s, r, heard) ==
    /\ pc[s] = "claiming"
    /\ \E L \in LockedElsewhere(s) :
          /\ r \in Claimable \ L
          /\ \A q \in Claimable \ L : <<q, r>> \notin created
    /\ status'   = [status EXCEPT ![r] = "running"]
    /\ attempts' = [attempts EXCEPT ![r] = @ + 1]
    /\ lease'    = [lease EXCEPT ![r] = LeaseTicks]
    /\ IF heard
       THEN MoveSlot(s, "claimed", Delay) /\ job' = [job EXCEPT ![s] = r]
       ELSE Release(s)
    /\ UNCHANGED <<code, created, finished, apiVars, procVars>>

\* No row is free, or the statement fails: the loop waits and polls again.
ClaimNothing(s) ==
    /\ pc[s] = "claiming"
    /\ Release(s)
    /\ UNCHANGED <<apiVars, rowVars, procVars>>

StartThread(s) ==
    /\ pc[s] = "claimed"
    /\ MoveSlot(s, "executing", Timeout)
    /\ UNCHANGED <<job, apiVars, rowVars, procVars>>

ThreadReturns(s) ==
    /\ pc[s] = "executing"
    /\ MoveSlot(s, "saving", Delay)
    /\ UNCHANGED <<job, apiVars, rowVars, procVars>>

\* The promise of runInThread rejects: the thread reports an error or dies, or
\* the timer fires first.
ThreadFails(s) ==
    /\ pc[s] = "executing"
    /\ MoveSlot(s, "failing", Delay)
    /\ UNCHANGED <<job, apiVars, rowVars, procVars>>

\* An update that gives the rows in R their outcome.
Settle(R, as, why) ==
    /\ status'   = [r \in Runs |-> IF r \in R THEN as ELSE status[r]]
    /\ code'     = [r \in Runs |-> IF r \in R THEN why ELSE code[r]]
    /\ lease'    = [r \in Runs |-> IF r \in R THEN NoLease ELSE lease[r]]
    /\ finished' = finished \cup (Terminal \X R)
    /\ UNCHANGED <<attempts, created>>

\* Mutant: the WHERE clause forgets "AND status = 'running'".
AnyRow(id) == {r \in Runs : r = id}

\* WHERE id = $1 AND status = 'running'
RunningRow(id) == {r \in Runs : r = id /\ status[r] = "running"}

\* store.complete; heard is FALSE when the update commits and its answer is
\* lost, which the loop takes for a failed job.
Complete(s, heard) ==
    /\ pc[s] = "saving"
    /\ Settle(RunningRow(job[s]), "completed", "none")
    /\ IF heard THEN Release(s)
                ELSE MoveSlot(s, "failing", Delay) /\ UNCHANGED job
    /\ UNCHANGED <<apiVars, procVars>>

CompleteFails(s) ==
    /\ pc[s] = "saving"
    /\ MoveSlot(s, "failing", Delay)
    /\ UNCHANGED <<job, apiVars, rowVars, procVars>>

\* store.fail with the code of the caught error
Fail(s) ==
    /\ pc[s] = "failing"
    /\ Settle(RunningRow(job[s]), "failed", "job_error")
    /\ Release(s)
    /\ UNCHANGED <<apiVars, procVars>>

SlotNext(s) ==
    \/ Poll(s)
    \/ \E r \in Runs, heard \in BOOLEAN : Claim(s, r, heard)
    \/ ClaimNothing(s)
    \/ StartThread(s)
    \/ ThreadReturns(s)
    \/ ThreadFails(s)
    \/ \E heard \in BOOLEAN : Complete(s, heard)
    \/ CompleteFails(s)
    \/ Fail(s)

-----------------------------------------------------------------------------
(* A worker process: start-up, maintain(), shutdown and crash *)

SlotsOf(p) == {s \in Slots : HostOf[s] = p}

\* The first maintain() runs before the loops start.
Boot(p) ==
    /\ proc[p] = "down"
    /\ proc'  = [proc EXCEPT ![p] = "booting"]
    /\ sweep' = [sweep EXCEPT ![p] = "expire"]
    /\ UNCHANGED <<apiVars, rowVars, slotVars>>

SweepTimer(p) ==
    /\ proc[p] = "up"
    /\ sweep[p] = "none"
    /\ sweep' = [sweep EXCEPT ![p] = "expire"]
    /\ UNCHANGED <<proc, apiVars, rowVars, slotVars>>

\* Mutant: one attempt more than the claim allows.
ExhaustedTooLate ==
    {r \in Runs : /\ status[r] = "running"
                  /\ attempts[r] > MaxAttempts
                  /\ lease[r] = Expired}

\* Mutant: the last attempt is failed while its lease runs.
ExhaustedTooEarly ==
    {r \in Runs : status[r] = "running" /\ attempts[r] >= MaxAttempts}

\* Runs whose last attempt is over without an outcome.
Exhausted ==
    {r \in Runs : /\ status[r] = "running"
                  /\ attempts[r] >= MaxAttempts
                  /\ lease[r] = Expired}

\* maintain(), first statement: runs that used up their attempts fail.
SweepExpire(p) ==
    /\ sweep[p] = "expire"
    /\ sweep' = [sweep EXCEPT ![p] = "purge"]
    /\ Settle(Exhausted, "failed", "lease_exhausted")
    /\ UNCHANGED <<proc, apiVars, slotVars>>

\* maintain(), second statement: the rows that completed before some moment,
\* the retention limit, are deleted.  It blocks while a transaction holds one.
SweepPurge(p) ==
    /\ sweep[p] = "purge"
    /\ sweep' = [sweep EXCEPT ![p] = "none"]
    /\ proc'  = [proc EXCEPT ![p] = IF @ = "booting" THEN "up" ELSE @]
    /\ \E E \in SUBSET (Terminal \ victims) :
          /\ \A e \in E, t \in Terminal : <<t, e>> \in finished => t \in E
          /\ status' = [r \in Runs |-> IF r \in E THEN "deleted" ELSE status[r]]
    /\ UNCHANGED <<attempts, lease, code, created, finished, apiVars, slotVars>>

\* A statement of maintain() fails: an error in the log, or at start-up the end
\* of the process.
SweepFails(p) ==
    /\ sweep[p] # "none"
    /\ sweep' = [sweep EXCEPT ![p] = "none"]
    /\ proc'  = [proc EXCEPT ![p] = IF @ = "booting" THEN "down" ELSE @]
    /\ UNCHANGED <<apiVars, rowVars, slotVars>>

\* SIGTERM
Stop(p) ==
    /\ proc[p] = "up"
    /\ proc' = [proc EXCEPT ![p] = "stopping"]
    /\ UNCHANGED <<sweep, apiVars, rowVars, slotVars>>

\* The process ends and its jobs with it.
End(p) ==
    /\ proc'  = [proc EXCEPT ![p] = "down"]
    /\ sweep' = [sweep EXCEPT ![p] = "none"]
    /\ pc'    = [s \in Slots |-> IF s \in SlotsOf(p) THEN "idle" ELSE pc[s]]
    /\ job'   = [s \in Slots |-> IF s \in SlotsOf(p) THEN NoRun ELSE job[s]]
    /\ due'   = [s \in Slots |-> IF s \in SlotsOf(p) THEN 0 ELSE due[s]]
    /\ UNCHANGED <<apiVars, rowVars>>

\* shutdown(): every loop has ended.
Exit(p) ==
    /\ proc[p] = "stopping"
    /\ \A s \in SlotsOf(p) : pc[s] = "idle"
    /\ End(p)

\* The machine fails; or shutdown() loses its race against the clock; or
\* store.fail throws, which rejects Promise.all(loops) and takes every slot of
\* the process down.
Crash(p) ==
    /\ proc[p] # "down"
    /\ End(p)

ProcNext(p) ==
    \/ Boot(p)
    \/ SweepTimer(p)
    \/ SweepExpire(p)
    \/ SweepPurge(p)
    \/ SweepFails(p)
    \/ Stop(p)
    \/ Exit(p)
    \/ Crash(p)

\* One tick passes.  It does not pass a slot that has used up its time.
Tick ==
    /\ \A s \in Slots : Working(s) => due[s] > 0
    /\ due'   = [s \in Slots |-> IF Working(s) THEN due[s] - 1 ELSE due[s]]
    /\ lease' = [r \in Runs |-> IF lease[r] > Expired THEN lease[r] - 1 ELSE lease[r]]
    /\ UNCHANGED <<status, attempts, code, created, finished,
                   pc, job, apiVars, procVars>>

-----------------------------------------------------------------------------
Init ==
    /\ request  = [r \in Runs |-> "unsent"]
    /\ needed   = 0
    /\ victims  = {}
    /\ status   = [r \in Runs |-> "absent"]
    /\ attempts = [r \in Runs |-> 0]
    /\ lease    = [r \in Runs |-> NoLease]
    /\ code     = [r \in Runs |-> "none"]
    /\ created  = {}
    /\ finished = {}
    /\ proc     = [p \in Procs |-> "down"]
    /\ sweep    = [p \in Procs |-> "none"]
    /\ pc       = [s \in Slots |-> "idle"]
    /\ job      = [s \in Slots |-> NoRun]
    /\ due      = [s \in Slots |-> 0]

Next ==
    \/ ApiNext
    \/ \E s \in Slots : SlotNext(s)
    \/ \E p \in Procs : ProcNext(p)
    \/ Tick

Spec == Init /\ [][Next]_vars

\* The next slot step of a job that has been claimed.
Proceed(s) ==
    \/ StartThread(s)
    \/ ThreadReturns(s)
    \/ ThreadFails(s)
    \/ \E heard \in BOOLEAN : Complete(s, heard)
    \/ CompleteFails(s)
    \/ Fail(s)

\* Weak fairness: time passes, a claim is answered, a claimed job moves on (the
\* thread's timer fires if nothing else does), a stopping process exits once its
\* loops have ended, and a dead one is started again (the container's restart
\* policy).  Strong fairness: a slot polls and a process sweeps again and again
\* (while loop, setInterval), and in between crashes and database errors the
\* statements also succeed.
Fairness ==
    /\ WF_vars(Tick)
    /\ \A s \in Slots :
          /\ WF_vars(Proceed(s))
          /\ WF_vars(ClaimNothing(s))
          /\ SF_vars(Poll(s))
          /\ SF_vars(\E r \in Runs : Claim(s, r, TRUE))
    /\ \A p \in Procs :
          /\ WF_vars(Boot(p))
          /\ WF_vars(Exit(p))
          /\ SF_vars(SweepTimer(p))
          /\ SF_vars(SweepExpire(p))
          /\ SF_vars(SweepPurge(p))

FairSpec == Spec /\ Fairness

-----------------------------------------------------------------------------
(* Properties *)

TypeOK ==
    /\ request \in [Runs -> {"unsent", "waiting", "counted", "evicted",
                             "accepted", "refused", "error"}]
    /\ needed \in Nat
    /\ victims \in SUBSET Runs
    /\ status \in [Runs -> {"absent", "queued", "running", "completed",
                            "failed", "deleted"}]
    /\ attempts \in [Runs -> 0 .. MaxAttempts]
    /\ lease \in [Runs -> NoLease .. LeaseTicks]
    /\ code \in [Runs -> {"none", "job_error", "lease_exhausted"}]
    /\ created \in SUBSET (Runs \X Runs)
    /\ finished \in SUBSET (Runs \X Runs)
    /\ proc \in [Procs -> {"down", "booting", "up", "stopping"}]
    /\ sweep \in [Procs -> {"none", "expire", "purge"}]
    /\ pc \in [Slots -> {"idle", "claiming", "claimed", "executing",
                         "saving", "failing"}]
    /\ job \in [Slots -> Runs \cup {NoRun}]
    /\ due \in [Slots -> Nat]

\* The transactional limits: although the count, the eviction and the insert of
\* queueRun are three statements between which workers claim, settle and purge
\* rows, there are never more than maximumQueued open rows nor more than
\* maximumStored rows.
WithinLimits ==
    /\ Cardinality(Active) <= MaxQueued
    /\ Cardinality(Stored) <= MaxStored

\* A settled run keeps its outcome until it is deleted, and a deleted run never
\* comes back, however late a worker that lost its lease reports.
OutcomeIsFinal ==
    [][\A r \in Runs :
          /\ r \in Terminal =>
                \/ status'[r] = "deleted"
                \/ status'[r] = status[r] /\ code'[r] = code[r]
          /\ status[r] = "deleted" => status'[r] = "deleted"]_vars

\* The lease outlives three delays: after the claim, after the thread and after
\* a failed save.
Prompt == 3 * Delay <= Grace

\* The grace period does its job: as long as workers are prompt, no run is ever
\* in the hands of two slots, whatever crashes or is reclaimed.
OneWorkerPerRun ==
    Prompt => \A s, t \in Slots :
                 s # t /\ Working(s) /\ Working(t) => job[s] # job[t]

\* As long as workers are prompt, a job that is computed or about to be saved is
\* still open: its result is never dropped by the "status = 'running'" of the
\* update because someone else settled the row.
WorkIsNotLost ==
    Prompt => \A s \in Slots :
                 pc[s] \in {"claimed", "executing", "saving"} =>
                    status[job[s]] = "running"

\* The parts of the inductive invariant behind the properties above.

\* queueRun's advisory lock: one transaction at a time, which deletes only
\* settled rows; and a row exists only by COMMIT.
LockInv ==
    /\ \A q, r \in LockHolders : q = r
    /\ LockHolders = {} => needed = 0
    /\ victims # {} => \E r \in Runs : request[r] = "evicted"
    /\ victims \subseteq Terminal
    /\ \A r \in Runs : request[r] \notin {"accepted", "error"} => status[r] = "absent"

\* What the transaction knows stays true until it commits: rows are only added
\* under the lock, and settled rows are never reopened.
BudgetInv ==
    \A r \in LockHolders :
       /\ Cardinality(Active) < MaxQueued
       /\ Cardinality(Stored) < MaxStored + needed
       /\ request[r] = "evicted" => Cardinality(victims) = needed

LeaseInv == \A r \in Runs : status[r] = "running" <=> lease[r] # NoLease

JobInv == \A s \in Slots : Working(s) <=> job[s] # NoRun

\* The ticks a slot may still need after the step it is in.
Remaining(s) ==
    CASE pc[s] = "claimed"   -> Timeout + 2 * Delay
      [] pc[s] = "executing" -> 2 * Delay
      [] pc[s] = "saving"    -> Delay
      [] OTHER               -> 0

\* The lease of the job in hand covers everything its holder may still do.  Only
\* a save whose answer was lost leaves a settled run in a slot.
Covered(s) ==
    \/ /\ status[job[s]] = "running"
       /\ due[s] + Remaining(s) <= lease[job[s]]
    \/ /\ pc[s] = "failing"
       /\ status[job[s]] \in {"completed", "failed", "deleted"}

CoverInv == Prompt => \A s \in Slots : Working(s) => Covered(s)

\* Inductive: the types, the lock, the budget and the lease cover.
IndInv ==
    /\ TypeOK
    /\ LockInv
    /\ BudgetInv
    /\ LeaseInv
    /\ JobInv
    /\ CoverInv
    /\ WithinLimits
    /\ OneWorkerPerRun

\* Every accepted run settles: crashes and lost answers cost attempts, used-up
\* attempts end in lease_exhausted, and no row is forgotten in between.
RunsSettle ==
    \A r \in Runs :
       status[r] = "queued" ~> status[r] \in {"completed", "failed", "deleted"}

\* What a client of the queue can tell apart.
LedgerState == [r \in Runs |-> IF r \in Active THEN "open"
                               ELSE IF status[r] = "deleted" THEN "removed"
                               ELSE status[r]]

Ledger == INSTANCE RunLedger WITH ledger <- LedgerState

\* The queue implements the ledger: leases, retries, evictions and crashes are
\* invisible to a client that sees only absent, open, settled and removed runs.
RefinesLedger == Ledger!Spec
=============================================================================
