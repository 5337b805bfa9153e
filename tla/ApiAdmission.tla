---------------------------- MODULE ApiAdmission ----------------------------
(***************************************************************************)
(* How the API's replicas admit work: the gate on concurrent requests, the *)
(* solver slots, the one AI slot with the usage budget behind it, and the  *)
(* capacity of shared links.  Everything a replica counts lives in its     *)
(* process; the budget and the links live in PostgreSQL and are written by *)
(* all replicas.                                                           *)
(*                                                                         *)
(* A request is the place its handler has reached.  What runs between two  *)
(* awaits is one action, and so is one SQL statement.  Fastify is external:*)
(* it is assumed to call onResponse once a reply has been sent or has come *)
(* to nothing, and onError before the reply to an exception.               *)
(***************************************************************************)
EXTENDS Integers, FiniteSets

CONSTANTS
  Requests, Replicas,
  MaxConcurrentRequests,   \* config.maxConcurrentRequests of each replica
  MaxConcurrentSolves,     \* config.maxConcurrentSolves, the same everywhere
  MaxDaily, MaxMonthly,    \* calls of the AI provider
  Cost, MaxMonthlyCost,    \* reservedCostCents of a call, and their ceiling
  DaysPerMonth,
  MaxShared, LinkDays,     \* live links, and how long a link lives
  MaxDay                   \* bound on the days that pass

ASSUME LimitsAssumption ==
  /\ IsFiniteSet(Requests)
  /\ MaxConcurrentRequests \in [Replicas -> Nat \ {0}]
  /\ {MaxConcurrentSolves, MaxDaily, MaxMonthly, MaxShared,
      Cost, DaysPerMonth, LinkDays} \subseteq Nat \ {0}
  /\ {MaxMonthlyCost, MaxDay} \subseteq Nat

Kinds == {"solve", "ai", "share"}

\* Where a handler is: in the transaction of reserveAiUsage or shareScenario
\* (waiting for its advisory lock, counting, writing), in the solver, in the
\* AI operation before and at the provider, or done.
Phases == {"routed", "solving", "preparing", "calling",
           "waiting", "counting", "writing", "failed", "replying"}

VARIABLES
  req,        \* what each client's request is doing
  admitted,   \* admittedRequests, the WeakSet of a replica
  busy,       \* concurrentRequests of a replica
  solving,    \* concurrentSolves of a replica
  asking,     \* concurrentAiRequests of a replica
  day,        \* the day of PostgreSQL's clock
  ledger,     \* the rows of ai_usage_reservations
  links       \* the rows of shared_scenarios; their day is that of their expiry

slots == <<admitted, busy, solving, asking>>
data  == <<ledger, links>>
vars  == <<req, slots, day, data>>

Days       == 0..MaxDay
ExpiryDays == 0..(MaxDay + LinkDays)
At(q)      == req[q].at
Month(d)   == d \div DaysPerMonth

On(r) == {q \in Requests : At(q) # "idle" /\ req[q].on = r}

Idle == [at |-> "idle"]
NewRequest(phase, r, k) ==
  [at |-> phase, on |-> r, kind |-> k, day |-> 0, gone |-> FALSE, thread |-> FALSE]

MoveTo(q, phase) == req' = [req EXCEPT ![q].at = phase]
\* The handler leaves a transaction or a slot: only its answer is left.
Leave(q, phase)  == req' = [req EXCEPT ![q] = NewRequest(phase, req[q].on, req[q].kind)]

-----------------------------------------------------------------------------
(* The gate.                                                               *)

Arrive(q, r, k) ==
  /\ At(q) = "idle"
  /\ busy[r] < MaxConcurrentRequests[r]
  /\ busy' = [busy EXCEPT ![r] = @ + 1]
  /\ admitted' = [admitted EXCEPT ![r] = @ \union {q}]
  /\ req' = [req EXCEPT ![q] = NewRequest("routed", r, k)]
  /\ UNCHANGED <<solving, asking, day, data>>

\* 503 request_capacity_exceeded: a reply to a request that is not admitted.
TurnAway(q, r, k) ==
  /\ At(q) = "idle"
  /\ busy[r] >= MaxConcurrentRequests[r]
  /\ req' = [req EXCEPT ![q] = NewRequest("replying", r, k)]
  /\ UNCHANGED <<slots, day, data>>

Minus(n) == IF n > 0 THEN n - 1 ELSE 0

ReleaseRequestTwice(q, r) ==
  /\ admitted' = [admitted EXCEPT ![r] = @ \ {q}]
  /\ busy' = [busy EXCEPT ![r] = Minus(@)]

\* onResponse and onError both run this; membership makes it count once.
ReleaseRequest(q, r) ==
  IF q \in admitted[r]
  THEN /\ admitted' = [admitted EXCEPT ![r] = @ \ {q}]
       /\ busy' = [busy EXCEPT ![r] = Minus(@)]
  ELSE UNCHANGED <<admitted, busy>>

OnError(q) ==
  /\ At(q) = "failed"
  /\ ReleaseRequest(q, req[q].on)
  /\ MoveTo(q, "replying")
  /\ UNCHANGED <<solving, asking, day, data>>

OnResponse(q) ==
  /\ At(q) = "replying"
  /\ ReleaseRequest(q, req[q].on)
  /\ req' = [req EXCEPT ![q] = Idle]
  /\ UNCHANGED <<solving, asking, day, data>>

\* The client hangs up: the abort controller of an AI request fires.  Every
\* other handler goes on as if nothing had happened.
Disconnect(q) ==
  /\ At(q) \notin {"idle", "failed", "replying"}
  /\ req[q].kind = "ai"
  /\ ~req[q].gone
  /\ req' = [req EXCEPT ![q].gone = TRUE]
  /\ UNCHANGED <<slots, day, data>>

\* The handler answers at once (a validation failure, or a route that only
\* reads) or throws (an unparsable body, a failing query).
AnswerAtOnce(q) ==
  /\ At(q) = "routed"
  /\ \E phase \in {"replying", "failed"} : MoveTo(q, phase)
  /\ UNCHANGED <<slots, day, data>>

-----------------------------------------------------------------------------
(* POST /api/solve: a slot and a worker thread.                            *)

Solve(q) ==
  LET r == req[q].on IN
  /\ At(q) = "routed"
  /\ req[q].kind = "solve"
  /\ IF solving[r] >= MaxConcurrentSolves
     THEN MoveTo(q, "replying") /\ UNCHANGED solving
     ELSE /\ req' = [req EXCEPT ![q].at = "solving", ![q].thread = TRUE]
          /\ solving' = [solving EXCEPT ![r] = @ + 1]
  /\ UNCHANGED <<admitted, busy, asking, day, data>>

HasThread(q) == At(q) = "solving" /\ req[q].thread

\* The finally block, reached once because finish() checks settled.
EndSolve(q, phase) ==
  /\ At(q) = "solving"
  /\ Leave(q, phase)
  /\ solving' = [solving EXCEPT ![req[q].on] = Minus(@)]
  /\ UNCHANGED <<admitted, busy, asking, day, data>>

\* The thread posts a result (200, or 422 when it is too large) or an error.
SolverPosts(q) ==
  HasThread(q) /\ \E phase \in {"replying", "failed"} : EndSolve(q, phase)

\* The thread dies: an error or a code other than 0 rejects the promise, an
\* exit with code 0 rejects nothing.
SolverCrashes(q) == HasThread(q) /\ EndSolve(q, "failed")
SolverExitsQuietly(q) ==
  /\ HasThread(q)
  /\ req' = [req EXCEPT ![q].thread = FALSE]
  /\ UNCHANGED <<slots, day, data>>

SolverTimesOutAlive(q) == HasThread(q) /\ EndSolve(q, "failed")
SolverTimesOut(q) == EndSolve(q, "failed")

-----------------------------------------------------------------------------
(* The AI routes: one slot per replica, a reservation for every call.      *)

EndAi(q, phase) ==
  /\ Leave(q, phase)
  /\ asking' = [asking EXCEPT ![req[q].on] = Minus(@)]

ExecuteAiRequest(q) ==
  LET r == req[q].on IN
  /\ At(q) = "routed"
  /\ req[q].kind = "ai"
  /\ IF asking[r] >= 1
     THEN MoveTo(q, "replying") /\ UNCHANGED asking
     ELSE /\ MoveTo(q, "preparing")
          /\ asking' = [asking EXCEPT ![r] = @ + 1]
  /\ UNCHANGED <<admitted, busy, solving, day, data>>

\* The operation reads the run, its submission and the shared scenario; any
\* of them may be missing, private or of another design.
PreparationFails(q) ==
  /\ At(q) = "preparing"
  /\ EndAi(q, "failed")
  /\ UNCHANGED <<admitted, busy, solving, day, data>>

\* fetch with a timeout and the caller's signal: whichever ends it, the slot
\* is given back by the finally block.
ProviderAnswers(q) ==
  /\ At(q) = "calling"
  /\ EndAi(q, "replying")
  /\ UNCHANGED <<admitted, busy, solving, day, data>>

ProviderFails(q) ==
  /\ At(q) = "calling"
  /\ EndAi(q, "failed")
  /\ UNCHANGED <<admitted, busy, solving, day, data>>

-----------------------------------------------------------------------------
(* The two transactions.  now() is the time of BEGIN.                      *)

Begins(q) ==
  \/ At(q) = "preparing"
  \/ At(q) = "routed" /\ req[q].kind = "share"

Begin(q) ==
  /\ Begins(q)
  /\ req' = [req EXCEPT ![q].at = "waiting", ![q].day = day]
  /\ UNCHANGED <<slots, day, data>>

HoldersNone(q) == {}

\* Who holds the advisory lock q waits for.
Holders(q) == {p \in Requests \ {q} : /\ At(p) \in {"counting", "writing"}
                                      /\ req[p].kind = req[q].kind}

Lock(q) ==
  /\ At(q) = "waiting"
  /\ Holders(q) = {}
  /\ MoveTo(q, "counting")
  /\ UNCHANGED <<slots, day, data>>

\* Rows counted by a transaction that began on day d.
RequestsSince(d) == Cardinality({row \in ledger : row.day >= d})
FirstOfMonth(d)  == Month(d) * DaysPerMonth
Live(d)          == {row \in links : row.day > d}
LiveLinks(d)     == Cardinality(Live(d))

Affordable(d) ==
  /\ RequestsSince(d) < MaxDaily
  /\ RequestsSince(FirstOfMonth(d)) < MaxMonthly
  /\ RequestsSince(FirstOfMonth(d)) * Cost + Cost <= MaxMonthlyCost

Admissible(q) == IF req[q].kind = "ai" THEN Affordable(req[q].day)
                                       ELSE LiveLinks(req[q].day) < MaxShared

\* The statement that counts.  A refusal rolls back: 429 for the budget, an
\* exception for the links.
Count(q) ==
  /\ At(q) = "counting"
  /\ IF Admissible(q) THEN MoveTo(q, "writing") /\ UNCHANGED asking
     ELSE IF req[q].kind = "ai" THEN EndAi(q, "replying")
     ELSE Leave(q, "failed") /\ UNCHANGED asking
  /\ UNCHANGED <<admitted, busy, solving, day, data>>

\* A statement fails, or the connection breaks: ROLLBACK.
TransactionFails(q) ==
  /\ At(q) \in {"waiting", "counting", "writing"}
  /\ IF req[q].kind = "ai" THEN EndAi(q, "failed") ELSE Leave(q, "failed") /\ UNCHANGED asking
  /\ UNCHANGED <<admitted, busy, solving, day, data>>

\* What COMMIT makes visible: the INSERT, and the DELETE of the links that had
\* expired at BEGIN (reservations are deleted long after they count).
\* The rows of a day are numbered; the code draws a random identifier.
OfDay(rows, d)  == {row \in rows : row.day = d}
NewRow(rows, d) == [day |-> d, number |-> Cardinality(OfDay(rows, d)) + 1]

Reserved(d) == ledger \union {NewRow(ledger, d)}
Shared(d)   == Live(d) \union {NewRow(Live(d), d + LinkDays)}

\* The call follows the reservation, unless the client has gone by then.
CommitReservation(q) ==
  /\ At(q) = "writing"
  /\ req[q].kind = "ai"
  /\ ledger' = Reserved(req[q].day)
  /\ IF req[q].gone
     THEN EndAi(q, "failed")
     ELSE Leave(q, "calling") /\ UNCHANGED asking
  /\ UNCHANGED <<admitted, busy, solving, day, links>>

CommitLink(q) ==
  /\ At(q) = "writing"
  /\ req[q].kind = "share"
  /\ links' = Shared(req[q].day)
  /\ Leave(q, "replying")
  /\ UNCHANGED <<slots, day, ledger>>

\* COMMIT happens and its answer is lost: the row is there, the handler fails.
CommitUnheard(q) ==
  /\ At(q) = "writing"
  /\ IF req[q].kind = "ai"
     THEN ledger' = Reserved(req[q].day) /\ EndAi(q, "failed") /\ UNCHANGED links
     ELSE links' = Shared(req[q].day) /\ Leave(q, "failed") /\ UNCHANGED <<ledger, asking>>
  /\ UNCHANGED <<admitted, busy, solving, day>>

-----------------------------------------------------------------------------
(* A replica dies or is shut down, with its requests, threads, counters and*)
(* transactions, and is started again.                                     *)
Restart(r) ==
  /\ On(r) # {}
  /\ req' = [q \in Requests |-> IF q \in On(r) THEN Idle ELSE req[q]]
  /\ admitted' = [admitted EXCEPT ![r] = {}]
  /\ busy' = [busy EXCEPT ![r] = 0]
  /\ solving' = [solving EXCEPT ![r] = 0]
  /\ asking' = [asking EXCEPT ![r] = 0]
  /\ UNCHANGED <<day, data>>

Midnight ==
  /\ day < MaxDay
  /\ day' = day + 1
  /\ UNCHANGED <<req, slots, data>>

-----------------------------------------------------------------------------
Init ==
  /\ req = [q \in Requests |-> Idle]
  /\ admitted = [r \in Replicas |-> {}]
  /\ busy = [r \in Replicas |-> 0]
  /\ solving = [r \in Replicas |-> 0]
  /\ asking = [r \in Replicas |-> 0]
  /\ day = 0
  /\ ledger = {}
  /\ links = {}

\* What the handler of q does by itself once it runs.
Proceeds(q) ==
  \/ OnError(q) \/ OnResponse(q) \/ AnswerAtOnce(q)
  \/ Solve(q) \/ SolverPosts(q) \/ SolverCrashes(q) \/ SolverTimesOut(q)
  \/ ExecuteAiRequest(q) \/ PreparationFails(q) \/ ProviderAnswers(q) \/ ProviderFails(q)
  \/ Begin(q) \/ Lock(q) \/ Count(q) \/ TransactionFails(q)
  \/ CommitReservation(q) \/ CommitLink(q) \/ CommitUnheard(q)

Next ==
  \/ \E q \in Requests : \/ Proceeds(q) \/ Disconnect(q) \/ SolverExitsQuietly(q)
                         \/ \E r \in Replicas, k \in Kinds : Arrive(q, r, k) \/ TurnAway(q, r, k)
  \/ \E r \in Replicas : Restart(r)
  \/ Midnight

Spec == Init /\ [][Next]_vars

\* Handlers run; statements are answered or fail; the solver's timer and the
\* provider's fire.  The advisory lock is granted in turn.
FairSpec == Spec /\ \A q \in Requests : WF_vars(Proceeds(q)) /\ SF_vars(Lock(q))

-----------------------------------------------------------------------------
TypeOK ==
  /\ req \in [Requests -> {Idle} \union [at : Phases, on : Replicas, kind : Kinds, day : Days,
                                         gone : BOOLEAN, thread : BOOLEAN]]
  /\ admitted \in [Replicas -> SUBSET Requests]
  /\ busy \in [Replicas -> Nat]
  /\ solving \in [Replicas -> Nat]
  /\ asking \in [Replicas -> Nat]
  /\ day \in Days
  /\ ledger \subseteq [day : Days, number : Nat]
  /\ links \subseteq [day : ExpiryDays, number : Nat]

\* Who holds a solver slot of replica r, and its AI slot.
SolvingOn(r)   == {q \in On(r) : At(q) = "solving"}
AskingOn(r)    == {q \in On(r) : \/ At(q) \in {"preparing", "calling"}
                                 \/ /\ At(q) \in {"waiting", "counting", "writing"}
                                    /\ req[q].kind = "ai"}

\* The three counters are exactly the requests that hold what they count, and
\* within their limits: no path of a handler (reply, exception, timeout, dead
\* thread, disconnect, refused budget) gives a place back twice or never.
CountersMatch ==
  \A r \in Replicas :
    /\ busy[r] = Cardinality(admitted[r])
    /\ busy[r] <= MaxConcurrentRequests[r]
    /\ admitted[r] \subseteq On(r)
    /\ SolvingOn(r) \union AskingOn(r) \subseteq admitted[r]
    /\ solving[r] = Cardinality(SolvingOn(r))
    /\ solving[r] <= MaxConcurrentSolves
    /\ asking[r] = Cardinality(AskingOn(r))
    /\ asking[r] <= 1

\* The reservations of each day and month are within the daily, monthly and
\* cost limits, and the stored links, expired ones included, within theirs,
\* although replicas reserve at once, midnight passes inside a transaction, and
\* answers to COMMIT get lost.
BudgetHolds ==
  \A d \in Days :
    LET used == Cardinality({row \in ledger : Month(row.day) = Month(d)})
    IN /\ Cardinality(OfDay(ledger, d)) <= MaxDaily
       /\ used <= MaxMonthly
       /\ used * Cost <= MaxMonthlyCost
       /\ Cardinality(links) <= MaxShared

\* Every admitted request gives its place back, also when its solver thread
\* exits without a word or its client hangs up in the middle of a call.
AdmittedEnds ==
  \A q \in Requests : (\E r \in Replicas : q \in admitted[r]) ~> (\A r \in Replicas : q \notin admitted[r])
=============================================================================
