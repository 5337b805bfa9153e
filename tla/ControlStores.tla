---------------------------- MODULE ControlStores ----------------------------
(***************************************************************************)
(* The two implementations of ControlStore: the PostgreSQL one that the    *)
(* service runs on (postgresStore.ts) and the one in memory that its tests *)
(* run on (memoryStore.ts).  Every call is made to both, with the ids and  *)
(* tokens that both would draw, and the answers are kept side by side.     *)
(*                                                                         *)
(* What only one of them does is left out: scenarios and reservations that *)
(* expire, and runs that end in another order than they were queued in.    *)
(***************************************************************************)
EXTENDS Integers, Sequences, FiniteSets, SequencesExt, FiniteSetsExt, Filters

CONSTANTS
  MaxQueued, MaxStored, MaxShared, MaxDaily, MaxMonthly, MaxCostCents,
  MaxCalls     \* bound on the calls that change something

ASSUME StoresAssumption == MaxStored \in Nat

VARIABLES
  runsMade, scenariosMade,  \* ids that have been drawn
  clock,                      \* in seconds of a month of two days of two seconds
  memory,                   \* runs, scenarios, scenarioState and aiUsageReservations
  tables,                   \* simulation_runs, shared_scenarios and ai_usage_reservations
  answers,                  \* of both, to the latest call
  calls

storeVars == <<runsMade, scenariosMade, clock, memory, tables, answers, calls>>

Null == "null"          \* no text, no token
Never == -1              \* no time
Missing == [missing |-> TRUE]
NoPatch == [candidateNotes |-> Null, interviewerNotes |-> Null, clockAction |-> Null]
Patches ==
  {[NoPatch EXCEPT !.candidateNotes = "text"], [NoPatch EXCEPT !.interviewerNotes = "text"],
   [NoPatch EXCEPT !.candidateNotes = "", !.clockAction = "start"], [NoPatch EXCEPT !.clockAction = "reset"]}
Scenarios == {[mode |-> "interview", revealPolicy |-> "after-run"],
              [mode |-> "interview", revealPolicy |-> "interviewer-controlled"],
              [mode |-> "custom", revealPolicy |-> Null]}
Tokens == {Null, "host", "another"}

Day(t) == t \div 2
Month(t) == t \div 4
Refused(retryAfter) == [refused |-> TRUE, retryAfter |-> retryAfter]

StoresInit ==
  /\ runsMade = 0 /\ scenariosMade = 0 /\ clock = 0 /\ calls = 0
  /\ memory = [runs |-> <<>>, scenarios |-> <<>>, state |-> <<>>, reservations |-> <<>>]
  /\ tables = [runs |-> {}, scenarios |-> {}, reservations |-> {}]
  /\ answers = <<Missing, Missing>>

-----------------------------------------------------------------------------
(* The store in memory: maps in insertion order, live records.              *)

Active(run) == run.status \in {"queued", "running"}
IndexOf(seq, id) == CHOOSE k \in DOMAIN seq : seq[k].id = id
Has(seq, id) == \E k \in DOMAIN seq : seq[k].id = id

ActiveRuns(runs) == {k \in DOMAIN runs : Active(runs[k])}
Without(runs, gone) == Keep(runs, {k \in DOMAIN runs : runs[k] \notin gone})

\* Mutant: the newest finished run makes room.
EvictNewest(runs, excess) ==
  LET done == Keep(runs, DOMAIN runs \ ActiveRuns(runs))
  IN Without(runs, {Reverse(done)[k] : k \in 1..Min({excess, Len(done)})})

\* Finished runs make room, oldest first, for as long as there is none.
EvictOldest(runs, excess) ==
  LET done == Keep(runs, DOMAIN runs \ ActiveRuns(runs))
  IN Without(runs, {done[k] : k \in 1..Min({excess, Len(done)})})

MemoryQueueRun(run) ==
  LET kept == EvictOldest(memory.runs, Len(memory.runs) - MaxStored + 1)
  IN IF Cardinality(ActiveRuns(memory.runs)) >= MaxQueued
     THEN [store |-> memory, answer |-> Refused(30)]
     ELSE IF Len(kept) >= MaxStored
     THEN [store |-> [memory EXCEPT !.runs = kept], answer |-> Refused(30)]
     ELSE [store |-> [memory EXCEPT !.runs = Append(kept, run)], answer |-> run]

MemoryShare(id, scenario) ==
  IF Len(memory.scenarios) >= MaxShared THEN [store |-> memory, answer |-> Refused(60)]
  ELSE [store |-> [memory EXCEPT
                     !.scenarios = Append(@, [id |-> id, scenario |-> scenario]),
                     !.state = Append(@, [candidateRevealed |-> FALSE, firstRunAt |-> Never,
                                          candidateNotes |-> "", interviewerNotes |-> "",
                                          sessionStartedAt |-> Never, updatedAt |-> clock])],
        answer |-> [id |-> id, scenario |-> scenario]]

\* #isRevealed
IsRevealed(scenario, state) ==
  /\ scenario.mode = "interview"
  /\ CASE scenario.revealPolicy = "after-run" -> state.firstRunAt # Never
       [] scenario.revealPolicy = "interviewer-controlled" -> state.candidateRevealed
       [] OTHER -> FALSE

MemoryView(store, id, token) ==
  IF ~Has(store.scenarios, id) THEN Missing
  ELSE LET k == IndexOf(store.scenarios, id)
           state == store.state[k]
       IN [id |-> id, scenario |-> store.scenarios[k].scenario, isHost |-> token = "host",
           revealed |-> IsRevealed(store.scenarios[k].scenario, state),
           candidateNotes |-> state.candidateNotes, startedAt |-> state.sessionStartedAt,
           updatedAt |-> state.updatedAt,
           interviewerNotes |-> IF token = "host" THEN state.interviewerNotes ELSE Null]

\* A change of the state of one scenario, refused unless "allowed", answered as seen by "token".
MemoryChange(id, allowed, token, Change(_)) ==
  IF ~Has(memory.scenarios, id) \/ ~allowed THEN [store |-> memory, answer |-> Missing]
  ELSE LET k == IndexOf(memory.scenarios, id)
           store == [memory EXCEPT !.state[k] = Change(@)]
       IN [store |-> store, answer |-> MemoryView(store, id, token)]

FirstRun(state) == [state EXCEPT !.firstRunAt = IF @ = Never THEN clock ELSE @]
Private(patch) == patch.interviewerNotes # Null \/ patch.clockAction # Null

MemoryCollaborate(id, token, patch) ==
  LET Given(value, old) == IF value # Null THEN value ELSE old
      Change(state) ==
        [state EXCEPT !.candidateNotes = Given(patch.candidateNotes, @),
                      !.interviewerNotes = Given(patch.interviewerNotes, @),
                      !.sessionStartedAt = CASE patch.clockAction = "start" -> clock
                                             [] patch.clockAction = "reset" -> Never
                                             [] OTHER -> @,
                      !.updatedAt = clock]
  IN MemoryChange(id, ~Private(patch) \/ token = "host", token, Change)

\* A sum of costs, as the number of their cents.
Cents(cost) == Cardinality(UNION {{x} \X (1..cost[x]) : x \in DOMAIN cost})

\* reserveAiUsage: the answer is what has been used, or how long to wait.
BudgetAnswer(daily, monthly, cents, cost) ==
  IF daily >= MaxDaily \/ monthly >= MaxMonthly \/ cents + cost > MaxCostCents
  THEN Refused(IF daily >= MaxDaily THEN 2 * (Day(clock) + 1) - clock ELSE 4 * (Month(clock) + 1) - clock)
  ELSE [daily |-> daily + 1, monthly |-> monthly + 1, cents |-> cents + cost]

MemoryReserve(cost) ==
  LET since(start) == {k \in DOMAIN memory.reservations : memory.reservations[k].at >= start}
      monthly == since(4 * Month(clock))
      answer == BudgetAnswer(Cardinality(since(2 * Day(clock))), Cardinality(monthly),
                             Cents([k \in monthly |-> memory.reservations[k].cost]), cost)
  IN [store |-> IF "refused" \in DOMAIN answer THEN memory
                ELSE [memory EXCEPT !.reservations = Append(@, [at |-> clock, cost |-> cost])],
      answer |-> answer]

-----------------------------------------------------------------------------
(* The store on PostgreSQL: rows, with a NULL where nothing is known; a     *)
(* transaction that throws leaves the tables as they were.                  *)

\* The finished runs that ended first (completed_at, then created_at).
FirstCompleted(rows, count) ==
  LET done == {r \in rows : r.status \in {"completed", "failed"}}
      before(r) == {s \in done : s.completedAt < r.completedAt
                                 \/ (s.completedAt = r.completedAt /\ s.createdAt < r.createdAt)}
  IN {r \in done : Cardinality(before(r)) < count}

TablesQueueRun(run) ==
  LET excess == Max({0, Cardinality(tables.runs) - MaxStored + 1})
      evicted == FirstCompleted(tables.runs, excess)
  IN IF Cardinality({r \in tables.runs : r.status \in {"queued", "running"}}) >= MaxQueued
     THEN [store |-> tables, answer |-> Refused(30)]
     ELSE IF Cardinality(evicted) < excess
     THEN [store |-> tables, answer |-> Refused(30)]
     ELSE [store |-> [tables EXCEPT !.runs = (@ \ evicted) \cup
                        {[id |-> run.id, status |-> "queued", createdAt |-> run.id, completedAt |-> Never]}],
           answer |-> run]

TablesShare(id, scenario) ==
  IF Cardinality(tables.scenarios) >= MaxShared THEN [store |-> tables, answer |-> Refused(60)]
  ELSE [store |-> [tables EXCEPT !.scenarios = @ \cup
                     {[id |-> id, scenario |-> scenario, hostTokenHash |-> <<"sha256", "host">>,
                       candidateRevealed |-> FALSE, firstRunAt |-> Never, candidateNotes |-> "",
                       interviewerNotes |-> "", sessionStartedAt |-> Never, updatedAt |-> clock]}],
        answer |-> [id |-> id, scenario |-> scenario]]

\* #mapScenario
MapScenario(row, token) ==
  LET isHost == token # Null /\ <<"sha256", token>> = row.hostTokenHash
  IN [id |-> row.id, scenario |-> row.scenario, isHost |-> isHost,
      revealed |-> /\ row.scenario.mode = "interview"
                   /\ \/ row.scenario.revealPolicy = "after-run" /\ row.firstRunAt # Never
                      \/ row.scenario.revealPolicy = "interviewer-controlled" /\ row.candidateRevealed,
      candidateNotes |-> row.candidateNotes, startedAt |-> row.sessionStartedAt,
      updatedAt |-> row.updatedAt,
      interviewerNotes |-> IF isHost THEN row.interviewerNotes ELSE Null]

TablesView(id, token) ==
  LET rows == {r \in tables.scenarios : r.id = id}
  IN IF rows = {} THEN Missing ELSE MapScenario(CHOOSE r \in rows : TRUE, token)

\* UPDATE .. WHERE .. RETURNING: the first row that matches, as it is afterwards.
UpdateRow(Matches(_), token, Change(_)) ==
  LET rows == {r \in tables.scenarios : Matches(r)}
  IN IF rows = {} THEN [store |-> tables, answer |-> Missing]
     ELSE LET row == CHOOSE r \in rows : TRUE
          IN [store |-> [tables EXCEPT !.scenarios = (@ \ {row}) \cup {Change(row)}],
              answer |-> MapScenario(Change(row), token)]

TablesCollaborate(id, token, patch) ==
  LET current == TablesView(id, token)
      hash == IF Private(patch) /\ token # Null THEN <<"sha256", token>> ELSE Null
      Coalesce(value, old) == IF value = Null THEN old ELSE value
      Matches(r) == r.id = id /\ (~(Private(patch) /\ token # Null) \/ r.hostTokenHash = hash)
      Change(r) == [r EXCEPT !.candidateNotes = Coalesce(patch.candidateNotes, @),
                             !.interviewerNotes = Coalesce(patch.interviewerNotes, @),
                             !.sessionStartedAt = CASE patch.clockAction = "start" -> clock
                                                    [] patch.clockAction = "reset" -> Never
                                                    [] OTHER -> @,
                             !.updatedAt = clock]
  IN IF current = Missing THEN [store |-> tables, answer |-> Missing]
     ELSE IF Private(patch) /\ ~current.isHost THEN [store |-> tables, answer |-> Missing]
     ELSE UpdateRow(Matches, token, Change)

TablesReserve(cost) ==
  LET since(start) == {r \in tables.reservations : r.at >= start}
      monthly == since(4 * Month(clock))
      answer == BudgetAnswer(Cardinality(since(2 * Day(clock))), Cardinality(monthly),
                             Cents([r \in monthly |-> r.cost]), cost)
  IN [store |-> IF "refused" \in DOMAIN answer THEN tables
                ELSE [tables EXCEPT !.reservations = @ \cup
                        {[id |-> Cardinality(@), at |-> clock, cost |-> cost]}],
      answer |-> answer]

-----------------------------------------------------------------------------
(* One call to both stores.                                                 *)

Call(inMemory, onTables) ==
  /\ calls < MaxCalls
  /\ calls' = calls + 1
  /\ memory' = inMemory.store
  /\ tables' = onTables.store
  /\ answers' = <<inMemory.answer, onTables.answer>>

QueueRun ==
  LET run == [id |-> runsMade + 1, status |-> "queued"]
  IN /\ Call(MemoryQueueRun(run), TablesQueueRun(run))
     /\ runsMade' = runsMade + 1
     /\ UNCHANGED <<scenariosMade, clock>>

\* A worker claims the oldest run, and ends it before it claims another.
WorkOn(id, before, after) ==
  /\ \E r \in tables.runs : r.id = id /\ r.status = before
  /\ \A r \in tables.runs : r.status \in {"queued", "running"} => r.id >= id
  /\ memory' = [memory EXCEPT !.runs = [k \in DOMAIN @ |->
                  IF @[k].id = id THEN [@[k] EXCEPT !.status = after] ELSE @[k]]]
  /\ tables' = [tables EXCEPT !.runs = {IF r.id # id THEN r
                  ELSE [r EXCEPT !.status = after,
                                 !.completedAt = IF after = "running" THEN @ ELSE clock] : r \in @}]
  /\ UNCHANGED <<runsMade, scenariosMade, clock, answers, calls>>

Work == \E id \in 1..runsMade :
  \/ WorkOn(id, "queued", "running")
  \/ \E after \in {"completed", "failed"} : WorkOn(id, "running", after)

ShareScenario == \E scenario \in Scenarios :
  /\ Call(MemoryShare(scenariosMade + 1, scenario), TablesShare(scenariosMade + 1, scenario))
  /\ scenariosMade' = scenariosMade + 1
  /\ UNCHANGED <<runsMade, clock>>

MarkScenarioRun == \E id \in 1..scenariosMade :
  /\ Call(MemoryChange(id, TRUE, Null, FirstRun),
          UpdateRow(LAMBDA r : r.id = id, Null, FirstRun))
  /\ UNCHANGED <<runsMade, scenariosMade, clock>>

SetScenarioReveal == \E id \in 1..scenariosMade, token \in Tokens \ {Null}, revealed \in BOOLEAN :
  LET Reveal(s) == [s EXCEPT !.candidateRevealed = revealed]
      Matches(r) == r.id = id /\ r.hostTokenHash = <<"sha256", token>>
  IN /\ Call(MemoryChange(id, token = "host", token, Reveal), UpdateRow(Matches, token, Reveal))
     /\ UNCHANGED <<runsMade, scenariosMade, clock>>

UpdateScenarioCollaboration == \E id \in 1..scenariosMade, token \in Tokens, patch \in Patches :
  /\ Call(MemoryCollaborate(id, token, patch), TablesCollaborate(id, token, patch))
  /\ UNCHANGED <<runsMade, scenariosMade, clock>>

ReserveAiUsage == \E cost \in {1, 2} :
  /\ Call(MemoryReserve(cost), TablesReserve(cost))
  /\ UNCHANGED <<runsMade, scenariosMade, clock>>

Wait == /\ clock < 4
        /\ clock' = clock + 1
        /\ UNCHANGED <<runsMade, scenariosMade, memory, tables, answers, calls>>

\* Runs, scenarios and reservations share nothing in either store.
RunCalls == QueueRun \/ Work \/ Wait
ScenarioCalls ==
  ShareScenario \/ MarkScenarioRun \/ SetScenarioReveal \/ UpdateScenarioCollaboration \/ Wait
BudgetCalls == ReserveAiUsage \/ Wait
StoresNext == RunCalls \/ ScenarioCalls \/ BudgetCalls
StoresSpec == StoresInit /\ [][StoresNext]_storeVars

-----------------------------------------------------------------------------
(* What the tests see of the store in memory is what the service does on   *)
(* PostgreSQL: the same answer to every call, and the same runs and views   *)
(* of a scenario for everyone who asks afterwards.                          *)

StoresAgree ==
  /\ answers[1] = answers[2]
  /\ {[id |-> r.id, status |-> r.status] : r \in tables.runs} = Range(memory.runs)
  /\ \A id \in 1..scenariosMade, token \in Tokens : MemoryView(memory, id, token) = TablesView(id, token)
=============================================================================
