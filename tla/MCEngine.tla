------------------------------ MODULE MCEngine ------------------------------
(* Two runs of the engine on a small system, the planning of all small     *)
(* architectures, the flow of request classes through five of them, the    *)
(* search for changes to two, and the verdicts on runs under three seeds.  *)
(* These share no state, so a behaviour is of one of them.                 *)
EXTENDS EngineTwin, Solver, TLC
CONSTANTS api, cache, queue, worker
VARIABLES leg, wiring, tick, turn, strike, flow, totals, past,
  objectives, seed, scored, samples, analysis,
  part, stage, case, incoming, ready, position, order, amplified, route, flowing, forward

requests == <<leg, wiring, tick, turn, strike, flow, totals, past>>
scores == <<objectives, seed, scored, samples, analysis>>
planned == <<stage, case, incoming, ready, position, order, amplified, route, flowing, forward>>

MCOrder == <<api, cache, queue, worker>>
MCCaller == (api :> NoNode) @@ (cache :> api) @@ (queue :> api) @@ (worker :> queue)
MCKindOf == (api :> "api") @@ (cache :> "cache") @@ (queue :> "queue") @@ (worker :> "worker")
MCInstances == (api :> 1) @@ (cache :> 1) @@ (queue :> 1) @@ (worker :> 2)
MCMaxInstances == (api :> 3) @@ (cache :> 1) @@ (queue :> 1) @@ (worker :> 3)
MCMinInstances == [n \in Node |-> IF n = worker THEN 2 ELSE NoMinimum]
MCReplicas == [n \in Node |-> IF n = queue THEN 1 ELSE 0]
MCCapacity == (api :> 2) @@ (cache :> 8) @@ (queue :> 8) @@ (worker :> 1)
MCRules == <<[id |-> "seeded", kind |-> "node-failure", lasts |-> 1, magnitude |-> 1,
              eligible |-> {queue, worker}, correlated |-> FALSE,
              maxOccurrences |-> 2, cooldown |-> 0,
              trigger |-> "queueDepth", atLeast |-> 1]>>

Authored(name) == <<"authored", name, 0, 0>>
Incident(id, kind, at, lasts, scope) ==
  [id |-> id, kind |-> kind, at |-> at, lasts |-> lasts, magnitude |-> 2,
   target |-> IF Cardinality(scope) = 1 THEN CHOOSE n \in scope : TRUE ELSE NoNode,
   scope |-> scope]

Scripts ==
  {<<>>, <<Incident(Authored("a"), "cache-failure", 0, 4, {cache})>>,
   <<Incident(<<"seeded", "seeded", 1, 1>>, "traffic-spike", 1, 2, Node),
     Incident(Authored("b"), "bad-autoscaling", 1, 1, {worker})>>,
   <<Incident(Authored("a"), "zone-outage", 1, 2, {queue, worker}),
     Incident(Authored("b"), "retry-storm", 1, 1, Node)>>}

MCExtras ==
  {[type |-> "inject-incident", at |-> i.at, incident |-> i] :
     i \in {Incident(Authored("x"), "cache-recovery", 2, 1, {cache}),
            Incident(Authored("x"), "bad-autoscaling", 2, 2, {worker}),
            Incident(Authored("x"), "network-partition", 1, 1, {api}),
            Incident(Authored("x"), "queue-consumer-slowdown", 2, 2, {worker})}}
  \cup {[type |-> "apply-intervention", id |-> "y", at |-> 2, node |-> n,
         kind |-> "scale", to |-> MaxInstances[n]] : n \in {api, worker}}
  \cup {[type |-> "apply-intervention", id |-> "y", at |-> 1, node |-> api,
         kind |-> "load-shedding", to |-> 100],
        [type |-> "apply-intervention", id |-> "y", at |-> 1, node |-> api,
         kind |-> "circuit-breaker", to |-> TRUE]}

\* The interventions a session has accepted before.
Accepted == {<<>>, <<[id |-> "w", at |-> 2, node |-> api, kind |-> "scale", to |-> 2],
                     [id |-> "v", at |-> 2, node |-> api, kind |-> "scale", to |-> 3]>>}

Input(script, accepted, shed) ==
  [scripted |-> script, injected |-> <<>>, actions |-> accepted, breakers |-> {},
   thresholds |-> [n \in Node |-> IF n = api THEN shed ELSE NoThreshold]]
MCInputs ==
  {Input(script, <<>>, NoThreshold) : script \in Scripts}
  \cup {Input(<<>>, accepted, 130) : accepted \in Accepted}
  \cup {Input(script, accepted, NoThreshold) :
          script \in {s \in Scripts : s # <<>> /\ s[1].kind = "traffic-spike"},
          accepted \in Accepted}

-----------------------------------------------------------------------------
(* Architectures of four components with three to five of these edges.      *)

Pairs == {<<1, 2>>, <<1, 3>>, <<2, 3>>, <<3, 2>>, <<2, 4>>, <<3, 4>>, <<4, 1>>}
EdgesOf(pairs, first, others) ==
  LET authored == SetToSeq(pairs)
  IN [k \in DOMAIN authored |->
        [from |-> authored[k][1], to |-> authored[k][2],
         share |-> IF \A j \in 1..(k - 1) : authored[j][1] # authored[k][1]
                   THEN first ELSE others]]
Shares == {<<Unset, Unset>>, <<12, 12>>, <<24, 0>>, <<24, Unset>>}
Kinds == {<<"api", "api", "api", "api">>, <<"api", "users", "api", "api">>,
          <<"region", "region", "api", "api">>, <<"region", "users", "api", "api">>}
Plain == [entry |-> None, route |-> <<>>, terminal |-> None]
Requests(edges) ==
  {Plain, [Plain EXCEPT !.entry = 2], [Plain EXCEPT !.terminal = 3],
   [Plain EXCEPT !.terminal = 4]} \cup
  {[Plain EXCEPT !.route = r, !.terminal = IF Len(r) = 2 THEN 4 ELSE None] :
     r \in {r \in {<<1>>, <<1, 2>>, <<2, 1>>} : Range(r) \subseteq DOMAIN edges}}
Unmarked == [caches |-> {}, queues |-> {}, retries |-> [n \in 1..4 |-> 0]]
Marks == {[caches |-> {2}, queues |-> {3}, retries |-> <<2, 0, 3, 0>>],
          [caches |-> {4}, queues |-> {2, 3}, retries |-> <<0, 1, 1, 0>>]}
Request(edges, request, kinds, offline) ==
  [edges |-> edges, request |-> request, kinds |-> kinds, offline |-> offline,
   workload |-> (1 :> 8) @@ (2 :> 16), region |-> <<"eu", "eu", None, "us">>,
   autoscale |-> {1, 3}, incidents |-> {}, rules |-> {}, marks |-> Unmarked]
Harm(affects, target, region) ==
  [global |-> FALSE, affects |-> affects, autoscaled |-> FALSE, target |-> target, region |-> region]
Harms == {Harm({"api", "users"}, 4, None), Harm({"users"}, None, "us"), Harm({"api"}, None, "us"),
          Harm({"api", "users"}, 5, None), [Harm({"api"}, None, "eu") EXCEPT !.autoscaled = TRUE],
          [Harm({}, None, "eu") EXCEPT !.global = TRUE], [Harm({}, None, None) EXCEPT !.global = TRUE]}
Harmed ==
  UNION {LET edges == EdgesOf(pairs, shares[1], shares[2])
         IN {[Request(edges, Plain, kinds, {}) EXCEPT !.incidents = {harm}] :
               kinds \in {k \in Kinds : k[1] = "api"}, harm \in Harms} :
         pairs \in {p \in SUBSET Pairs : Cardinality(p) = 3}, shares \in Shares}
Seeded ==
  {[harm EXCEPT !.target = t] @@ [correlated |-> c] :
     harm \in Harms, t \in {None, 3}, c \in BOOLEAN}
Ruled ==
  UNION {LET edges == EdgesOf(pairs, shares[1], shares[2])
         IN {[Request(edges, Plain, kinds, {}) EXCEPT !.rules = {rule}] :
               kinds \in {k \in Kinds : k[1] = "api"}, rule \in Seeded} :
         pairs \in {p \in SUBSET Pairs : Cardinality(p) = 3}, shares \in {<<24, 0>>}}
Traced ==
  UNION {LET edges == EdgesOf(pairs, Unset, Unset)
         IN {[Request(edges, request, kinds, offline) EXCEPT !.marks = marks] :
               request \in Requests(edges), kinds \in Kinds, offline \in {{3}, {4}}, marks \in Marks} :
         pairs \in {p \in SUBSET Pairs : Cardinality(p) \in 4..5 /\ <<4, 1>> \notin p}}
MCCases ==
  Harmed \cup Ruled \cup Traced \cup
  UNION {LET edges == EdgesOf(pairs, shares[1], shares[2])
         IN {Request(edges, request, kinds, offline) :
               request \in Requests(edges), kinds \in Kinds, offline \in {{}, {2}}} :
         pairs \in {p \in SUBSET Pairs : Cardinality(p) = 4}, shares \in Shares}

Planning == INSTANCE ArchitectureLint WITH
  Count <- 4, Whole <- 24, MaxFanout <- 48, Cases <- MCCases, demand <- flowing,
  phase <- stage, given <- case

Tracing == INSTANCE TraceSampling WITH
  Count <- 4, Whole <- 24, MaxFanout <- 48, Cases <- MCCases, demand <- flowing,
  phase <- stage, given <- case, MaxSpans <- 9, MaxRetrySpans <- 2

-----------------------------------------------------------------------------
(* Request classes on five systems: shares that part and meet, a cache      *)
(* beside and before a database, entries through DNS, and double queries.   *)

Struck(kinds) ==
  {s \in [on : DOMAIN kinds, as : {"down", "half", "error", "cold"}] :
     s.as \in CASE kinds[s.on] = "cache" -> {"down", "error", "cold"}
                [] kinds[s.on] = "database" -> {"down", "error"}
                [] kinds[s.on] = "api" -> {"half", "error"}
                [] kinds[s.on] \in {"queue", "worker"} -> {"down"}
                [] OTHER -> {}}
System(kinds, links, classes, hits, callers, pressure) ==
  [kinds |-> kinds, links |-> links, classes |-> classes, hits |-> hits, retries |-> 3,
   pressure |-> [n \in DOMAIN kinds |-> IF n \in callers THEN pressure ELSE 0],
   strikes |-> Struck(kinds), one |-> 2 ^ 16]
Wire(from, to, share, survives, async) ==
  [from |-> from, to |-> to, share |-> share, survives |-> survives, async |-> async]
Plainly(from, to) == Wire(from, to, Unset, 64, FALSE)
Requested(share, entries, size) ==
  [share |-> share, reads |-> 32, cacheable |-> 64, queries |-> 64, queued |-> 16,
   entries |-> [n \in 1..size |-> IF n \in entries THEN 64 \div Cardinality(entries) ELSE 0],
   fixed |-> FALSE, route |-> {}, terminal |-> Unset]
MCWirings ==
  {System(<<"users", "api", "api", "api", "api">>,
     <<Wire(1, 2, 32, 64, FALSE), Wire(1, 3, 32, 64, FALSE), Plainly(2, 4),
       Wire(3, 4, 64, 32, TRUE), Plainly(4, 5)>>,
     <<Requested(32, {1}, 5),
       [Requested(32, {1}, 5) EXCEPT !.fixed = TRUE, !.route = {1, 3}, !.terminal = 4]>>,
     0, 1..5, 32),
   System(<<"users", "api", "cache", "database">>,
     <<Plainly(1, 2), Plainly(2, 3), Plainly(2, 4)>>,
     <<Requested(32, {1}, 4), [Requested(2, {1}, 4) EXCEPT !.queries = 128, !.reads = 64]>>,
     32, {2}, 32),
   System(<<"api", "cache", "database", "queue", "worker", "database">>,
     <<Plainly(1, 2), Plainly(2, 3), Wire(1, 4, Unset, 64, TRUE), Plainly(4, 5),
       Wire(5, 6, Unset, 32, FALSE)>>,
     <<[Requested(32, {1}, 6) EXCEPT !.terminal = 6, !.route = {3, 4, 5}], Requested(32, {1}, 6)>>,
     32, {1, 5}, 32),
   System(<<"dns", "users", "api", "store", "dns">>,
     <<Plainly(1, 3), Plainly(2, 3), Wire(3, 4, 48, 64, FALSE), Wire(3, 5, 16, 32, FALSE)>>,
     <<Requested(64, {1, 2}, 5), [Requested(16, {2}, 5) EXCEPT !.terminal = 4]>>, 0, 1..5, 16),
   System(<<"api", "cache", "cache", "database", "database">>,
     <<Plainly(1, 2), Wire(1, 3, Unset, 64, TRUE), Wire(1, 4, Unset, 32, FALSE), Plainly(4, 5)>>,
     <<[Requested(64, {1}, 5) EXCEPT !.queries = 128]>>, 32, {1}, 64)}

Carrying == INSTANCE RequestFlow WITH
  Wirings <- MCWirings, Part <- 64, Rate <- 2 ^ 20, Unit <- 2 ^ 12, Little <- 16,
  MaxRate <- 3000000, Fanout <- 1, Seconds <- 3, Open <- Unset

-----------------------------------------------------------------------------
(* A queue with its consumers and a database behind a CDN, close to the    *)
(* caps; designs that outdo each other by less than is forgiven.           *)

Component(kind) ==
  [kind |-> kind, instances |-> 1, maxInstances |-> 1, minInstances |-> Unset, autoscale |-> FALSE,
   hardened |-> kind # "worker", durable |-> FALSE, partitions |-> Unset, hitRate |-> 95]
Pipeline == <<[Component("queue") EXCEPT !.instances = 2, !.maxInstances = 3, !.partitions = 4],
              [Component("worker") EXCEPT !.maxInstances = 2]>>
Reads == <<[Component("cdn") EXCEPT !.instances = 2, !.maxInstances = 3, !.minInstances = 1,
                                    !.autoscale = TRUE],
           Component("database")>>
Problem(design, allowed, locked, changes, most) ==
  [architecture |-> design, allowed |-> allowed, locked |-> locked, changes |-> changes,
   maxCandidates |-> most, budget |-> 9, workUnits |-> 2, weights |-> <<12, 5, 3, 3, 2>>,
   maximumCost |-> 3, maximumComplexity |-> Unset]
MCProblems ==
  {Problem(design, allowed, locked, changes, most) :
     design \in {Pipeline, Reads},
     allowed \in {{"horizontal-scale", "consumer-parallelism"}, {"elastic-scale", "consumer-parallelism"},
                  {"horizontal-scale", "elastic-scale"}, {"resilience-controls", "cache-efficiency"},
                  {"storage-partitioning", "durable-replication"}},
     locked \in {{}, {2}}, changes \in 1..2, most \in {2, 5}}
  \cup {[Problem(Pipeline, Range(Strategies), {}, 2, 2) EXCEPT !.weights = <<0, 0, 1, 0, 0>>],
        [Problem(Reads, Range(Strategies), {1, 3}, 2, 2) EXCEPT !.budget = 1]}
Measured(requirements, resilience, latency, cost, complexity) ==
  [requirements |-> requirements, resilience |-> resilience, latency |-> latency, cost |-> cost,
   complexity |-> complexity, passed |-> requirements]
MCMetrics == {Measured(2, 0, 1, 2, 0), Measured(1, 1, 1, 1, 0), Measured(0, 2, 1, 1, 0),
              Measured(3, 3, 0, 4, 1), Measured(3, 0, 0, 3, 2)}

-----------------------------------------------------------------------------
(* Runs of 20 or 21 seconds with up to two poor ones, close to the targets. *)

Reading(latency, available, errors, recovery, rate, lost) ==
  ("p95LatencyMs" :> latency) @@ ("availability" :> available) @@ ("errorRate" :> errors)
  @@ ("monthlyCostEur" :> 20000000) @@ ("recoveryTimeSeconds" :> recovery)
  @@ ("throughputRps" :> rate) @@ ("dataLoss" :> lost)
Good == Reading(10000400, 10000000, 0, 0, 5000000, 0)
Poor == {Reading(10000600, 9800000, 100000, 1000000, 5000000, 100),
         Reading(10000400, 9799990, 100005, 1000600, 4000000, 500)}
MCResults ==
  {[s \in 1..size[1] |-> IF s <= size[2] THEN bad ELSE Good] :
     size \in {<<20, 0>>, <<20, 1>>, <<20, 2>>, <<21, 1>>, <<21, 2>>, <<21, 11>>}, bad \in Poor}
MCDigit == [m \in {"p95LatencyMs", "monthlyCostEur", "recoveryTimeSeconds", "throughputRps", "dataLoss"} |-> 1000]
           @@ [m \in {"availability", "errorRate"} |-> 10]
Objective(of, operator, target) == [metric |-> of, operator |-> operator, target |-> target]
Within == {Objective("p95LatencyMs", "lte", 10000000), Objective("availability", "gte", 9990000),
           Objective("errorRate", "lte", 100000), Objective("recoveryTimeSeconds", "lte", 1000000)}
MCObjectives ==
  {<<>>, SetToSeq(Within), SetToSeq({Objective("p95LatencyMs", "lte", 10001000),
                                     Objective("recoveryTimeSeconds", "eq", 0)}),
   SetToSeq(Within \cup {Objective("throughputRps", "gte", 5000000), Objective("dataLoss", "lte", 1000),
                         Objective("monthlyCostEur", "lte", 19000000)})}

Scoring == INSTANCE RunScores WITH
  Results <- MCResults, ObjectiveSets <- MCObjectives, Digit <- MCDigit, FirstSeeds <- {30},
  SeedCount <- 3, Stride <- 7, Modulus <- 32, Complete <- 1000000, NoAnalysis <- None,
  frames <- scored, runs <- samples

-----------------------------------------------------------------------------
\* Parts that sleep: a run that is over, and a plan or a search not begun.
RunIsOver ==
  /\ second = 0 /\ pc = "done" /\ index = 1 /\ actsAt = 0
  /\ \E input \in {CHOOSE i \in Inputs : TRUE} :
       StartRun(input) /\ Revised!StartRun(input)
NoPlan == Planning!Idle([edges |-> <<>>])

NoRequests == \E w \in {CHOOSE w \in MCWirings : TRUE} : Carrying!AtRest(w)
NoScores == Scoring!NotScored(0, <<>>)
NoSearch == \E problem \in {CHOOSE p \in Problems : TRUE} : Start(problem)

MCInit ==
  \/ part = "run" /\ TwinInit /\ NoPlan /\ NoSearch /\ NoRequests /\ NoScores
  \/ part = "plan" /\ RunIsOver /\ Planning!TopologyInit /\ NoSearch /\ NoRequests /\ NoScores
  \/ part = "search" /\ RunIsOver /\ NoPlan /\ SolverInit /\ NoRequests /\ NoScores
  \/ part = "flow" /\ RunIsOver /\ NoPlan /\ NoSearch /\ Carrying!FlowInit /\ NoScores
  \/ part = "score" /\ RunIsOver /\ NoPlan /\ NoSearch /\ NoRequests /\ Scoring!ScoresInit
MCNext ==
  \/ part = "run" /\ Lockstep /\ UNCHANGED <<part, actsAt, planned, solverVars, requests, scores>>
  \/ part = "plan" /\ Planning!TopologyNext /\ UNCHANGED <<part, twinVars, solverVars, requests, scores>>
  \/ part = "search" /\ SolverNext /\ UNCHANGED <<part, twinVars, planned, requests, scores>>
  \/ part = "flow" /\ Carrying!FlowNext /\ UNCHANGED <<part, twinVars, planned, solverVars, scores>>
  \/ part = "score" /\ Scoring!ScoresNext /\ UNCHANGED <<part, twinVars, planned, solverVars, requests>>
MCSpec == MCInit /\ [][MCNext]_<<part, twinVars, planned, solverVars, requests, scores>>

PlanIsSound == Planning!PlanIsSound /\ Planning!LintForeseesTheEngine
TraceIsATree == Tracing!TraceIsATree
FlowIsSound == Carrying!FlowIsSound
ScoresAreSound == Scoring!ScoresAreSound
=============================================================================
