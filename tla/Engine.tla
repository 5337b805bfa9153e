------------------------------- MODULE Engine -------------------------------
(***************************************************************************)
(* One run of the simulation engine (packages/sim-core/src/simulate.ts):   *)
(* the loop over the seconds of a scenario, with its operator              *)
(* interventions, scripted, injected and seeded incidents, forwarding      *)
(* gates, per-node autoscaling, load shedding and queues, client retries,  *)
(* causal events and metric frames.                                        *)
(*                                                                         *)
(* Rates are small integers and shares are percentages.  The architecture  *)
(* is a tree of components that forward all they admit (module Topology    *)
(* models general graphs); a component's utilisation is that of its        *)
(* throughput, so CPU, memory, connections, disks, latency and cost are    *)
(* left out, and with them the client timeout.  The arrival count of a     *)
(* second and the draws of an incident rule are the only random inputs.    *)
(***************************************************************************)
EXTENDS Integers, Sequences, FiniteSets, FiniteSetsExt, SequencesExt

CONSTANTS Node, NoNode,
          Order,         \* the components in authored order, callers first
          Caller,        \* the component that calls each one, or NoNode
          KindOf,        \* "api", "cache", "queue", "worker", ...
          Async,         \* the components reached by an asynchronous edge
          Instances, MaxInstances,
          MinInstances,  \* the configured minimum, or NoMinimum
          NoMinimum,
          Autoscales,    \* the components with autoscale on
          StateOwning, Replicas, MultiAz, FailoverSeconds,
          CapacityRps, Target, Cooldown, Startup,
          MaxRetries, Duration,
          Rules,         \* the seeded-incident rules, in order
          MaxGenerated,
          NoThreshold,   \* load shedding is not configured
          Inputs,        \* what a run may be given: incidents, actions, policies
          Arrivals       \* the arrival counts a second may draw

RuleIndex == DOMAIN Rules

ASSUME InstancesAssumption ==
  /\ Instances \in [Node -> Nat \ {0}]
  /\ MaxInstances \in [Node -> Nat \ {0}]
  /\ NoMinimum \notin Nat
  /\ MinInstances \in [Node -> (Nat \ {0}) \cup {NoMinimum}]
  /\ \A n \in Node : /\ Instances[n] <= MaxInstances[n]
                     /\ MinInstances[n] # NoMinimum =>
                          MinInstances[n] <= Instances[n]

ASSUME TimeAssumption ==
  /\ Cooldown \in Nat /\ Startup \in Nat /\ Duration \in Nat \ {0}
  /\ Target \in 1..100

ASSUME OrderAssumption ==
  /\ IsFiniteSet(Node) /\ NoNode \notin Node
  /\ Order \in Seq(Node)
  /\ {n \in Node : Caller[n] = NoNode} = {Head(Order)}
  /\ MaxGenerated \in Nat

ASSUME InputsAssumption ==
  \A input \in Inputs :
    /\ \A k \in DOMAIN input.actions :
         input.actions[k].kind = "scale" => input.actions[k].to \in Nat
    /\ LET given == Range(input.scripted) \cup Range(input.injected)
       IN /\ input.scripted \in Seq(given) /\ input.injected \in Seq(given)
          /\ \A i \in given : i.at \in Nat
    /\ \A j, k \in DOMAIN input.scripted :
         j # k => input.scripted[j].id # input.scripted[k].id
    /\ input.actions \in Seq(Range(input.actions))

ASSUME RulesAssumption ==
  /\ Rules \in Seq(Range(Rules))
  /\ \A r \in RuleIndex : Rules[r].maxOccurrences \in Nat /\ Rules[r].cooldown \in Nat
  /\ \A q, r \in RuleIndex : q # r => Rules[q].id # Rules[r].id

VARIABLES
  second,      \* the second of the loop
  pc,          \* the phase of the loop's body
  index,       \* the rule or the component the phase is at
  schedule,    \* the operator interventions, in order
  incidents,   \* scenario.incidents: scripted, injected, then generated
  threshold,   \* load-shedding thresholds, as interventions left them
  breakers,    \* the components with a circuit breaker, likewise
  runtime,     \* RuntimeNodeState of each component
  plans,       \* occurrences and nextEligibleSecond of each rule
  generated,   \* generatedIncidents
  forwarding,  \* nodeForwardingFactors of the second, in percent
  demand,      \* work offered to each component in the second
  metric,      \* nodeMetrics of the second
  retry,       \* clientRetryAmplification, in percent
  events, frames

runVars == <<schedule, incidents, threshold, breakers, runtime, plans,
             generated, forwarding, demand, metric, retry, events, frames>>
vars == <<second, pc, index, runVars>>

Pct(a, share) == (a * share) \div 100
AtLeast(a, b) == IF a > b THEN a ELSE b
AtMost(a, b) == IF a < b THEN a ELSE b
ProductOf(Value(_), S) == MapThenFoldSet(LAMBDA x, y : x * y, 1, Value,
                                         LAMBDA T : CHOOSE x \in T : TRUE, S)
Never == Duration + Startup + 1    \* pendingReadyAt when nothing is pending
LongAgo == -(2 * Cooldown)         \* lastScaleSecond before any scaling

-----------------------------------------------------------------------------
(* Incidents.                                                              *)

GlobalKinds == {"traffic-spike", "retry-storm"}

\* incidentAffectsNode: the kind suits the component, and its scope names it.
Affects(i, n) ==
  /\ n \in i.scope
  /\ i.kind \notin GlobalKinds
  /\ i.kind \in {"cache-failure", "cache-recovery"} => KindOf[n] = "cache"
  /\ i.kind \in {"database-degradation", "database-recovery"} =>
       KindOf[n] = "database"
  /\ i.kind = "queue-consumer-slowdown" => KindOf[n] = "worker"
  /\ i.kind \in {"leader-election", "partition-imbalance"} =>
       KindOf[n] \in {"database", "queue", "stream"}
  /\ i.kind = "bad-autoscaling" => n \in Autoscales

\* Index sets, so that two incidents with the same fields stay two.
Recovery == {"cache-recovery", "database-recovery"}
ActiveIncidents ==
  {k \in DOMAIN incidents :
     /\ incidents[k].kind \notin Recovery
     /\ incidents[k].at <= second
     /\ second < incidents[k].at + incidents[k].lasts}
Relevant(n, kind) ==
  {k \in ActiveIncidents : incidents[k].kind = kind /\ Affects(incidents[k], n)}

\* Mutant: a toggle that is still to come already counts.
ToggleAhead(n, down, up) ==
  LET candidates == {k \in DOMAIN incidents : /\ incidents[k].kind \in {down, up}
                                              /\ Affects(incidents[k], n)}
  IN {k \in candidates : \A j \in candidates : incidents[j].at <= incidents[k].at}

\* latestToggle: the last of the failures still running and the recoveries
\* that began, by second and then by position.
LatestToggle(n, down, up) ==
  LET candidates == {k \in DOMAIN incidents :
                       /\ incidents[k].at <= second
                       /\ \/ incidents[k].kind = up
                          \/ k \in ActiveIncidents /\ incidents[k].kind = down
                       /\ Affects(incidents[k], n)}
      later(j, k) == \/ incidents[j].at > incidents[k].at
                     \/ incidents[j].at = incidents[k].at /\ j > k
  IN {k \in candidates : \A j \in candidates : j # k => later(k, j)}
Toggled(n, down, up) ==
  \E k \in LatestToggle(n, down, up) : incidents[k].kind = down

FailedOver(k, n) ==
  /\ n \in StateOwning
  /\ second - incidents[k].at >= AtMost(FailoverSeconds, incidents[k].lasts)

-----------------------------------------------------------------------------
(* The share of its work a component admits, decided before the second is  *)
(* simulated from the instances and the admission the last one left.       *)

Blocked(n) ==
  \/ KindOf[n] = "cache" /\ Toggled(n, "cache-failure", "cache-recovery")
  \/ Relevant(n, "network-partition") # {}

NodeFailureShare(k, n) ==
  IF n \in StateOwning
  THEN IF Replicas[n] > 0 /\ FailedOver(k, n) THEN 100
       ELSE (100 * Replicas[n]) \div (Replicas[n] + 1)
  ELSE (100 * (runtime[n].active - 1)) \div runtime[n].active
ZoneOutageShare(k, n) ==
  LET redundant == IF n \in StateOwning THEN Replicas[n] > 0
                                        ELSE runtime[n].active > 1
  IN IF ~(n \in MultiAz /\ redundant) THEN 0
     ELSE IF FailedOver(k, n) THEN 100 ELSE 62
ElectionShare(k, n) == IF Replicas[n] > 0 /\ FailedOver(k, n) THEN 100 ELSE 0

ForwardingFactor(n) ==
  LET shareOf(k) ==
        CASE incidents[k].kind = "node-failure"    -> NodeFailureShare(k, n)
          [] incidents[k].kind = "zone-outage"     -> ZoneOutageShare(k, n)
          [] incidents[k].kind = "leader-election" -> ElectionShare(k, n)
      gates == Relevant(n, "node-failure") \cup Relevant(n, "zone-outage")
                 \cup Relevant(n, "leader-election")
  IN IF Blocked(n) THEN 0
     ELSE MapThenFoldSet(Pct, runtime[n].admission, shareOf,
                         LAMBDA T : CHOOSE x \in T : TRUE, gates)

-----------------------------------------------------------------------------
(* Events.                                                                 *)

\* "about" holds the entity of an event and, for an incident, its kind.
Event(id, severity, about, parents) ==
  [id |-> id, second |-> second, severity |-> severity, about |-> about,
   parents |-> parents]
EmittedIn(log, id) == \E k \in DOMAIN log : log[k].id = id
\* emit: an event is recorded once.
Emit(log, event) == IF EmittedIn(log, event.id) THEN log ELSE Append(log, event)
LastWith(log, Test(_)) ==
  LET hits == {k \in DOMAIN log : Test(log[k])}
  IN IF hits = {} THEN <<>> ELSE <<log[Max(hits)].id>>
IfEmitted(log, id) == IF EmittedIn(log, id) THEN <<id>> ELSE <<>>

-----------------------------------------------------------------------------
(* The start: a validated scenario with its injected incidents.            *)

StartOf(n) == [active |-> Instances[n], pending |-> 0, readyAt |-> Never,
               lastScale |-> LongAgo, admission |-> 100, cohorts |-> <<>>]
NoMetric == [offered |-> 0, utilization |-> 0, errorRate |-> 0, depth |-> 0,
             age |-> 0, active |-> 0]

\* The scale actions simulate() accepts for a component.
ValidScale(n, instances) ==
  /\ instances <= MaxInstances[n]
  /\ instances >= (IF MinInstances[n] = NoMinimum THEN 1 ELSE MinInstances[n])

StartRun(input) ==
  /\ \A k \in DOMAIN input.actions :
       /\ input.actions[k].at \in 1..Duration
       /\ input.actions[k].kind = "scale" =>
            ValidScale(input.actions[k].node, input.actions[k].to)
       /\ input.actions[k].kind = "circuit-breaker" =>
            KindOf[input.actions[k].node] \in {"api", "load-balancer", "third-party"}
       /\ input.actions[k].kind = "load-shedding" =>
            KindOf[input.actions[k].node] \in {"api", "load-balancer"}
  /\ \A k \in DOMAIN input.injected :
       input.injected[k].id \notin
         {i.id : i \in Range(input.scripted \o SubSeq(input.injected, 1, k - 1))}
  /\ schedule = input.actions
  /\ incidents = input.scripted \o input.injected
  /\ threshold = input.thresholds
  /\ breakers = input.breakers
  /\ runtime = [n \in Node |-> StartOf(n)]
  /\ plans = [r \in RuleIndex |-> [occurrences |-> 0, nextEligible |-> 0]]
  /\ generated = <<>>
  /\ forwarding = [n \in Node |-> 100]
  /\ demand = [n \in Node |-> 0]
  /\ metric = [n \in Node |-> NoMetric]
  /\ retry = 100
  /\ events = <<>>
  /\ frames = <<>>

StartLoop == second = 0 /\ pc = "interventions" /\ index = 1

Init == StartLoop /\ \E input \in Inputs : StartRun(input)

-----------------------------------------------------------------------------
(* The loop's body.                                                        *)

\* What is due in a second, by position.
InOrder(S) ==
  CHOOSE order \in [1..Cardinality(S) -> S] :
    \A j, k \in DOMAIN order : j < k => order[j] < order[k]

DueFor(n, kind) == {k \in DOMAIN schedule :
                      schedule[k].at = second /\ schedule[k].node = n /\
                      schedule[k].kind = kind}

\* Mutant: a scale action leaves the pending instances to join later.
ScaleKeepsPending ==
  /\ pc = "interventions"
  /\ runtime' = [n \in Node |->
       IF DueFor(n, "scale") = {} THEN runtime[n]
       ELSE [runtime[n] EXCEPT !.active = schedule[Max(DueFor(n, "scale"))].to,
                               !.lastScale = second]]
  /\ pc' = "rules" /\ index' = 1
  /\ UNCHANGED <<second, schedule, incidents, threshold, breakers, plans,
                 generated, forwarding, demand, metric, retry, events, frames>>

\* interventionActionsAt and applyIntervention: the actions of this second, in
\* order, so that the last one for a component stands.
ApplyInterventions ==
  LET due == InOrder({k \in DOMAIN schedule : schedule[k].at = second})
      told == [k \in DOMAIN due |->
                 Event(<<"intervention", schedule[due[k]].id>>, "info",
                       {schedule[due[k]].node}, <<>>)]
  IN /\ pc = "interventions"
     /\ runtime' = [n \in Node |->
          IF DueFor(n, "scale") = {} THEN runtime[n]
          ELSE [runtime[n] EXCEPT
                  !.active = schedule[Max(DueFor(n, "scale"))].to,
                  !.pending = 0, !.readyAt = Never, !.lastScale = second]]
     /\ threshold' = [n \in Node |->
          IF DueFor(n, "load-shedding") = {} THEN threshold[n]
          ELSE schedule[Max(DueFor(n, "load-shedding"))].to]
     /\ breakers' = {n \in Node :
          IF DueFor(n, "circuit-breaker") = {} THEN n \in breakers
          ELSE schedule[Max(DueFor(n, "circuit-breaker"))].to}
     /\ events' = events \o told
     /\ pc' = "rules" /\ index' = 1
     /\ UNCHANGED <<second, schedule, incidents, plans, generated, forwarding,
                    demand, metric, retry, frames>>

\* stochasticTriggerPasses: a trigger reads the last completed frame only.
TriggerPasses(rule) ==
  \/ rule.trigger = "none"
  \/ frames # <<>> /\ rule.trigger = "queueDepth" /\ Last(frames).depth >= rule.atLeast
  \/ frames # <<>> /\ rule.trigger = "errorRate" /\ Last(frames).errorRate >= rule.atLeast

\* Mutant: the name of a generated incident is not checked against the others.
FirstName(rule, occurrence) == <<"seeded", rule, occurrence, 1>>

\* generatedIncidentId: the first free name among those of every incident of
\* the scenario, injected ones of later seconds included.
FreshId(rule, occurrence) ==
  LET free == {m \in 1..(Len(incidents) + 1) :
                 \A k \in DOMAIN incidents :
                   incidents[k].id # <<"seeded", rule, occurrence, m>>}
  IN <<"seeded", rule, occurrence, Min(free)>>

\* One rule of the seeded model: it fires when it may, its trigger passes and
\* its own random stream draws a hit; an uncorrelated rule then draws the one
\* component it strikes.
RuleMayFire(r) ==
  /\ Len(generated) < MaxGenerated
  /\ plans[r].occurrences < Rules[r].maxOccurrences
  /\ second >= plans[r].nextEligible
  /\ TriggerPasses(Rules[r])
TryRule(hit, struck) ==
  LET rule == Rules[index]
      occurrence == plans[index].occurrences + 1
      incident == [id |-> FreshId(rule.id, occurrence), at |-> second,
                   kind |-> rule.kind, lasts |-> rule.lasts,
                   magnitude |-> rule.magnitude,
                   target |-> IF rule.correlated THEN NoNode ELSE struck,
                   scope |-> IF rule.correlated THEN rule.eligible ELSE {struck}]
  IN /\ pc = "rules" /\ index <= Len(Rules)
     /\ struck \in rule.eligible
     /\ IF RuleMayFire(index) /\ hit
        THEN /\ incidents' = Append(incidents, incident)
             /\ generated' = Append(generated, [rule |-> rule.id, incident |-> incident])
             /\ plans' = [plans EXCEPT ![index] =
                  [occurrences |-> occurrence,
                   nextEligible |-> second + rule.cooldown + 1]]
        ELSE UNCHANGED <<incidents, generated, plans>>
     /\ index' = index + 1
     /\ UNCHANGED <<second, pc, schedule, threshold, breakers, runtime,
                    forwarding, demand, metric, retry, events, frames>>

\* The incidents of this second are announced and every gate is set.
OpenSecond ==
  LET begun == InOrder({k \in DOMAIN incidents : incidents[k].at = second})
      told == [k \in DOMAIN begun |->
                 LET i == incidents[begun[k]]
                 IN Event(<<"incident", i.id>>,
                          IF i.kind \in Recovery THEN "info" ELSE "warning",
                          {i.target, i.kind}, <<>>)]
  IN /\ pc = "rules" /\ index = Len(Rules) + 1
     /\ events' = events \o told
     /\ forwarding' = [n \in Node |-> ForwardingFactor(n)]
     /\ pc' = "demand"
     /\ UNCHANGED <<second, index, schedule, incidents, threshold, breakers,
                    runtime, plans, generated, demand, metric, retry, frames>>

\* requestedRps and executeRequestClasses, for components that forward all.
TrafficMultiplier ==
  ProductOf(LAMBDA k : incidents[k].magnitude,
            {k \in ActiveIncidents : incidents[k].kind = "traffic-spike"})
Spread(arrivals) ==
  LET requested == Pct(arrivals * TrafficMultiplier, retry)
      forwarded[n \in Node] ==
        Pct(IF Caller[n] = NoNode THEN requested ELSE forwarded[Caller[n]],
            forwarding[n])
  IN /\ pc = "demand"
     /\ demand' = [n \in Node |->
                     IF Caller[n] = NoNode THEN requested ELSE forwarded[n]]
     /\ pc' = "nodes" /\ index' = 1
     /\ UNCHANGED <<second, schedule, incidents, threshold, breakers, runtime,
                    plans, generated, forwarding, metric, retry, events, frames>>

-----------------------------------------------------------------------------
(* One component in one second.                                            *)

\* Instances requested earlier join once their startup time has passed.
Promoted(n) ==
  LET s == runtime[n]
  IN IF s.pending > 0 /\ second >= s.readyAt
     THEN [s EXCEPT !.active = AtMost(MaxInstances[n], s.active + s.pending),
                    !.pending = 0, !.readyAt = Never]
     ELSE s

\* A bad-autoscaling incident that begins now divides the active instances
\* and forgets the pending ones; never fewer than one is left.
Crushed(n) ==
  LET s == Promoted(n)
      begun == {k \in Relevant(n, "bad-autoscaling") : incidents[k].at = second}
      left == s.active \div ProductOf(LAMBDA k : AtLeast(2, incidents[k].magnitude), begun)
  IN IF begun = {} THEN s
     ELSE [s EXCEPT !.active = IF left \in 1..s.active THEN left ELSE 1,
                    !.pending = 0, !.readyAt = Never]

Slowdown(n, kind) ==
  ProductOf(LAMBDA k : incidents[k].magnitude, Relevant(n, kind))
Imbalance(n) ==
  ProductOf(LAMBDA k : AtLeast(1, Pct(incidents[k].magnitude, 65)),
            Relevant(n, "partition-imbalance"))
Degraded(n) ==
  LET toggle == LatestToggle(n, "database-degradation", "database-recovery")
  IN ProductOf(LAMBDA k : incidents[k].magnitude,
               {k \in toggle : incidents[k].kind = "database-degradation"})

Offline(n) == forwarding[n] = 0
BaseCapacity(n, active) ==
  (CapacityRps[n] * active * forwarding[n])
    \div (Degraded(n) * Imbalance(n) * Slowdown(n, "queue-consumer-slowdown")
            * Slowdown(n, "bad-autoscaling"))
Utilization(n, active) ==
  IF Offline(n) THEN 199
  ELSE AtMost(199, (10000 * demand[n]) \div AtLeast(100, BaseCapacity(n, active)))

ErrorRate(n, utilization) ==
  LET overload == AtLeast(0, utilization - 82)
      rate == (overload * overload * 34) \div 10000 + (100 - forwarding[n])
  IN IF Offline(n) THEN 100 ELSE AtMost(98, rate)

\* downstreamWorkers, and the capacity they leave to one of their queues: a
\* worker divides itself by what its queues receive in this second, so that a
\* queue that receives nothing is given nothing.
Above[n \in Node] ==
  IF Caller[n] = NoNode THEN {} ELSE {Caller[n]} \cup Above[Caller[n]]
IsQueue(n) == KindOf[n] \in {"queue", "stream"}
WorkersOf(q) == {c \in Node : KindOf[c] = "worker" /\ q \in Above[c]}
SharedDemand(c) ==
  MapThenSumSet(LAMBDA q : demand[q], {q \in Above[c] : IsQueue(q)})
ServiceCapacity(q) ==
  LET share(c) == IF SharedDemand(c) = 0 THEN 0
                  ELSE (CapacityRps[c] * runtime[c].active * forwarding[c] * demand[q])
                         \div (100 * SharedDemand(c)
                                 * Slowdown(c, "queue-consumer-slowdown"))
  IN Pct(MapThenSumSet(share, WorkersOf(q)), forwarding[q]) \div Imbalance(q)

\* advanceFifoQueue: this second's arrivals join the tail as one cohort, and
\* the capacity drains cohorts from the head.
Enqueued(cohorts, arrivals) ==
  IF arrivals = 0 THEN cohorts
  ELSE IF cohorts # <<>> /\ Last(cohorts).since = second
       THEN [cohorts EXCEPT ![Len(cohorts)].count = @ + arrivals]
       ELSE Append(cohorts, [since |-> second, count |-> arrivals])
\* Mutant: the capacity drains the newest cohort first.
DrainedNewestFirst(cohorts, capacity) ==
  LET after(k) == SumFunctionOnSet([j \in DOMAIN cohorts |-> cohorts[j].count],
                                   (k + 1)..Len(cohorts))
      left(k) == AtMost(cohorts[k].count,
                        AtLeast(0, after(k) + cohorts[k].count - capacity))
      rest == [k \in DOMAIN cohorts |-> [cohorts[k] EXCEPT !.count = left(k)]]
  IN SelectSeq(rest, LAMBDA c : c.count > 0)

Drained(cohorts, capacity) ==
  LET before(k) == SumFunctionOnSet([j \in DOMAIN cohorts |-> cohorts[j].count], 1..(k - 1))
      left(k) == AtMost(cohorts[k].count,
                        AtLeast(0, before(k) + cohorts[k].count - capacity))
      rest == [k \in DOMAIN cohorts |-> [cohorts[k] EXCEPT !.count = left(k)]]
  IN SelectSeq(rest, LAMBDA c : c.count > 0)
Depth(cohorts) ==
  SumFunction([k \in DOMAIN cohorts |-> cohorts[k].count])
OldestAge(cohorts) == IF cohorts = <<>> THEN 0 ELSE second - Head(cohorts).since
Advanced(n) ==
  IF IsQueue(n) THEN Drained(Enqueued(runtime[n].cohorts, demand[n]), ServiceCapacity(n))
  ELSE <<>>

\* The admission factor of the next second.
NextAdmission(n, utilization) ==
  IF Offline(n) \/ threshold[n] = NoThreshold THEN 100
  ELSE IF utilization > threshold[n]
       THEN AtLeast(5, AtMost(100, (100 * threshold[n]) \div utilization))
       ELSE AtMost(100, runtime[n].admission + 15)

ScalesUp(n, s, utilization) ==
  /\ n \in Autoscales
  /\ Relevant(n, "bad-autoscaling") = {}
  /\ utilization > Target
  /\ s.pending = 0
  /\ second - s.lastScale >= Cooldown
  /\ s.active < MaxInstances[n]
ScalesDown(n, s, utilization) ==
  /\ n \in Autoscales
  /\ 100 * utilization < 35 * Target
  /\ second - s.lastScale >= 2 * Cooldown
  /\ s.active > (IF MinInstances[n] = NoMinimum THEN Instances[n] ELSE MinInstances[n])
Scaled(n, s, utilization) ==
  IF ScalesUp(n, s, utilization)
  THEN [s EXCEPT !.pending = AtMost(MaxInstances[n] - s.active,
                                    AtLeast(1, (35 * s.active + 99) \div 100)),
                 !.readyAt = second + Startup, !.lastScale = second]
  ELSE IF ScalesDown(n, s, utilization)
  THEN [s EXCEPT !.active = s.active - 1, !.lastScale = second]
  ELSE s

\* The events a component raises, in the order of the code, each with the
\* earlier event it is blamed on.
NodeEvents(n, s, utilization) ==
  LET shed == NextAdmission(n, utilization)
      log1 == IF shed = 100 THEN events
              ELSE Emit(events, Event(<<"load-shedding", n>>, "warning", {n},
                                      IfEmitted(events, <<"saturation", n>>)))
      log2 == IF ~ScalesUp(n, s, utilization) THEN log1
              ELSE Emit(log1, Event(<<"autoscale", n, second>>, "info", {n},
                                    LastWith(log1, LAMBDA e : e.severity # "info")))
  IN IF utilization <= 100 THEN log2
     ELSE Emit(log2, Event(<<"saturation", n>>, "critical", {n},
                 LastWith(log2, LAMBDA e : e.about \cap {n, "cache-failure", "cache-recovery"} # {})))

\* The body of the loop over the components, for the one at the index.
RunNode ==
  LET n == Order[index]
      s == Crushed(n)
      utilization == Utilization(n, s.active)
      cohorts == Advanced(n)
      next == Scaled(n, s, utilization)
  IN /\ pc = "nodes" /\ index <= Len(Order)
     /\ runtime' = [runtime EXCEPT ![n] =
          [next EXCEPT !.admission = NextAdmission(n, utilization),
                       !.cohorts = cohorts]]
     /\ metric' = [metric EXCEPT ![n] =
          [offered |-> demand[n], utilization |-> utilization,
           errorRate |-> ErrorRate(n, utilization), depth |-> Depth(cohorts),
           age |-> OldestAge(cohorts), active |-> next.active]]
     /\ events' = NodeEvents(n, s, utilization)
     /\ index' = index + 1
     /\ UNCHANGED <<second, pc, schedule, incidents, threshold, breakers,
                    plans, generated, forwarding, demand, retry, frames>>

-----------------------------------------------------------------------------
(* The end of a second.                                                    *)

Entry == Head(Order)

\* recoveryTimeSeconds: the longest time the frame's incidents are said to take.
RecoveryOf(n) ==
  LET short == {"node-failure", "zone-outage", "leader-election"}
      time(k) == IF n \in StateOwning /\ Replicas[n] > 0
                 THEN AtMost(FailoverSeconds, incidents[k].lasts)
                 ELSE incidents[k].lasts
      outages == {k \in ActiveIncidents :
                    Affects(incidents[k], n) /\ incidents[k].kind \in short}
      others == {k \in ActiveIncidents : /\ Affects(incidents[k], n)
                                         /\ incidents[k].kind \notin short
                                         /\ Offline(n)}
  IN {time(k) : k \in outages} \cup {incidents[k].lasts : k \in others}

\* The success of a synchronous request: a component's own, times that of each
\* component it calls and waits for.
Success[n \in Node] ==
  MapThenFoldSet(Pct, 100 - metric[n].errorRate, LAMBDA c : Success[c],
                 LAMBDA T : CHOOSE x \in T : TRUE,
                 {c \in Node : Caller[c] = n /\ c \notin Async})

\* The pressure of client retries on the next second, damped by the policies
\* of the services that saw synchronous work, and raised by retry storms.
RetryPressure(errorRate) ==
  LET gated == {n \in Node : /\ KindOf[n] \in {"api", "load-balancer"}
                             /\ demand[n] > 0 /\ n \notin Async}
      breaking == IF gated \cap breakers = {} THEN 100 ELSE 52
      shedding == IF \A n \in gated : threshold[n] = NoThreshold THEN 100 ELSE 62
      storm == MapThenSumSet(LAMBDA k : 8 * incidents[k].magnitude,
                 {k \in ActiveIncidents : incidents[k].kind = "retry-storm"})
      pressure == Pct(Pct(Pct(errorRate * MaxRetries, 68), breaking), shedding)
  IN AtMost(280, IF storm = 0 THEN pressure ELSE Pct(pressure + storm, 180))

\* retryAmplification, queue-backlog-growth and the frame.
CloseSecond ==
  LET errorRate == 100 - Success[Entry]
      amplification == 100 + RetryPressure(errorRate)
      depth == MapThenSumSet(LAMBDA n : metric[n].depth, Node)
      age == Max({metric[n].age : n \in Node})
      log == IF amplification <= 120 THEN events
             ELSE Emit(events, Event(<<"retry-amplification">>, "critical", {Entry},
                               LastWith(events, LAMBDA e : e.severity = "critical")))
      queueKinds == {"queue-consumer-slowdown", "partition-imbalance", "network-partition"}
  IN /\ pc = "nodes" /\ index = Len(Order) + 1
     /\ retry' = amplification
     /\ events' = IF depth = 0 \/ age <= 1 THEN log
                  ELSE Emit(log, Event(<<"queue-backlog-growth">>, "warning", {Entry},
                               LastWith(log, LAMBDA e : e.about \cap queueKinds # {})))
     /\ frames' = Append(frames,
          [second |-> second, rps |-> demand[Entry], errorRate |-> errorRate,
           retry |-> amplification, depth |-> depth, age |-> age,
           recovery |-> Max({0} \cup UNION {RecoveryOf(n) : n \in Node}),
           nodes |-> metric])
     /\ IF second = Duration THEN pc' = "done" /\ UNCHANGED second
                             ELSE pc' = "interventions" /\ second' = second + 1
     /\ UNCHANGED <<index, schedule, incidents, threshold, breakers, runtime,
                    plans, generated, forwarding, demand, metric>>

Finished == pc = "done" /\ UNCHANGED vars

Next ==
  \/ ApplyInterventions
  \/ \E hit \in BOOLEAN, struck \in Node : TryRule(hit, struck)
  \/ OpenSecond
  \/ \E count \in Arrivals : Spread(count)
  \/ RunNode
  \/ CloseSecond
  \/ Finished

Spec == Init /\ [][Next]_vars

-----------------------------------------------------------------------------
(* Properties of one run.                                                  *)

\* Autoscaling, startup windows, operator scaling and bad-autoscaling
\* incidents interleave, yet a component keeps between one and its maximum of
\* instances, never has more coming than fit, always has a time for those to
\* join, and is below its configured minimum only after a bad-autoscaling
\* incident struck it (simulate.ts, RuntimeNodeState).
InstancesInBounds ==
  \A n \in Node :
    /\ runtime[n].active \in 1..MaxInstances[n]
    /\ runtime[n].pending \in 0..(MaxInstances[n] - runtime[n].active)
    /\ runtime[n].pending > 0 => runtime[n].readyAt <= second + Startup
    /\ MinInstances[n] # NoMinimum /\ runtime[n].active < MinInstances[n] =>
         \E k \in DOMAIN incidents :
           /\ incidents[k].kind = "bad-autoscaling" /\ incidents[k].at <= second
           /\ Affects(incidents[k], n)

\* The age a frame shows for a queue is the age of its oldest message, were
\* its messages served one by one in the order of their arrival: with all that
\* arrived and all that is left, the first second whose arrivals are not all
\* served (queueing.ts, advanceFifoQueue).
Arrived(q, k) ==
  SumFunctionOnSet([j \in DOMAIN frames |-> frames[j].nodes[q].offered], 1..k)
Served(q, k) == Arrived(q, k) - frames[k].nodes[q].depth
QueueIsFifo ==
  \A q \in {n \in Node : IsQueue(n)} : \A k \in DOMAIN frames :
    LET waiting == {j \in 1..k : Arrived(q, j) > Served(q, k)}
    IN /\ Served(q, k) >= (IF k = 1 THEN 0 ELSE Served(q, k - 1))
       /\ frames[k].nodes[q].age = IF waiting = {} THEN 0 ELSE k - Min(waiting)

\* A seeded incident never takes the name of another one, scripted, injected
\* for a later second or generated; its rule keeps to its occurrences and its
\* cooldown, and once its second is past it has been told exactly once, in
\* that second (simulate.ts, the stochastic model and generatedIncidentId).
SeededIncidentsAreTold ==
  /\ \A j, k \in DOMAIN incidents : j # k => incidents[j].id # incidents[k].id
  /\ Len(generated) <= MaxGenerated
  /\ \A r \in RuleIndex :
       LET ours == {k \in DOMAIN generated : generated[k].rule = Rules[r].id}
       IN /\ Cardinality(ours) <= Rules[r].maxOccurrences
          /\ \A j, k \in ours : j < k =>
               generated[k].incident.at > generated[j].incident.at + Rules[r].cooldown
  /\ \A k \in DOMAIN frames : \A i \in DOMAIN incidents :
       incidents[i].at = frames[k].second =>
         Cardinality({e \in DOMAIN events :
            /\ events[e].id = <<"incident", incidents[i].id>>
            /\ events[e].second = frames[k].second}) = 1

=============================================================================
