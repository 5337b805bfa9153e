------------------------------- MODULE Solver -------------------------------
(***************************************************************************)
(* solveArchitecture of packages/sim-core: a bounded search for changes to *)
(* an architecture.  The catalogue of single changes is built from the     *)
(* baseline, tried alone and in pairs, every candidate is simulated, and   *)
(* what was measured is compared.                                          *)
(*                                                                         *)
(* A component keeps what some strategy reads or writes; the settings a    *)
(* strategy changes together are one flag.  A simulation is any choice of  *)
(* metrics.  Fitness is counted in the millionths to which it is rounded,  *)
(* so that Tolerance is 1: dominates forgives that much, no less.          *)
(***************************************************************************)
EXTENDS Integers, Sequences, FiniteSets, SequencesExt, FiniteSetsExt, Functions

CONSTANTS
  Problems,       \* inputs: an architecture and the options of the search
  Metrics,        \* what a simulation may measure
  Full,           \* a fitness of 1, in millionths
  Tolerance,      \* epsilon of dominates
  InstanceCap,    \* 10_000
  PartitionCap,   \* 100_000
  Unset, None

ASSUME ToleranceAssumption == Tolerance \in Nat /\ Full \in Nat
ASSUME MetricsAssumption ==
  Metrics \subseteq [requirements : 0..Full, resilience : 0..Full, latency : Nat, cost : Nat,
                     complexity : Nat, passed : Nat]

VARIABLES
  given,      \* the problem
  found,      \* the candidates, and whether the search was cut short
  measured,   \* metrics of the baseline and of the candidates tried so far
  phase       \* "baseline", "candidates", "solved" or "refused"

solverVars == <<given, found, measured, phase>>

Larger(a, b)  == IF a < b THEN b ELSE a
Smaller(a, b) == IF a < b THEN a ELSE b

-----------------------------------------------------------------------------
(* The catalogue of changes.                                               *)

Strategies == <<"horizontal-scale", "elastic-scale", "resilience-controls", "durable-replication",
                "storage-partitioning", "cache-efficiency", "consumer-parallelism">>
Boundary == {"cdn", "load-balancer", "api", "worker", "third-party"}
Scalable == Boundary \cup {"cache", "database", "queue", "stream", "object-store"}

Grown(instances) == Smaller(InstanceCap, Larger(instances + 1, (3 * instances + 1) \div 2))
Headroom(node) == Smaller(InstanceCap, Larger(node.maxInstances + 1, 2 * node.instances))
Doubled(partitions) ==
  Smaller(PartitionCap, Larger(2, 2 * (IF partitions = Unset THEN 1 ELSE partitions)))

Workers(architecture) == {n \in DOMAIN architecture : architecture[n].kind = "worker"}

\* What a strategy at node n changes.
Reach(architecture, strategy, n) ==
  {n} \cup IF strategy = "consumer-parallelism" THEN Workers(architecture) ELSE {}

Suits(architecture, strategy, n) ==
  LET node == architecture[n] IN
  CASE strategy = "horizontal-scale" ->
         node.kind \in Scalable /\ Grown(node.instances) # node.instances
    [] strategy = "elastic-scale" ->
         node.kind \in Boundary /\ ~(node.autoscale /\ Headroom(node) = node.maxInstances)
    [] strategy = "resilience-controls" -> node.kind \in Boundary /\ ~node.hardened
    [] strategy = "durable-replication" -> node.kind = "database" /\ ~node.durable
    [] strategy = "storage-partitioning" ->
         node.kind \in {"database", "object-store"} /\ Doubled(node.partitions) # node.partitions
    [] strategy = "cache-efficiency" -> node.kind \in {"cache", "cdn"} /\ node.hitRate < 98
    [] strategy = "consumer-parallelism" ->
         node.kind \in {"queue", "stream"} /\ Workers(architecture) # {}

\* Components in their authored order, the bottleneck first.
OrderedNodes(architecture, bottleneck) ==
  LET authored == [k \in DOMAIN architecture |-> k]
  IN IF bottleneck = None THEN authored
     ELSE <<bottleneck>> \o SelectSeq(authored, LAMBDA n : n # bottleneck)

\* Mutant: only the component a change is named for is looked at.
UnlockedOnly(problem, strategy, n) ==
  Suits(problem.architecture, strategy, n) /\ n \notin problem.locked

Offered(problem, strategy, n) ==
  /\ Suits(problem.architecture, strategy, n)
  /\ Reach(problem.architecture, strategy, n) \cap problem.locked = {}

MutationCatalog(problem, bottleneck) ==
  LET Of(strategy) ==
        LET able == SelectSeq(OrderedNodes(problem.architecture, bottleneck),
                              LAMBDA n : Offered(problem, strategy, n))
        IN [k \in DOMAIN able |-> [strategy |-> strategy, at |-> able[k]]]
  IN FlattenSeq([k \in DOMAIN Strategies |->
                   IF Strategies[k] \in problem.allowed THEN Of(Strategies[k]) ELSE <<>>])

Resized(node, to) == [node EXCEPT !.instances = to, !.maxInstances = Larger(@, to)]

\* A mutation holds what it read of the baseline; only the consumers of a
\* queue are scaled from what they have become.
Applied(baseline, candidate, mutation) ==
  LET n == mutation.at IN
  CASE mutation.strategy = "horizontal-scale" ->
         [candidate EXCEPT ![n] = Resized(@, Grown(baseline[n].instances))]
    [] mutation.strategy = "elastic-scale" ->
         [candidate EXCEPT ![n].autoscale = TRUE, ![n].maxInstances = Headroom(baseline[n]),
                           ![n].minInstances = IF @ = Unset THEN candidate[n].instances ELSE @]
    [] mutation.strategy = "resilience-controls" -> [candidate EXCEPT ![n].hardened = TRUE]
    [] mutation.strategy = "durable-replication" -> [candidate EXCEPT ![n].durable = TRUE]
    [] mutation.strategy = "storage-partitioning" ->
         [candidate EXCEPT ![n].partitions = Doubled(baseline[n].partitions)]
    [] mutation.strategy = "cache-efficiency" ->
         [candidate EXCEPT ![n].hitRate = Smaller(98, baseline[n].hitRate + 8)]
    [] mutation.strategy = "consumer-parallelism" ->
         [m \in DOMAIN candidate |->
            CASE m = n -> [candidate[m] EXCEPT !.partitions = Doubled(baseline[m].partitions)]
              [] m \in Workers(baseline) -> Resized(candidate[m], Grown(candidate[m].instances))
              [] OTHER -> candidate[m]]

\* Single changes, then pairs of changes by different strategies.
Selections(problem, bottleneck) ==
  LET catalog == MutationCatalog(problem, bottleneck)
      single == [k \in DOMAIN catalog |-> <<catalog[k]>>]
      pairsOf(left) == SelectSeq([k \in 1..(Len(catalog) - left) |-> <<catalog[left], catalog[left + k]>>],
                                 LAMBDA pair : pair[1].strategy # pair[2].strategy)
  IN single \o IF problem.changes = 1 THEN <<>>
               ELSE FlattenSeq([k \in DOMAIN catalog |-> pairsOf(k)])

Changed(baseline, selection) ==
  FoldLeft(LAMBDA candidate, mutation : Applied(baseline, candidate, mutation), baseline, selection)

AppendBlueprint(problem, made, selection) ==
  LET candidate == Changed(problem.architecture, selection)
  IN IF candidate = problem.architecture
        \/ \E b \in Range(made.blueprints) : b.architecture = candidate
     THEN made
     ELSE [made EXCEPT !.blueprints = Append(@, [architecture |-> candidate, changes |-> selection])]

\* min(maxCandidates, budgetCandidateLimit)
Limit(problem) ==
  Smaller(problem.maxCandidates, Larger(0, (problem.budget \div problem.workUnits) - 1))

CandidateBlueprints(problem, bottleneck) ==
  FoldLeft(LAMBDA made, selection :
             IF made.truncated \/ Len(made.blueprints) >= Limit(problem)
             THEN [made EXCEPT !.truncated = TRUE]
             ELSE AppendBlueprint(problem, made, selection),
           [blueprints |-> <<>>, truncated |-> FALSE], Selections(problem, bottleneck))

-----------------------------------------------------------------------------
(* Comparing what was measured.  Index 1 is the baseline.                  *)

\* constraintViolations
Eligible(problem, m) ==
  /\ problem.maximumCost = Unset \/ m.cost <= problem.maximumCost
  /\ problem.maximumComplexity = Unset \/ m.complexity <= problem.maximumComplexity

NoWorse(a, b) ==
  /\ a.requirements + Tolerance >= b.requirements
  /\ a.resilience + Tolerance >= b.resilience
  /\ a.latency <= b.latency /\ a.cost <= b.cost /\ a.complexity <= b.complexity

StrictlyBetter(a, b) ==
  \/ a.requirements > b.requirements + Tolerance
  \/ a.resilience > b.resilience + Tolerance
  \/ a.latency < b.latency \/ a.cost < b.cost \/ a.complexity < b.complexity

\* Mutant: any gain in fitness counts, while losses are forgiven.
DominatesLoosely(a, b) ==
  NoWorse(a, b) /\ (StrictlyBetter(a, b) \/ a.requirements > b.requirements \/ a.resilience > b.resilience)

Dominates(a, b) == NoWorse(a, b) /\ StrictlyBetter(a, b)

Contenders == {k \in DOMAIN measured : Eligible(given, measured[k])}

\* paretoOptimal and baselinePareto
Frontier == {k \in Contenders : \A j \in Contenders : ~Dominates(measured[j], measured[k])}

Keys == <<"requirements", "resilience", "latency", "cost", "complexity">>

\* normalize: the share of the range of the contenders, as <<n, d>>.
Normalized(key, value) ==
  LET values == {measured[k][key] : k \in Contenders}
      range == Max(values) - Min(values)
  IN IF range = 0 THEN <<1, 2>>
     ELSE IF key \in {"requirements", "resilience"} THEN <<value - Min(values), range>>
     ELSE <<Max(values) - value, range>>

\* The weighted sum of five fractions, over the product of their denominators.
Weighted(parts) ==
  LET Others(i) == FoldSet(LAMBDA j, product : product * parts[j][2], 1, DOMAIN Keys \ {i})
  IN FoldSet(LAMBDA i, sum : sum + given.weights[i] * parts[i][1] * Others(i), 0, DOMAIN Keys)

Utility(k) == Weighted([i \in DOMAIN Keys |-> Normalized(Keys[i], measured[k][Keys[i]])])
Best       == Weighted([i \in DOMAIN Keys |-> LET d == Normalized(Keys[i], 0)[2] IN <<d, d>>])

\* A percentage, rounded to thousandths.
Score(k) == IF k \notin Contenders THEN 0
            ELSE LET best == Best IN (200000 * Utility(k) + best) \div (2 * best)

\* The order of the list; a tie goes to the smaller id, here the smaller index.
Ahead(j, k) ==
  IF (j \in Contenders) # (k \in Contenders) THEN j \in Contenders
  ELSE IF j \in Contenders /\ Utility(j) # Utility(k) THEN Utility(j) > Utility(k)
  ELSE IF measured[j].passed # measured[k].passed THEN measured[j].passed > measured[k].passed
  ELSE j < k

Qualified ==
  LET baseline == Score(1) IN
  {k \in Frontier \ {1} : /\ ~(1 \in Contenders /\ Dominates(measured[1], measured[k]))
                          /\ Score(k) > baseline}

\* recommendedCandidateId
Recommended == IF Qualified = {} THEN None
               ELSE CHOOSE k \in Qualified : \A j \in Qualified \ {k} : Ahead(k, j)

-----------------------------------------------------------------------------
(* The search.                                                             *)

\* validateOptions, and the check that the baseline can be simulated at all.
ValidOptions(problem) ==
  /\ problem.allowed # {} /\ problem.locked \subseteq DOMAIN problem.architecture
  /\ problem.maxCandidates >= 1 /\ problem.changes \in 1..2
  /\ \E w \in Range(problem.weights) : w > 0
  /\ problem.workUnits <= problem.budget

Start(problem) ==
  /\ given = problem
  /\ found = [blueprints |-> <<>>, truncated |-> FALSE]
  /\ measured = <<>>
  /\ phase = IF ValidOptions(problem) THEN "baseline" ELSE "refused"

SolverInit == \E problem \in Problems : Start(problem)

\* summarize(simulate(...)), which also tells where the baseline is tightest.
EvaluateBaseline(metrics, bottleneck) ==
  /\ phase = "baseline"
  /\ measured' = <<metrics>>
  /\ found' = CandidateBlueprints(given, bottleneck)
  /\ phase' = IF found'.blueprints = <<>> THEN "solved" ELSE "candidates"
  /\ UNCHANGED given

EvaluateCandidate(metrics) ==
  /\ phase = "candidates"
  /\ measured' = Append(measured, metrics)
  /\ phase' = IF Len(measured') = Len(found.blueprints) + 1 THEN "solved" ELSE "candidates"
  /\ UNCHANGED <<given, found>>

SolverNext ==
  \E metrics \in Metrics :
    \/ \E bottleneck \in DOMAIN given.architecture \cup {None} : EvaluateBaseline(metrics, bottleneck)
    \/ EvaluateCandidate(metrics)
    \/ phase \in {"solved", "refused"} /\ UNCHANGED solverVars

SolverSpec == SolverInit /\ [][SolverNext]_solverVars

-----------------------------------------------------------------------------
(* Properties.                                                             *)

\* Every candidate is an architecture the schema accepts, leaves the locked
\* components and everything its changes do not name as they were, and differs
\* from the baseline and from every other candidate, although a change is made
\* from what the baseline was and may follow another.  The simulations stay
\* within the budget, and if the search says it was not cut short, no single
\* change and no pair was left out.
CandidatesAreSound ==
  Len(measured) = 1 =>
    LET Valid(node) == /\ node.instances <= node.maxInstances /\ node.maxInstances <= InstanceCap
                       /\ node.minInstances # Unset => node.minInstances <= node.instances
        Designs == {b.architecture : b \in Range(found.blueprints)}
    IN /\ given.architecture \notin Designs
       /\ Cardinality(Designs) = Len(found.blueprints)
       /\ \A b \in Range(found.blueprints), n \in DOMAIN given.architecture :
            /\ Valid(b.architecture[n])
            /\ \/ b.architecture[n] = given.architecture[n]
               \/ /\ n \notin given.locked
                  /\ \E c \in Range(b.changes) : n \in Reach(given.architecture, c.strategy, c.at)
       /\ (Len(found.blueprints) + 1) * given.workUnits <= given.budget
       /\ ~found.truncated =>
            \A selection \in Range(Selections(given, None)) :
              Changed(given.architecture, selection) \in Designs \cup {given.architecture}

\* Although dominates forgives small losses of fitness, and is no transitive
\* relation for it, designs never eliminate each other in a circle: if any of
\* those measured is eligible, one of them is on the frontier.
FrontierIsNotEmpty == Contenders # {} => Frontier # {}

\* The recommended design keeps the limits and scores above the baseline, and
\* whatever scores higher is beaten on every count by a design that keeps them.
RecommendationStands ==
  LET best == Recommended IN
  phase = "solved" /\ best # None =>
    /\ Eligible(given, measured[best]) /\ Score(best) > Score(1)
    /\ \A k \in DOMAIN measured \ {1} :
         Score(k) > Score(best) => \E j \in Contenders : Dominates(measured[j], measured[k])

\* What the search hands to the workbench.
SearchIsSound == CandidatesAreSound /\ RecommendationStands
=============================================================================
