------------------------------ MODULE RunScores ------------------------------
(***************************************************************************)
(* What is read off the frames of a run: the verdict on each objective     *)
(* (evaluateRequirements of packages/sim-core/src/simulate.ts), the        *)
(* numbers that the run library keeps (lib/runHistory.ts), and the         *)
(* analysis of one design under several seeds                              *)
(* (packages/sim-core/src/robustness.ts).  Each adds up the frames in its  *)
(* own way and rounds in its own place.                                    *)
(*                                                                         *)
(* Numbers are in units of 10^-5, the finest that a summary shows.         *)
(***************************************************************************)
EXTENDS Integers, Sequences, FiniteSets, FiniteSetsExt, SequencesExt

CONSTANTS
  Results,       \* runs: the frames of each, functions from metrics to numbers
  ObjectiveSets, \* scenario.requirements that are tried: sequences of objectives
  Digit,         \* the unit a verdict rounds a metric to
  FirstSeeds,    \* seeds of the scenario
  SeedCount, Stride, Modulus,  \* the seeds of an analysis
  Complete,      \* all of them, of a rate
  NoAnalysis

VARIABLES
  objectives,    \* scenario.requirements
  seed,          \* scenario.seed
  frames,        \* of the last run
  runs,          \* samples of the analysis under way
  analysis       \* its result

scoreVars == <<objectives, seed, frames, runs, analysis>>

Listed == {"p95LatencyMs", "availability", "errorRate", "monthlyCostEur", "recoveryTimeSeconds"}

\* Math.round of total / count in multiples of a unit.
Rounded(total, count, unit) == ((2 * total + count * unit) \div (2 * count * unit)) * unit

Total(values) == FoldLeft(LAMBDA sum, v : sum + v, 0, values)
Maximum(values) == Max(Range(values))
Minimum(values) == Min(Range(values))

\* Mutant: the position is rounded down.
PercentileBelow(values, percent) ==
  SortSeq(values, <)[Max({1, (Len(values) * percent) \div 100})]

Percentile(values, percent) ==
  SortSeq(values, <)[Max({1, (Len(values) * percent + 99) \div 100})]

Series(result, metric) == [s \in DOMAIN result |-> result[s][metric]]

-----------------------------------------------------------------------------
(* Verdicts.                                                               *)

Actual(result, metric) ==
  LET values == Series(result, metric)
      shown(v) == Rounded(v, 1, Digit[metric])
  IN CASE metric = "availability" -> Rounded(Total(values), Len(values), Digit[metric])
       [] metric \in {"p95LatencyMs", "errorRate"} -> shown(Percentile(values, 95))
       [] metric = "throughputRps" -> shown(Percentile(values, 50))
       [] metric = "dataLoss" -> shown(Total(values))
       [] OTHER -> shown(Maximum(values))

Passed(objective, actual) ==
  CASE objective.operator = "lte" -> actual <= objective.target
    [] objective.operator = "gte" -> actual >= objective.target
    [] OTHER -> actual = objective.target

Evaluate(result) ==
  [k \in DOMAIN objectives |->
     LET actual == Actual(result, objectives[k].metric)
     IN [objective |-> objectives[k], actual |-> actual, passed |-> Passed(objectives[k], actual)]]

Score(result) == Cardinality({k \in DOMAIN objectives : Evaluate(result)[k].passed})

\* snapshotCompletedRunAtSecond, which looks for the frame of a second asked for in
\* halves: frame i is that of second i - 1.
SnapshotAt(result, halves) ==
  LET Distance(i) == Max({2 * (i - 1) - halves, halves - 2 * (i - 1)})
      Nearer(best, i) == IF Distance(i) < Distance(best) THEN i ELSE best
  IN FoldLeft(Nearer, 1, [k \in 1 .. Len(result) - 1 |-> k + 1])

-----------------------------------------------------------------------------
(* The library's numbers and the sample of a seed are not rounded: an      *)
(* average is kept as its total.                                           *)

Summarized(result, metric) ==
  IF metric = "availability" THEN [total |-> Total(Series(result, metric)), of |-> Len(result)]
  ELSE [total |-> Maximum(Series(result, metric)), of |-> 1]

Sample(result) ==
  [passed |-> Score(result), total |-> Len(objectives), complete |-> Score(result) = Len(objectives),
   metrics |-> [m \in Listed |-> Summarized(result, m)]]

Seeds == [k \in 1..SeedCount |-> (seed + (k - 1) * Stride) % Modulus]

\* Of averages over equally many frames.
Summary(values) ==
  LET totals == [k \in DOMAIN values |-> values[k].total]
      shown(total, count) == Rounded(total, count * values[1].of, 1)
  IN [minimum |-> shown(Minimum(totals), 1), median |-> shown(Percentile(totals, 50), 1),
      p95 |-> shown(Percentile(totals, 95), 1), maximum |-> shown(Maximum(totals), 1),
      mean |-> shown(Total(totals), Len(totals))]

Aggregated(samples) ==
  LET total == Total([k \in DOMAIN samples |-> samples[k].total])
      passed == Total([k \in DOMAIN samples |-> samples[k].passed])
      complete == Cardinality({k \in DOMAIN samples : samples[k].complete})
  IN [seeds |-> Seeds,
      requirementPassRate |-> IF total = 0 THEN Complete ELSE Rounded(passed * Complete, total, 1),
      completeRunPassRate |-> Rounded(complete * Complete, Len(samples), 1),
      metrics |-> [m \in Listed |-> Summary([k \in DOMAIN samples |-> samples[k].metrics[m]])]]

-----------------------------------------------------------------------------
(* One seed after another.                                                 *)

NotScored(first, asked) ==
  /\ objectives = asked /\ seed = first
  /\ frames = <<>> /\ runs = <<>> /\ analysis = NoAnalysis

ScoresInit == \E first \in FirstSeeds, asked \in ObjectiveSets : NotScored(first, asked)

\* The seeds of one design have equally many frames.
RunSeed(result) ==
  /\ Len(runs) < SeedCount
  /\ frames # <<>> => Len(frames) = Len(result)
  /\ frames' = result
  /\ runs' = Append(runs, Sample(result))
  /\ UNCHANGED <<objectives, seed, analysis>>

Aggregate ==
  /\ Len(runs) = SeedCount /\ analysis = NoAnalysis
  /\ analysis' = Aggregated(runs)
  /\ UNCHANGED <<objectives, seed, frames, runs>>

Analysed == analysis # NoAnalysis /\ UNCHANGED scoreVars

ScoresNext == (\E result \in Results : RunSeed(result)) \/ Aggregate \/ Analysed

-----------------------------------------------------------------------------
(* Properties.                                                             *)

\* A verdict says of the seconds of the run what its metric promises: latency and
\* errors are within their target in 19 of 20 seconds, throughput in more than
\* half of them, cost and recovery in every one.
VerdictsAreMeant ==
  frames # <<>> => \A verdict \in Range(Evaluate(frames)) :
    LET objective == verdict.objective
        kept == Cardinality({s \in DOMAIN frames :
                  Passed(objective, Rounded(frames[s][objective.metric], 1, Digit[objective.metric]))})
    IN CASE objective.metric \in {"p95LatencyMs", "errorRate"} /\ objective.operator = "lte" ->
              verdict.passed <=> 20 * kept >= 19 * Len(frames)
         [] objective.metric = "throughputRps" /\ objective.operator = "gte" ->
              verdict.passed <=> 2 * kept > Len(frames)
         [] objective.metric \in {"monthlyCostEur", "recoveryTimeSeconds"} /\ objective.operator = "lte" ->
              verdict.passed <=> kept = Len(frames)
         [] OTHER -> TRUE

\* Cautious means that what is listed, summed up otherwise than the verdict, is no
\* better than it: an objective whose listed number is within its target was met.
ListedIsCautious ==
  frames # <<>> => \A verdict \in Range(Evaluate(frames)) :
    verdict.objective.metric \in Listed =>
      LET listed == Summarized(frames, verdict.objective.metric)
          scaled == [verdict.objective EXCEPT !.target = @ * listed.of]
      IN Passed(scaled, listed.total) => verdict.passed

\* The summaries of an analysis are in order, seeds are not run twice, and the
\* first is that of the scenario; runs are complete no more often than objectives
\* are met; and if the worst number of each objective is within its target, the
\* analysis shows that every run met them all.
AnalysisIsConsistent ==
  analysis # NoAnalysis =>
    /\ Cardinality(Range(analysis.seeds)) = SeedCount /\ analysis.seeds[1] = seed
    /\ \A m \in Listed :
         LET s == analysis.metrics[m]
         IN /\ s.minimum <= s.median /\ s.median <= s.p95 /\ s.p95 <= s.maximum
            /\ s.mean \in s.minimum..s.maximum
    /\ analysis.completeRunPassRate <= analysis.requirementPassRate
    /\ analysis.completeRunPassRate = Complete <=> \A k \in DOMAIN runs : runs[k].complete
    /\ (\A objective \in Range(objectives) :
          /\ objective.metric \in Listed
          /\ LET s == analysis.metrics[objective.metric]
             IN Passed(objective, IF objective.operator = "gte" THEN s.minimum ELSE s.maximum))
       => analysis.completeRunPassRate = Complete

\* The snapshot of a second shows the nearest frame, the earlier of two, and so the
\* frame of that very second when there is one.
SnapshotIsNearest ==
  frames # <<>> => \A halves \in -1 .. 2 * Len(frames) :
    LET shown == SnapshotAt(frames, halves) - 1
        after == {s \in 0 .. Len(frames) - 1 : 2 * s >= halves}
        before == {s \in 0 .. Len(frames) - 1 : 2 * s <= halves}
    IN CASE after = {} -> shown = Len(frames) - 1
         [] before = {} -> shown = 0
         [] OTHER -> IF halves - 2 * Max(before) <= 2 * Min(after) - halves
                       THEN shown = Max(before) ELSE shown = Min(after)

ScoresAreSound == VerdictsAreMeant /\ ListedIsCautious /\ AnalysisIsConsistent /\ SnapshotIsNearest
=============================================================================
