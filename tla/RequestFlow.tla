---------------------------- MODULE RequestFlow ----------------------------
(***************************************************************************)
(* How the work of several request classes flows through a system, second  *)
(* after second: createRequestClassEdgeModels, executeRequestClasses, the  *)
(* outcome of each class and the dependency retries it leaves for the next *)
(* second (packages/sim-core/src/simulate.ts).                             *)
(*                                                                         *)
(* A wiring gives the components in the order Topology makes of them, so   *)
(* that links lead to later ones.  Fractions count in parts of Part, work  *)
(* in parts of Rate and success in parts of Unit; the wirings are such     *)
(* that nothing is rounded, but for the synchronous share of retries.      *)
(***************************************************************************)
EXTENDS Integers, Sequences, FiniteSets, FiniteSetsExt, Functions, SequencesExt

CONSTANTS
  Wirings,  \* kinds, links and request classes that are tried
  Part,     \* the whole of a fraction
  Rate,     \* requestedRps
  Unit,     \* certain success
  Little,   \* the fixed fractions for DNS, object stores and third parties
  MaxRate,  \* MAX_MODELED_REQUEST_RATE
  Fanout,   \* MAX_TOPOLOGY_FANOUT_AMPLIFICATION
  Seconds,  \* how long the run is
  Open      \* a link without a trafficShare, a class without a terminal

VARIABLES
  leg,      \* "begin", "flow", "judge", "ended" or "unsafe"
  wiring,
  tick,     \* the second
  turn,     \* the component whose links come next
  strike,   \* what an incident does to which component in this second
  flow,     \* per class: the work at each component and on each link
  totals,   \* aggregateExecution: demand, and attempts and retries of links
  past      \* the second before: what flowed and what was struck

flowVars == <<leg, wiring, tick, turn, strike, flow, totals, past>>

-----------------------------------------------------------------------------
Component == DOMAIN wiring.kinds
Link == DOMAIN wiring.links
Class == DOMAIN wiring.classes
Kind(n) == wiring.kinds[n]
Source(e) == wiring.links[e].from
Callee(e) == wiring.links[e].to
Out(n) == {e \in Link : Source(e) = n}
Least(a, b) == IF a < b THEN a ELSE b
Most(a, b) == IF a > b THEN a ELSE b
Of(x, fraction) == (x * fraction) \div Part
Total(F(_), S) == MapThenSumSet(F, S)

\* Incidents: a component is down, passes half on, answers with errors, or is
\* a cache whose entries are gone.
Factor(n) == IF n # strike.on THEN Part
             ELSE CASE strike.as = "down" -> 0 [] strike.as = "half" -> Part \div 2
                    [] OTHER -> Part
Errors(n) == IF n # strike.on THEN 0
             ELSE CASE strike.as = "down" -> Part [] strike.as = "cold" -> 0
                    [] OTHER -> Part \div 2
Hits(n) == IF Kind(n) # "cache" \/ (n = strike.on /\ strike.as = "cold")
           THEN 0 ELSE wiring.hits

-----------------------------------------------------------------------------
(* RequestClassEdgeModel.                                                   *)

Asynchronous(e) == wiring.links[e].async
Survives(e) == wiring.links[e].survives
Profile(c) == wiring.classes[c]
Fixed(c) == Profile(c).fixed
Carries(c, e) == Profile(c).route = {} \/ e \in Profile(c).route
GivenShare(e) == IF wiring.links[e].share = Open THEN Part ELSE wiring.links[e].share
ShareOf(c, e) == IF ~Carries(c, e) THEN 0 ELSE IF Fixed(c) THEN Part ELSE GivenShare(e)

\* The share of a component's calls that look into a cache first.
Coverage(c, n) ==
  Least(Part, Total(LAMBDA e : Of(ShareOf(c, e), Survives(e)),
                    {e \in Out(n) : Kind(Callee(e)) = "cache" /\ ~Asynchronous(e)}))

\* Work at the target, and work that goes on from it, per call.
LocalBase(c, e) ==
  LET from == Kind(Source(e)) IN
  IF Fixed(c) THEN Part
  ELSE CASE Kind(Callee(e)) \in {"dns", "store"} -> Little
         [] Kind(Callee(e)) = "cache" -> IF from = "cache" THEN Part ELSE Profile(c).reads
         [] Kind(Callee(e)) = "queue" -> IF from = "queue" THEN Part ELSE Profile(c).queued
         [] Kind(Callee(e)) = "database" ->
              IF from \in {"worker", "queue"} THEN Part ELSE Profile(c).queries
         [] OTHER -> Part
ForwardBase(c, e) == IF Kind(Callee(e)) = "dns" THEN Part ELSE LocalBase(c, e)
LocalCache(c, e) ==
  IF \/ Fixed(c) \/ Kind(Callee(e)) # "database"
     \/ Kind(Source(e)) \in {"cache", "worker", "queue"} THEN 0
  ELSE Of(Of(Of(Profile(c).reads, Profile(c).cacheable), Coverage(c, Source(e))),
          Profile(c).queries)
ForwardCache(c, e) ==
  IF Kind(Callee(e)) = "cache"
  THEN Of(IF Fixed(c) THEN Profile(c).reads ELSE LocalBase(c, e), Profile(c).cacheable)
  ELSE LocalCache(c, e)

\* cacheHitRateForEdge: the target's own, or that of the caches beside it.
HitRate(c, e) ==
  LET beside == {d \in Out(Source(e)) : Kind(Callee(d)) = "cache" /\ ShareOf(c, d) > 0}
      weight(d) == Of(ShareOf(c, d), Survives(d))
      covered == Total(weight, beside)
  IN CASE Kind(Callee(e)) = "cache" -> Hits(Callee(e))
       [] Kind(Callee(e)) # "cache" /\ LocalCache(c, e) > 0 ->
            IF covered = 0 THEN 0
            ELSE Total(LAMBDA d : weight(d) * Hits(Callee(d)), beside) \div covered
       [] OTHER -> Hits(Source(e))
LocalFactor(c, e) == Most(0, LocalBase(c, e) - Of(LocalCache(c, e), HitRate(c, e)))
ForwardFactor(c, e) == Most(0, ForwardBase(c, e) - Of(ForwardCache(c, e), HitRate(c, e)))
Transport(c, e) == Most(LocalFactor(c, e), ForwardFactor(c, e))

-----------------------------------------------------------------------------
(* executeRequestClasses.                                                   *)

Still(S) == [x \in S |-> 0]
Quiet == [forward |-> Still(Component), sync |-> Still(Component), demand |-> Still(Component),
          attempted |-> Still(Link), syncAttempted |-> Still(Link),
          retry |-> Still(Link), syncRetry |-> Still(Link)]
NoTotals == [demand |-> Still(Component), attempted |-> Still(Link), retries |-> Still(Link)]
Calm == [on |-> 0, as |-> "calm"]

At(w) ==
  /\ wiring = w /\ tick = 1 /\ turn = 1
  /\ strike = Calm /\ flow = [c \in Class |-> Quiet] /\ totals = NoTotals
  /\ past = [flow |-> flow, strike |-> Calm]
AtRest(w) == leg = "ended" /\ At(w)
FlowInit == leg = "begin" /\ \E w \in Wirings : At(w)

Entering(c, n) == Of(Of(Rate, Profile(c).share), Profile(c).entries[n])

\* A class starts a second: its buffers are cleared but for the retries.
\* Mutant: what went over the links is left as it was.
ClearedButLinks(c) ==
  [Quiet EXCEPT !.retry = flow[c].retry, !.syncRetry = flow[c].syncRetry,
                !.attempted = flow[c].attempted, !.syncAttempted = flow[c].syncAttempted]
Cleared(c) == [Quiet EXCEPT !.retry = flow[c].retry, !.syncRetry = flow[c].syncRetry]

BeginSecond ==
  /\ leg = "begin"
  /\ strike' \in {Calm} \cup wiring.strikes
  /\ LET in(c, n) == IF n = strike'.on /\ strike'.as = "down" THEN 0
                     ELSE IF n = strike'.on /\ strike'.as = "half"
                     THEN Entering(c, n) \div 2 ELSE Entering(c, n)
     IN flow' = [c \in Class |->
          [Cleared(c) EXCEPT !.demand = [n \in Component |-> Entering(c, n)],
                             !.forward = [n \in Component |-> in(c, n)],
                             !.sync = [n \in Component |-> in(c, n)]]]
  /\ totals' = [NoTotals EXCEPT !.demand =
       [n \in Component |-> Total(LAMBDA c : Entering(c, n), Class)]]
  /\ leg' = "flow" /\ turn' = 1
  /\ UNCHANGED <<wiring, tick, past>>

\* Calls over a link: those the source's work needs and the retries of the
\* last second, while the class has work there and does not end there.
Goes(c, e) ==
  /\ flow[c].forward[Source(e)] > 0 /\ Source(e) # Profile(c).terminal /\ ShareOf(c, e) > 0
Calls(c, e) ==
  IF Goes(c, e) THEN Of(flow[c].forward[Source(e)], ShareOf(c, e)) + flow[c].retry[e] ELSE 0
SyncCalls(c, e) ==
  IF ~Goes(c, e) \/ Asynchronous(e) THEN 0
  ELSE Of(flow[c].sync[Source(e)], ShareOf(c, e)) + flow[c].syncRetry[e]
Landed(x, e) == Of(Of(x, Survives(e)), Factor(Callee(e)))

Spread ==
  LET out == Out(turn)
      into(n) == {e \in out : Callee(e) = n}
      local(c, e) == Landed(Of(Calls(c, e), LocalFactor(c, e)), e)
      onward(calls, c, e) == Landed(Of(calls, ForwardFactor(c, e)), e)
  IN /\ leg = "flow" /\ turn \in Component
     /\ flow' = [c \in Class |-> [flow[c] EXCEPT
          !.forward = [n \in Component |->
             @[n] + Total(LAMBDA e : onward(Calls(c, e), c, e), into(n))],
          !.sync = [n \in Component |->
             @[n] + Total(LAMBDA e : onward(SyncCalls(c, e), c, e), into(n))],
          !.demand = [n \in Component |-> @[n] + Total(LAMBDA e : local(c, e), into(n))],
          !.attempted = [e \in Link |->
             IF Goes(c, e) /\ e \in out THEN Of(Calls(c, e), Transport(c, e)) ELSE @[e]],
          !.syncAttempted = [e \in Link |->
             IF Goes(c, e) /\ e \in out THEN Of(SyncCalls(c, e), Transport(c, e)) ELSE @[e]]]]
     /\ totals' =
          [demand |-> [n \in Component |-> totals.demand[n] +
             Total(LAMBDA c : Total(LAMBDA e : local(c, e), into(n)), Class)],
           attempted |-> [e \in Link |-> totals.attempted[e] +
             IF e \in out THEN Total(LAMBDA c : Of(Calls(c, e), Transport(c, e)), Class) ELSE 0],
           retries |-> [e \in Link |-> totals.retries[e] +
             IF e \in out THEN Total(LAMBDA c : flow[c].retry[e], {c \in Class : Goes(c, e)})
             ELSE 0]]
     /\ turn' = turn + 1
     /\ UNCHANGED <<leg, wiring, tick, strike, past>>

\* validateModeledExecutionRates: beyond the limit the whole run is refused.
Validate ==
  /\ leg = "flow" /\ turn \notin Component
  /\ leg' = IF \A x \in Range(totals.demand) \cup Range(totals.attempted)
                        \cup Range(totals.retries) : x <= MaxRate
            THEN "judge" ELSE "unsafe"
  /\ UNCHANGED <<wiring, tick, turn, strike, flow, totals, past>>

-----------------------------------------------------------------------------
(* The retries that a second leaves for the next one.                       *)

\* Retries are not retried again.
FirstCalls(c, e) == Most(0, flow[c].attempted[e] - flow[c].retry[e])
Pressure(e) == wiring.pressure[Source(e)]
NextRetry(c, e) ==
  IF flow[c].attempted[e] = 0 THEN 0
  ELSE Least(Of(FirstCalls(c, e), Least((14 * Part) \div 5, Of(Errors(Callee(e)), Pressure(e)))),
             Of(Rate, Profile(c).share) * wiring.retries * Fanout)
\* Its synchronous part, in whole parts; below one request a second, less.
NextSyncRetry(c, e) ==
  IF Asynchronous(e) \/ flow[c].attempted[e] = 0 THEN 0
  ELSE Of(NextRetry(c, e),
          (flow[c].syncAttempted[e] * Part) \div Most(wiring.one, flow[c].attempted[e]))

EndSecond ==
  /\ leg = "judge"
  /\ flow' = [c \in Class |-> [flow[c] EXCEPT
                !.retry = [e \in Link |-> NextRetry(c, e)],
                !.syncRetry = [e \in Link |-> NextSyncRetry(c, e)]]]
  /\ past' = [flow |-> flow, strike |-> strike]
  /\ tick' = tick + 1
  /\ leg' = IF tick = Seconds THEN "ended" ELSE "begin"
  /\ UNCHANGED <<wiring, turn, strike, totals>>

FlowOver == leg \in {"ended", "unsafe"} /\ UNCHANGED flowVars
FlowNext == BeginSecond \/ Spread \/ Validate \/ EndSecond \/ FlowOver
FlowSpec == FlowInit /\ [][FlowNext]_flowVars

-----------------------------------------------------------------------------
(* The outcome of a class in this second, from the last component back.     *)

Times(a, b) == (a * b) \div Unit
AsUnit(fraction) == (fraction * Unit) \div Part
OwnSuccess(n) == Unit - AsUnit(Errors(n))
Branches(c, n) == {e \in Out(n) : ShareOf(c, e) > 0}
\* Its branches share the calls; otherwise each call needs all of them.
Partitioned(c, n) == Fixed(c) \/ \A e \in Branches(c, n) : wiring.links[e].share # Open
Exposure(c, e) ==
  LET p == Profile(c)
      read == Of(Of(Of(p.reads, p.cacheable), HitRate(c, e)), Coverage(c, Source(e)))
  IN CASE Asynchronous(e) -> 0
       [] Fixed(c) /\ ~Asynchronous(e) -> Part
       [] ~Fixed(c) /\ ~Asynchronous(e) /\ Kind(Callee(e)) = "cache" ->
            IF \E d \in Branches(c, Callee(e)) : ~Asynchronous(d) THEN p.reads ELSE read
       [] OTHER -> Least(Part, Transport(c, e))
MissShare(c, n) ==
  LET looked == Total(LAMBDA e : Of(SyncCalls(c, e), LocalFactor(c, e)),
                      {e \in Link : Callee(e) = n}) + Entering(c, n)
  IN IF Kind(n) # "cache" THEN Unit
     ELSE Least(Unit, (flow[c].sync[n] * Unit) \div Most(wiring.one, looked))

Outcome(c) ==
  LET onBranch(e, after) == LET x == AsUnit(Exposure(c, e)) IN Unit - x + Times(x, after)
      outcome[n \in Component] ==
        LET out == Branches(c, n)
            down == IF Partitioned(c, n)
                    THEN Total(LAMBDA e : Times(AsUnit(ShareOf(c, e)),
                                                onBranch(e, outcome[Callee(e)])), out)
                    ELSE MapThenFoldSet(Times, Unit, LAMBDA e : onBranch(e, outcome[Callee(e)]),
                                        LAMBDA T : CHOOSE x \in T : TRUE, out)
            miss == MissShare(c, n)
        IN IF n = Profile(c).terminal \/ out = {} THEN OwnSuccess(n)
           ELSE Times(OwnSuccess(n), Unit - miss + Times(miss, down))
  IN outcome
ClassSuccess(c) ==
  Total(LAMBDA n : Times(AsUnit(Profile(c).entries[n]), Outcome(c)[n]),
        {n \in Component : Profile(c).entries[n] > 0})

-----------------------------------------------------------------------------
(* What the pass must have done, said without it: over every path.          *)

PathsTo[e \in Link] ==
  {<<e>>} \cup UNION {{Append(p, e) : p \in PathsTo[d]} : d \in {d \in Link : Callee(d) = Source(e)}}
Passing(c, e) == Source(e) # Profile(c).terminal /\ ShareOf(c, e) > 0

\* Calls that reach the last link of a path, from "start" calls on its first.
AlongPath(c, start, path) ==
  LET step(calls, k) ==
        IF ~Passing(c, path[k]) THEN 0
        ELSE Of(Landed(Of(calls, ForwardFactor(c, path[k - 1])), path[k - 1]),
                ShareOf(c, path[k]))
  IN FoldLeft(step, IF Passing(c, path[1]) THEN start ELSE 0,
              [k \in 1..(Len(path) - 1) |-> k + 1])
FromEntries(c, path) ==
  LET n == Source(path[1])
  IN AlongPath(c, Of(Of(Entering(c, n), Factor(n)), ShareOf(c, path[1])), path)
FromRetries(c, path) ==
  AlongPath(c, IF Goes(c, path[1]) THEN flow[c].retry[path[1]] ELSE 0, path)

\* The calls on a link are all that come to it over some path from an entry or
\* from a retry, and a component works on what they bring it.
AttemptsFollowPaths ==
  \A c \in Class :
    LET calls(e) == Total(LAMBDA p : FromEntries(c, p) + FromRetries(c, p),
                          PathsTo[e])
    IN /\ \A e \in Link : flow[c].attempted[e] = Of(calls(e), Transport(c, e))
       /\ \A n \in Component : flow[c].demand[n] = Entering(c, n) +
            Total(LAMBDA e : Landed(Of(calls(e), LocalFactor(c, e)), e),
                  {e \in Link : Callee(e) = n})

\* Where shares divide the calls and no cache is passed, a class succeeds with
\* the calls that do: each goes one way, as far as it depends on the next.
OutcomeFollowsPaths ==
  \A c \in Class :
    (\A n \in Component : Partitioned(c, n) /\ Kind(n) # "cache") =>
      LET ends(n) == n = Profile(c).terminal \/ Branches(c, n) = {}
          own(path) == FoldLeft(LAMBDA s, e : Times(s, OwnSuccess(Callee(e))), Unit, path)
          taken(path) ==
            FoldLeft(LAMBDA s, e : IF ends(Source(e)) THEN 0
                       ELSE Times(Times(s, AsUnit(ShareOf(c, e))), AsUnit(Exposure(c, e))),
                     Unit, path)
          stops(n) == IF ends(n) THEN Unit
                      ELSE Total(LAMBDA e : Times(AsUnit(ShareOf(c, e)),
                                                  Unit - AsUnit(Exposure(c, e))), Branches(c, n))
          from(n) == Times(OwnSuccess(n), stops(n)) +
            Total(LAMBDA p : Times(Times(OwnSuccess(n), own(p)),
                                   Times(taken(p), stops(Callee(Last(p))))),
                  {p \in UNION Range(PathsTo) : Source(p[1]) = n})
      IN ClassSuccess(c) =
           Total(LAMBDA n : Times(AsUnit(Profile(c).entries[n]), from(n)), Component)

\* A link retries only what failed a second ago, on that link and of that
\* class; retries are not retried, as long as a call is one call at the target;
\* and the callers wait for no more than is under way.
RetriesFollowFailures ==
  \A c \in Class, e \in Link :
    LET before == past.flow[c]
        failed == past.strike.on = Callee(e) /\ past.strike.as # "cold"
    IN /\ flow[c].retry[e] > 0 => failed /\ before.attempted[e] > 0 /\ Pressure(e) > 0
       /\ failed /\ before.attempted[e] > 0 =>
            \/ flow[c].retry[e] <= Of(Of(before.forward[Source(e)], ShareOf(c, e)), Pressure(e))
            \/ LocalBase(c, e) > Part
       /\ flow[c].syncAttempted[e] <= flow[c].attempted[e]
       /\ flow[c].syncRetry[e] <= flow[c].retry[e]
       /\ Asynchronous(e) => flow[c].syncAttempted[e] = 0

\* The totals are those of the classes.
TotalsAddUp ==
  /\ \A n \in Component : totals.demand[n] = Total(LAMBDA c : flow[c].demand[n], Class)
  /\ \A e \in Link : totals.attempted[e] = Total(LAMBDA c : flow[c].attempted[e], Class)

\* After each second the work is where the links, shares and failures put it,
\* the success of a class is that of its calls, and the retries are those of
\* this second's failures: nothing of an earlier second is left in a buffer.
FlowIsSound ==
  leg = "judge" =>
    AttemptsFollowPaths /\ OutcomeFollowsPaths /\ RetriesFollowFailures /\ TotalsAddUp

=============================================================================
