------------------------------ MODULE Topology ------------------------------
(***************************************************************************)
(* How the engine turns an architecture into an order of execution and     *)
(* spreads the work of a request class along it: the bounds analysis of    *)
(* packages/contracts/src/index.ts, and the validation, plan, request      *)
(* routes and flow of packages/sim-core/src/simulate.ts.                   *)
(*                                                                         *)
(* Components are numbered in authored order.  Work is counted in parts of *)
(* Whole, the demand of the request class; an edge is reliable and passes  *)
(* on what its share says, without cache hits or edge retries, and a       *)
(* component either forwards all of its work or none of it.                *)
(***************************************************************************)
EXTENDS Integers, Sequences, FiniteSets, FiniteSetsExt, SequencesExt

CONSTANTS
  Count,       \* how many components there are
  Whole,       \* the demand of the request class
  Unset,       \* an edge without a trafficShare
  None,        \* a request class without an entry or a terminal
  MaxFanout,   \* MAX_TOPOLOGY_FANOUT_AMPLIFICATION, in parts of Whole
  Cases        \* the architectures and request classes that are tried

Place == 1..Count

VARIABLES
  phase,     \* "bounds", "plan", "flow", "done", "rejected", or "idle"
  given,     \* the architecture and the request class
  incoming,  \* edges whose source is still to be scheduled
  ready,     \* the worklist
  position,        \* the position in it, then in the order
  order,     \* executionOrder
  amplified, \* the bounds' amplification of each component
  route,     \* the edges of the request class, with the share they pass on
  demand,    \* nodeDemand of the request class
  forward    \* forwardDemand of the request class

planVars == <<incoming, ready, position, order>>
topologyVars == <<phase, given, planVars, amplified, route, demand, forward>>

-----------------------------------------------------------------------------
(* The architecture.                                                       *)

Edges == DOMAIN given.edges
From(e) == given.edges[e].from
To(e) == given.edges[e].to
Share(e) == IF given.edges[e].share = Unset THEN Whole ELSE given.edges[e].share
Enabled == {e \in Edges : Share(e) > 0}
Explicit == {n \in Place : given.kinds[n] \in {"users", "region"}}
Sources == IF Explicit # {} THEN Explicit
           ELSE {n \in Place : \A e \in Enabled : To(e) # n}

\* Everything an edge of "along" leads to from "start", directions by Out, In.
Closure(start, along, Out(_), In(_)) ==
  LET reach[k \in 0..Count] ==
        IF k = 0 THEN start
        ELSE reach[k - 1] \cup {In(e) : e \in {d \in along : Out(d) \in reach[k - 1]}}
  IN reach[Count]
Reachable(start, along) == Closure(start, along, From, To)
Reached == Reachable(Sources, Enabled)

\* Both passes count the edges among reachable components; the plan does not
\* count one into a source.
Counted(pass) ==
  IF pass = "bounds" THEN Enabled
  ELSE LET sources == Sources IN {e \in Enabled : To(e) \notin sources}
StartPass(pass) ==
  LET reached == Reached
      into(n) == {e \in Counted(pass) : To(e) = n /\ From(e) \in reached}
      count == [n \in Place |-> Cardinality(into(n))]
  IN /\ phase' = pass
     /\ incoming' = count
     /\ ready' = SelectSeq([n \in Place |-> n],
                           LAMBDA n : n \in reached /\ count[n] = 0)
     /\ position' = 1 /\ order' = <<>>

-----------------------------------------------------------------------------
(* The worklist.                                                           *)

Idle(case) ==
  /\ phase = "idle" /\ given = case
  /\ incoming = [n \in Place |-> 0] /\ ready = <<>> /\ position = 1 /\ order = <<>>
  /\ amplified = [n \in Place |-> 0] /\ route = <<>>
  /\ demand = [n \in Place |-> 0] /\ forward = [n \in Place |-> 0]

TopologyInit == \E case \in Cases : Idle(case)

\* analyzeTopologyExecutionBounds begins.
Analyse ==
  /\ phase = "idle"
  /\ StartPass("bounds")
  /\ amplified' = [n \in Place |-> IF n \in Sources THEN Whole ELSE 0]
  /\ UNCHANGED <<given, route, demand, forward>>

\* Mutant: a component is ready as soon as one of its callers is scheduled.
ReadyAtOnce(pass, n) ==
  LET counted == Counted(pass)
      out == SelectSeq([e \in Edges |-> e], LAMBDA e : e \in counted /\ From(e) = n)
  IN [ready |-> ready \o [k \in DOMAIN out |-> To(out[k])],
      incoming |-> incoming]

\* The edges out of a scheduled component, in authored order: the target of
\* the last one into it becomes ready.
Released(pass, n) ==
  LET counted == Counted(pass)
      out == SelectSeq([e \in Edges |-> e], LAMBDA e : e \in counted /\ From(e) = n)
      through(k, t) == Cardinality({j \in 1..k : To(out[j]) = t})
      freed == SelectSeq([k \in DOMAIN out |-> k],
                         LAMBDA k : incoming[To(out[k])] <= through(k, To(out[k])))
  IN [ready |-> ready \o [k \in DOMAIN freed |-> To(out[freed[k]])],
      incoming |-> [t \in Place |->
        LET left == incoming[t] - through(Len(out), t) IN IF left > 0 THEN left ELSE 0]]

\* One entry of the worklist; one that was scheduled before is skipped.
Schedule ==
  /\ phase \in {"bounds", "plan"} /\ position <= Len(ready)
  /\ position' = position + 1
  /\ IF Contains(order, ready[position])
     THEN UNCHANGED <<incoming, ready, order, amplified>>
     ELSE LET n == ready[position]
              released == Released(phase, n) IN
          /\ order' = Append(order, n)
          /\ ready' = released.ready /\ incoming' = released.incoming
          /\ amplified' = IF phase = "plan" THEN amplified
               ELSE [t \in Place |-> amplified[t] +
                       MapThenSumSet(LAMBDA e : (amplified[n] * Share(e)) \div Whole,
                                     {e \in Enabled : From(e) = n /\ To(e) = t})]
  /\ UNCHANGED <<phase, given, route, demand, forward>>

-----------------------------------------------------------------------------
(* validatedTopologyExecutionPlan.                                         *)

\* The shares of a component's enabled edges: none given, or all, adding up.
SharesValid ==
  \A n \in Place :
    LET out == {e \in Enabled : From(e) = n}
        explicit == {e \in out : given.edges[e].share # Unset}
    IN explicit = {} \/ (explicit = out /\ MapThenSumSet(Share, out) = Whole)

\* Every explicit source leads to something that is not one.
SourcesLead ==
  /\ Sources # {}
  /\ \A n \in Explicit : Reachable({n}, Enabled) \ Explicit # {}

Bounded ==
  /\ Reached \subseteq {order[k] : k \in DOMAIN order}
  /\ \A n \in Place : amplified[n] <= MaxFanout

\* Components an incident may be about: its target, in its region (zones and
\* failure domains are matched alike), and of a kind it can affect.
Struck(incident) ==
  {n \in Place :
     /\ given.kinds[n] \in incident.affects
     /\ incident.autoscaled => n \in given.autoscale
     /\ incident.target \in {None, n}
     /\ incident.region \in {None, given.region[n]}}

Applies(incident) ==
  /\ incident.target \in Place \cup {None}
  /\ incident.region \in Range(given.region) \cup {None}
  /\ IF incident.global THEN incident.target = None /\ incident.region = None
     ELSE Struck(incident) \cap Reached # {}

IncidentsApply == \A i \in given.incidents : Applies(i)

\* buildStochasticIncidentRulePlans: a seeded rule is checked even if disabled.
Eligible(rule) == Struck(rule) \cap Reached
RulesApply ==
  \A rule \in given.rules :
    /\ rule.target \in Place \cup {None}
    /\ rule.region \in Range(given.region) \cup {None}
    /\ IF rule.global THEN rule.target = None /\ rule.region = None /\ ~rule.correlated
       ELSE /\ rule.correlated => rule.target = None /\ rule.region # None
            /\ Eligible(rule) # {}

\* What a rule that fires may pick: one component, or none when the incident is
\* correlated or global; the incident it makes, and the components it is said to affect.
Picks(rule) == IF rule.global \/ rule.correlated THEN {None} ELSE Eligible(rule)
Materialized(rule, pick) ==
  [global |-> rule.global, affects |-> rule.affects, autoscaled |-> rule.autoscaled,
   target |-> pick, region |-> rule.region]
Affected(rule, pick) ==
  IF rule.correlated THEN Eligible(rule) ELSE {pick} \ {None}

Accepts == Bounded /\ SharesValid /\ SourcesLead /\ IncidentsApply /\ RulesApply
Judge ==
  /\ phase = "bounds" /\ position > Len(ready)
  /\ IF Accepts
     THEN StartPass("plan")
     ELSE phase' = "rejected" /\ UNCHANGED planVars
  /\ UNCHANGED <<given, amplified, route, demand, forward>>

-----------------------------------------------------------------------------
(* One request class: buildRequestClassExecutionPlans.                     *)

Request == given.request
Entries == IF Request.route # <<>> THEN {From(Request.route[1])}
           ELSE IF Request.entry # None THEN {Request.entry}
           ELSE Sources

\* An explicit route: enabled edges, each from where the last one ended, none
\* back to a component it passed, from the entry to the terminal if named.
RouteValid ==
  LET r == Request.route
      passed(k) == {From(r[1])} \cup {To(r[j]) : j \in 1..(k - 1)}
  IN r # <<>> =>
       /\ Request.entry \in {None, From(r[1])}
       /\ Request.terminal \in {None, To(Last(r))}
       /\ \A k \in DOMAIN r :
            /\ r[k] \in Enabled
            /\ k > 1 => From(r[k]) = To(r[k - 1])
            /\ To(r[k]) \notin passed(k)

Along == IF Request.route # <<>> THEN Range(Request.route) ELSE Enabled
Terminal == IF Request.terminal = None /\ Request.route # <<>>
            THEN To(Last(Request.route)) ELSE Request.terminal

\* requestEntryWeights: regions take the workload's shares when the class has
\* no entry of its own, and must then be its regions exactly.
RegionEntries == {n \in Entries : given.kinds[n] = "region"}
UsesWorkload == RegionEntries # {} /\ Request.route = <<>> /\ Request.entry = None
EntriesValid ==
  /\ Entries \subseteq Reached
  /\ RegionEntries \in {{}, Entries}
  /\ UsesWorkload => DOMAIN given.workload = Entries
  /\ Request.terminal # None => Request.terminal \in Reachable(Entries, Along)
Weight(n) ==
  IF n \notin Entries THEN 0
  ELSE IF UsesWorkload THEN given.workload[n]
  ELSE Whole \div Cardinality(Entries)

\* The share each edge passes on for this class; an explicit route passes all,
\* a terminal confines the class to the edges that can lead to it.
RouteShare ==
  LET leads == Closure({Terminal}, Enabled, To, From)
      kept == IF Request.route # <<>> THEN Range(Request.route)
              ELSE IF Terminal = None THEN Enabled
              ELSE {e \in Enabled : /\ From(e) \in Reachable(Entries, Enabled)
                                    /\ To(e) \in leads}
  IN [e \in Edges |-> IF e \notin kept THEN 0
                      ELSE IF Request.route # <<>> THEN Whole ELSE Share(e)]

Passes(n) == n \notin given.offline
Admits(n, work) == IF Passes(n) THEN work ELSE 0

\* The plan is complete, with a cyclic remainder in authored order, and the
\* class starts at its entries.
Admit ==
  LET rest == SelectSeq([n \in Place |-> n],
                        LAMBDA n : n \in Reached /\ ~Contains(order, n))
  IN /\ phase = "plan" /\ position > Len(ready)
     /\ order' = order \o rest
     /\ IF RouteValid /\ EntriesValid
        THEN /\ phase' = "flow" /\ position' = 1
             /\ route' = RouteShare
             /\ demand' = [n \in Place |-> Weight(n)]
             /\ forward' = [n \in Place |-> Admits(n, Weight(n))]
        ELSE phase' = "rejected" /\ UNCHANGED <<position, route, demand, forward>>
     /\ UNCHANGED <<given, incoming, ready, amplified>>

-----------------------------------------------------------------------------
(* executeRequestClasses, one component of the order at a time.            *)

\* What a component offers to another one in this second.
Delivered(n, t) ==
  IF n = Terminal THEN 0
  ELSE MapThenSumSet(LAMBDA e : (forward[n] * route[e]) \div Whole,
                     {e \in Edges : From(e) = n /\ To(e) = t})

Flow ==
  LET n == order[position] IN
  /\ phase = "flow" /\ position <= Len(order)
  /\ demand' = [t \in Place |-> demand[t] + Admits(t, Delivered(n, t))]
  /\ forward' = [t \in Place |-> forward[t] + Admits(t, Delivered(n, t))]
  /\ position' = position + 1
  /\ UNCHANGED <<phase, given, incoming, ready, order, amplified, route>>

Settle ==
  /\ phase = "flow" /\ position > Len(order)
  /\ phase' = "done"
  /\ UNCHANGED <<given, planVars, amplified, route, demand, forward>>

Settled == phase \in {"done", "rejected"} /\ UNCHANGED topologyVars

TopologyNext == Analyse \/ Schedule \/ Judge \/ Admit \/ Flow \/ Settle \/ Settled

TopologySpec == TopologyInit /\ [][TopologyNext]_topologyVars

-----------------------------------------------------------------------------
\* Every component gets exactly the work that reaches it: its own share of the
\* entries and, over every path the class may take to it, the product of the
\* shares, stopped by an offline component and by the terminal.  And none gets
\* more than the fan-out limit allows.  The engine computes this with one pass
\* over an order, so it must have put every caller first.  An edge into an
\* explicit source is not counted by the order (simulate.ts:571-575), and is
\* excluded here.
Ordinary == \A e \in Enabled : To(e) \notin Explicit

\* The work that goes over one path, a sequence of edges.
OverPath(path) ==
  FoldLeft(LAMBDA work, e : IF From(e) = Terminal \/ ~Passes(From(e)) THEN 0
                            ELSE (work * route[e]) \div Whole,
           Weight(From(path[1])), path)
Paths == {p \in SeqOf(Edges, Count - 1) :
            p # <<>> /\ \A k \in 2..Len(p) : From(p[k]) = To(p[k - 1])}
DemandFollowsRoutes ==
  phase = "done" /\ Ordinary =>
    \A n \in Place :
      /\ demand[n] = Weight(n) +
           (IF Passes(n) THEN MapThenSumSet(OverPath, {p \in Paths : To(Last(p)) = n})
                         ELSE 0)
      /\ demand[n] <= MaxFanout

\* An incident that a seeded rule makes while the run is under way is one that
\* the validation would have let the author write, although nothing checks it
\* again, and it strikes exactly the components the run's record names.
SeededStrikesApply ==
  phase = "plan" /\ position = 1 =>
    \A rule \in given.rules : \A pick \in Picks(rule) :
      LET incident == Materialized(rule, pick)
      IN /\ Applies(incident)
         /\ ~rule.global => Struck(incident) \cap Reached = Affected(rule, pick)

PlanIsSound == DemandFollowsRoutes /\ SeededStrikesApply

=============================================================================
