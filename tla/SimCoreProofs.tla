---------------------------- MODULE SimCoreProofs ----------------------------
(***************************************************************************)
(* Three results about packages/sim-core.  The instances of every          *)
(* component stay in their bounds in every run of the engine, for every    *)
(* architecture, scenario and action schedule; the incidents that seeded   *)
(* rules generate are named apart, keep to their rules and are told once,  *)
(* whatever is drawn; and the frontier of the solver's search is not       *)
(* empty, for every set of measurements and every tolerance.               *)
(***************************************************************************)
EXTENDS Engine, Solver, FiniteSetTheorems, WellFoundedInduction, TLAPS

Fields == {"active", "pending", "readyAt", "lastScale", "admission", "cohorts"}

Struck(n) ==
  \E k \in DOMAIN incidents :
    /\ incidents[k].kind = "bad-autoscaling" /\ incidents[k].at <= second
    /\ Affects(incidents[k], n)

\* What the code keeps of one component's runtime state.
Sound(n, s) ==
  /\ DOMAIN s = Fields
  /\ s.active \in 1..MaxInstances[n]
  /\ s.pending \in 0..(MaxInstances[n] - s.active)
  /\ s.readyAt \in Int /\ s.lastScale \in Int
  /\ s.pending > 0 => s.readyAt <= second + Startup
  /\ MinInstances[n] # NoMinimum /\ s.active < MinInstances[n] => Struck(n)

ScheduleSound ==
  \A k \in DOMAIN schedule :
    schedule[k].kind = "scale" =>
      /\ schedule[k].to \in Nat
      /\ ValidScale(schedule[k].node, schedule[k].to)

IInv ==
  /\ second \in Nat /\ index \in Nat \ {0}
  /\ \E S : incidents \in Seq(S) /\ \A i \in S : i.at \in Int
  /\ ScheduleSound
  /\ \E S : schedule \in Seq(S)
  /\ DOMAIN runtime = Node
  /\ \A n \in Node : Sound(n, runtime[n])

-----------------------------------------------------------------------------
(* One component in one second.                                            *)

\* Instances that join are among those that fit.
LEMMA PromotedSound ==
  ASSUME IInv, NEW n \in Node
  PROVE  Sound(n, Promoted(n))
<1>1. Sound(n, runtime[n]) /\ second \in Nat
  BY DEF IInv
<1>2. MaxInstances[n] \in Nat /\ Startup \in Nat /\ Duration \in Nat /\ Never \in Int
  BY InstancesAssumption, TimeAssumption DEF Never
<1>3. MinInstances[n] # NoMinimum => MinInstances[n] \in Nat
  BY InstancesAssumption
<1> DEFINE s == runtime[n]
<1>4. CASE ~(s.pending > 0 /\ second >= s.readyAt)
  BY <1>1, <1>4 DEF Promoted
<1>5. CASE s.pending > 0 /\ second >= s.readyAt
  <2> DEFINE p == Promoted(n)
  <2>1. /\ DOMAIN p = Fields
        /\ p.active = AtMost(MaxInstances[n], s.active + s.pending)
        /\ p.pending = 0 /\ p.readyAt = Never /\ p.lastScale = s.lastScale
    BY <1>1, <1>5 DEF Promoted, Sound, Fields
  <2>2. p.active = s.active + s.pending
    BY <1>1, <1>2, <2>1 DEF AtMost, Sound
  <2>3. p.active \in 1..MaxInstances[n] /\ p.active >= s.active
    BY <1>1, <1>2, <2>2 DEF Sound
  <2>4. MinInstances[n] # NoMinimum /\ p.active < MinInstances[n] => Struck(n)
    BY <1>1, <1>3, <2>3 DEF Sound
  <2> QED
    BY <1>1, <1>2, <2>1, <2>3, <2>4 DEF Sound
<1> QED
  BY <1>4, <1>5

\* A bad-autoscaling incident leaves at least one, and accounts for a
\* component below its minimum.
LEMMA CrushedSound ==
  ASSUME IInv, NEW n \in Node
  PROVE  Sound(n, Crushed(n))
<1>1. Sound(n, Promoted(n)) /\ second \in Nat
  BY PromotedSound DEF IInv
<1>2. MaxInstances[n] \in Nat /\ Never \in Int
  BY InstancesAssumption, TimeAssumption DEF Never
<1> DEFINE s == Promoted(n)
           begun == {k \in Relevant(n, "bad-autoscaling") : incidents[k].at = second}
           left == s.active \div ProductOf(LAMBDA k : AtLeast(2, incidents[k].magnitude), begun)
           c == Crushed(n)
<1>3. CASE begun = {}
  BY <1>1, <1>3 DEF Crushed
<1>4. CASE begun # {}
  <2>1. Struck(n)
    BY <1>4 DEF Struck, Relevant, ActiveIncidents
  <2>2. c = [s EXCEPT !.active = IF left \in 1..s.active THEN left ELSE 1,
                      !.pending = 0, !.readyAt = Never]
    BY <1>4 DEF Crushed
  <2> HIDE DEF c, left
  <2>3. /\ DOMAIN c = Fields /\ c.pending = 0 /\ c.readyAt = Never
        /\ c.lastScale = s.lastScale
        /\ c.active = IF left \in 1..s.active THEN left ELSE 1
    BY <1>1, <2>2 DEF Sound, Fields
  <2>4. c.active \in 1..MaxInstances[n]
    BY <1>1, <1>2, <2>3 DEF Sound
  <2>5. Sound(n, c)
    BY <1>1, <1>2, <2>1, <2>3, <2>4 DEF Sound
  <2> QED
    BY <2>5 DEF c
<1> QED
  BY <1>3, <1>4

\* The autoscaler asks for no more than fits and goes no lower than its floor.
LEMMA ScaledSound ==
  ASSUME IInv, NEW n \in Node, NEW s, Sound(n, s), NEW utilization
  PROVE  Sound(n, Scaled(n, s, utilization))
<1>1. second \in Nat /\ Startup \in Nat
  BY TimeAssumption DEF IInv
<1>2. MaxInstances[n] \in Nat /\ Instances[n] \in Nat \ {0}
  BY InstancesAssumption
<1>3. MinInstances[n] # NoMinimum => MinInstances[n] \in Nat \ {0}
  BY InstancesAssumption
<1> DEFINE r == Scaled(n, s, utilization)
<1>4. CASE ScalesUp(n, s, utilization)
  <2> DEFINE wanted == AtLeast(1, (35 * s.active + 99) \div 100)
  <2>1. /\ DOMAIN r = Fields /\ r.active = s.active
        /\ r.pending = AtMost(MaxInstances[n] - s.active, wanted)
        /\ r.readyAt = second + Startup /\ r.lastScale = second
    BY <1>4 DEF Scaled, Sound, Fields
  <2>2. s.active \in Nat /\ s.active < MaxInstances[n]
    BY <1>2, <1>4 DEF ScalesUp, Sound
  <2>3. (35 * s.active + 99) \div 100 \in Int
    BY <2>2
  <2>4. wanted \in Int /\ wanted >= 1
    BY <2>3 DEF AtLeast
  <2> HIDE DEF wanted
  <2>5. r.pending \in 0..(MaxInstances[n] - s.active)
    BY <1>2, <2>1, <2>2, <2>4 DEF AtMost
  <2> QED
    BY <1>1, <2>1, <2>5 DEF Sound
<1>5. CASE ~ScalesUp(n, s, utilization) /\ ScalesDown(n, s, utilization)
  <2>1. /\ DOMAIN r = Fields /\ r.active = s.active - 1
        /\ r.pending = s.pending /\ r.readyAt = s.readyAt /\ r.lastScale = second
    BY <1>5 DEF Scaled, Sound, Fields
  <2>2. s.active > 1
    BY <1>2, <1>3, <1>5 DEF ScalesDown, Sound
  <2>3. MinInstances[n] # NoMinimum => s.active > MinInstances[n]
    BY <1>5 DEF ScalesDown
  <2> QED
    BY <1>1, <1>2, <1>3, <2>1, <2>2, <2>3 DEF Sound
<1>6. CASE ~ScalesUp(n, s, utilization) /\ ~ScalesDown(n, s, utilization)
  BY <1>6 DEF Scaled
<1> QED
  BY <1>4, <1>5, <1>6

-----------------------------------------------------------------------------
(* What a step leaves of a component's soundness.                          *)

IncidentsStay ==
  \A k \in DOMAIN incidents : k \in DOMAIN incidents' /\ incidents'[k] = incidents[k]

\* An incident that struck a component has struck it ever after.
LEMMA StruckStays ==
  ASSUME IInv, second' \in Nat, second' >= second, IncidentsStay,
         NEW n, Struck(n)
  PROVE  Struck(n)'
<1>1. PICK S : incidents \in Seq(S) /\ \A i \in S : i.at \in Int
  BY DEF IInv
<1>2. PICK k \in DOMAIN incidents :
        /\ incidents[k].kind = "bad-autoscaling" /\ incidents[k].at <= second
        /\ Affects(incidents[k], n)
  BY DEF Struck
<1>3. incidents[k].at \in Int
  BY <1>1, <1>2
<1>4. k \in DOMAIN incidents' /\ incidents'[k] = incidents[k]
  BY <1>2 DEF IncidentsStay
<1>5. incidents'[k].at <= second'
  BY <1>2, <1>3, <1>4 DEF IInv
<1>6. Affects(incidents[k], n)'
  BY <1>2, <1>4 DEF Affects
<1> QED
  BY <1>2, <1>4, <1>5, <1>6 DEF Struck

LEMMA SoundLasts ==
  ASSUME IInv, second' \in Nat, second' >= second, IncidentsStay,
         NEW n \in Node, NEW s, Sound(n, s), runtime'[n] = s
  PROVE  Sound(n, runtime[n])'
<1>1. Struck(n) => Struck(n)'
  BY StruckStays
<1>2. MaxInstances[n] \in Nat /\ Startup \in Nat
  BY InstancesAssumption, TimeAssumption
<1> QED
  BY <1>1, <1>2 DEF IInv, Sound

-----------------------------------------------------------------------------
(* The steps of the loop.                                                  *)

\* A bounded set of positions has a last one.
LEMMA HasLast ==
  ASSUME NEW S, S \subseteq Nat, NEW b \in Nat, \A x \in S : x <= b, S # {}
  PROVE  Max(S) \in S /\ \A x \in S : x <= Max(S)
<1> DEFINE T == {b - x : x \in S}
<1>1. T \subseteq Nat /\ T # {}
  <2>1. \A x \in S : b - x \in Nat
    OBVIOUS
  <2> QED
    BY <2>1
<1>2. PICK t \in T : \A y \in T : ~(<<y, t>> \in OpToRel(<, Nat))
  BY <1>1, NatLessThanWellFounded, WFMin
<1>3. \A y \in T : ~(y < t)
  BY <1>1, <1>2 DEF OpToRel
<1>4. PICK x \in S : t = b - x
  BY <1>2
<1>5. \A y \in S : x >= y
  BY <1>3, <1>4
<1> QED
  BY <1>4, <1>5 DEF Max

LEMMA InitSound == Init => IInv
<1> SUFFICES ASSUME Init PROVE IInv
  OBVIOUS
<1>1. PICK input \in Inputs : StartRun(input)
  BY DEF Init
<1>2. second = 0 /\ index = 1
  BY DEF Init, StartLoop
<1> DEFINE theirs == Range(input.scripted) \cup Range(input.injected)
<1>3. /\ input.scripted \in Seq(theirs) /\ input.injected \in Seq(theirs)
      /\ \A i \in theirs : i.at \in Nat
  BY InputsAssumption
<1>4. incidents \in Seq(theirs) /\ \A i \in theirs : i.at \in Int
  BY <1>1, <1>3 DEF StartRun
<1>5. ScheduleSound /\ \E S : schedule \in Seq(S)
  BY <1>1, InputsAssumption DEF StartRun, ScheduleSound
<1>6. \A n \in Node : Sound(n, StartOf(n))
  BY <1>2, InstancesAssumption, TimeAssumption
  DEF Sound, StartOf, Fields, Never, LongAgo
<1>7. runtime = [n \in Node |-> StartOf(n)]
  BY <1>1 DEF StartRun
<1> QED
  BY <1>2, <1>4, <1>5, <1>6, <1>7 DEF IInv

\* An accepted scale action keeps to the bounds, and forgets what was pending.
LEMMA InterventionsSound == IInv /\ ApplyInterventions => IInv'
<1> SUFFICES ASSUME IInv, ApplyInterventions PROVE IInv'
  BY Zenon
<1>1. /\ second' = second /\ incidents' = incidents /\ schedule' = schedule
      /\ index' = 1
      /\ runtime' = [n \in Node |->
          IF DueFor(n, "scale") = {} THEN runtime[n]
          ELSE [runtime[n] EXCEPT
                  !.active = schedule[Max(DueFor(n, "scale"))].to,
                  !.pending = 0, !.readyAt = Never, !.lastScale = second]]
  BY DEF ApplyInterventions
<1>2. second' \in Nat /\ index' \in Nat \ {0} /\ DOMAIN runtime' = Node
  <2>1. second \in Nat
    BY DEF IInv
  <2>2. second' \in Nat /\ index' \in Nat \ {0}
    <3>1. second' = second /\ index' = 1
      BY <1>1, Zenon
    <3> QED
      BY <2>1, <3>1
  <2>3. DOMAIN runtime' = Node
    BY <1>1, Zenon
  <2> QED
    BY <2>2, <2>3
<1>5. (\E S : schedule \in Seq(S))'
  BY <1>1 DEF IInv
<1>4. ScheduleSound'
  <2>1. ScheduleSound
    BY DEF IInv
  <2> QED
    BY <1>1, <2>1 DEF ScheduleSound, ValidScale
<1>0. (\E S : incidents \in Seq(S) /\ \A i \in S : i.at \in Int)'
  BY <1>1 DEF IInv
<1>3. ASSUME NEW n \in Node PROVE Sound(n, runtime[n])'
  <2> DEFINE s == runtime'[n]
  <2>1. Sound(n, runtime[n])
    BY DEF IInv
  <2>2. CASE DueFor(n, "scale") = {}
    <3>1. runtime'[n] = runtime[n]
      BY <1>1, <2>2
    <3> QED
      BY <1>1, <2>1, <3>1 DEF Sound, Struck
  <2>3. CASE DueFor(n, "scale") # {}
    <3> DEFINE due == DueFor(n, "scale")
               k == Max(due)
    <3>1. PICK S : schedule \in Seq(S)
      BY DEF IInv
    <3>2. due \subseteq Nat /\ \A x \in due : x <= Len(schedule)
      <4>1. DOMAIN schedule = 1..Len(schedule) /\ Len(schedule) \in Nat
        BY <3>1
      <4>2. due \subseteq 1..Len(schedule)
        BY <4>1 DEF DueFor
      <4> QED
        BY <4>1, <4>2
    <3>3. k \in due
      <4>1. Len(schedule) \in Nat
        BY <3>1
      <4> HIDE DEF due
      <4> QED
        BY <2>3, <4>1, <3>2, HasLast DEF due
    <3> HIDE DEF k
    <3>4. schedule[k].to \in Nat /\ ValidScale(n, schedule[k].to)
      BY <3>3 DEF IInv, ScheduleSound, DueFor
    <3>5. s = [runtime[n] EXCEPT !.active = schedule[k].to, !.pending = 0,
                                 !.readyAt = Never, !.lastScale = second]
      BY <1>1, <2>3 DEF k
    <3> HIDE DEF s
    <3>6. /\ DOMAIN s = Fields /\ s.active = schedule[k].to /\ s.pending = 0
          /\ s.readyAt = Never /\ s.lastScale = second
      BY <2>1, <3>5 DEF Sound, Fields
    <3>7. MaxInstances[n] \in Nat /\ Never \in Int /\ second \in Nat
      <4>1. second \in Nat
        BY DEF IInv
      <4> QED
        BY <4>1, InstancesAssumption, TimeAssumption DEF Never
    <3>8. MinInstances[n] # NoMinimum => MinInstances[n] \in Nat \ {0}
      BY InstancesAssumption
    <3>9. s.active \in 1..MaxInstances[n]
          /\ ~(MinInstances[n] # NoMinimum /\ s.active < MinInstances[n])
      BY <3>4, <3>6, <3>7, <3>8 DEF ValidScale
    <3>10. Sound(n, s)
      BY <3>6, <3>7, <3>9 DEF Sound
    <3> QED
      BY <1>1, <3>10 DEF Sound, Struck, s
  <2> QED
    BY <2>2, <2>3
<1> QED
  BY <1>0, <1>2, <1>3, <1>4, <1>5 DEF IInv

\* A fired rule appends its incident.
LEMMA RulesSound ==
  ASSUME NEW hit, NEW struck, IInv, TryRule(hit, struck)
  PROVE  IInv'
<1>1. /\ second' = second /\ schedule' = schedule /\ runtime' = runtime
      /\ index' = index + 1
  BY DEF TryRule
<1>2. PICK S : incidents \in Seq(S) /\ \A i \in S : i.at \in Int
  BY DEF IInv
<1>3. PICK i : i.at = second /\ incidents' \in {incidents, Append(incidents, i)}
  <2> DEFINE j == [id |-> FreshId(Rules[index].id, plans[index].occurrences + 1), at |-> second,
                   kind |-> Rules[index].kind, lasts |-> Rules[index].lasts,
                   magnitude |-> Rules[index].magnitude,
                   target |-> IF Rules[index].correlated THEN NoNode ELSE struck,
                   scope |-> IF Rules[index].correlated THEN Rules[index].eligible ELSE {struck}]
  <2>1. j.at = second
    OBVIOUS
  <2>2. incidents' \in {incidents, Append(incidents, j)}
    BY DEF TryRule
  <2> HIDE DEF j
  <2> QED
    BY <2>1, <2>2
<1>4. incidents' \in Seq(S \cup {i}) /\ \A x \in S \cup {i} : x.at \in Int
  BY <1>2, <1>3 DEF IInv
<1>5. IncidentsStay
  BY <1>2, <1>3 DEF IncidentsStay
<1>6. \A n \in Node : Sound(n, runtime[n])'
  BY <1>1, <1>5, SoundLasts DEF IInv
<1> QED
  BY <1>1, <1>4, <1>6 DEF IInv, ScheduleSound

\* One component's turn touches only its own state.
LEMMA NodeSound == IInv /\ RunNode => IInv'
<1> SUFFICES ASSUME IInv, RunNode PROVE IInv'
  OBVIOUS
<1> DEFINE n == Order[index]
           u == Utilization(n, Crushed(n).active)
           r == Scaled(n, Crushed(n), u)
<1>1. /\ second' = second /\ schedule' = schedule /\ incidents' = incidents
      /\ \E a, c : runtime' = [runtime EXCEPT ![n] =
                                 [r EXCEPT !.admission = a, !.cohorts = c]]
      /\ index' = index + 1 /\ index <= Len(Order)
  <2> HIDE DEF r
  <2> QED
    BY DEF RunNode, r
<1>2. n \in Node
  BY <1>1, OrderAssumption DEF IInv
<1>3. Sound(n, r)
  BY <1>2, CrushedSound, ScaledSound
<1> HIDE DEF n, r
<1>4. \A m \in Node : Sound(m, runtime'[m])
  <2>1. PICK a, c : runtime' = [runtime EXCEPT ![n] =
                                  [r EXCEPT !.admission = a, !.cohorts = c]]
    BY <1>1
  <2>2. Sound(n, [r EXCEPT !.admission = a, !.cohorts = c])
    BY <1>3 DEF Sound, Fields
  <2> QED
    BY <1>2, <2>1, <2>2 DEF IInv
<1>5. \A m \in Node : Sound(m, runtime[m])'
  BY <1>1, <1>4 DEF Sound, Struck
<1> QED
  BY <1>1, <1>5 DEF IInv, ScheduleSound

LEMMA NextSound == IInv /\ [Next]_vars => IInv'
<1> SUFFICES ASSUME IInv, [Next]_vars PROVE IInv'
  OBVIOUS
<1>1. CASE /\ second' \in Nat /\ second' >= second /\ runtime' = runtime
           /\ index' \in Nat \ {0}
           /\ incidents' = incidents /\ schedule' = schedule
  <2>1. IncidentsStay
    BY <1>1 DEF IncidentsStay
  <2>2. \A n \in Node : Sound(n, runtime[n])'
    BY <1>1, <2>1, SoundLasts DEF IInv
  <2> QED
    BY <1>1, <2>2 DEF IInv, ScheduleSound
<1>2. second \in Nat /\ index \in Nat \ {0}
  BY DEF IInv
<1>3. CASE OpenSecond
  <2>1. UNCHANGED <<second, index, runtime, incidents, schedule>>
    BY <1>3, Zenon DEF OpenSecond
  <2> QED
    BY <1>1, <1>2, <2>1
<1>4. CASE \E count \in Arrivals : Spread(count)
  BY <1>1, <1>2, <1>4 DEF Spread
<1>5. CASE CloseSecond
  BY <1>1, <1>2, <1>5 DEF CloseSecond
<1>6. CASE Finished \/ UNCHANGED vars
  BY <1>1, <1>2, <1>6 DEF Finished, vars, runVars
<1> QED
  BY <1>3, <1>4, <1>5, <1>6, InterventionsSound, RulesSound, NodeSound DEF Next

-----------------------------------------------------------------------------
\* The instances of every component, with what is coming and when, are as the
\* code means them in every state of every run, and a component is below its
\* minimum only after a bad-autoscaling incident struck it (simulate.ts,
\* RuntimeNodeState), for every architecture, scenario and schedule.
THEOREM EngineInstancesInBounds == Spec => []InstancesInBounds
<1>1. IInv => InstancesInBounds
  BY DEF IInv, InstancesInBounds, Sound, Struck
<1> QED
  BY InitSound, NextSound, <1>1, PTL DEF Spec

-----------------------------------------------------------------------------
(* Seeded incidents.                                                       *)

Listed(s) == s \in Seq(Range(s))
OfIncident(e) == e.id[1] = "incident"

\* The seconds whose incidents have been told.
Opened(s) == s < second \/ (s = second /\ pc \in {"demand", "nodes", "done"})

\* The loop opens a second with the interventions and the rules, then tells the
\* incidents; no event is of a second to come.
LoopInv ==
  /\ second \in Nat /\ index \in Nat \ {0}
  /\ pc \in {"interventions", "rules", "demand", "nodes", "done"}
  /\ Listed(schedule) /\ Listed(events) /\ Listed(frames)
  /\ \A e \in DOMAIN events : events[e].second \in Int /\ events[e].second <= second
  /\ pc = "interventions" => \A e \in DOMAIN events : events[e].second < second
  /\ pc = "rules" => \A e \in DOMAIN events : events[e].second = second => ~OfIncident(events[e])
  /\ \A k \in DOMAIN frames :
       frames[k].second \in Int /\ Opened(frames[k].second)

NamesInv ==
  /\ Listed(incidents) /\ \A k \in DOMAIN incidents : incidents[k].at \in Int
  /\ \A j, k \in DOMAIN incidents : j # k => incidents[j].id # incidents[k].id

Ours(r) == {k \in DOMAIN generated : generated[k].rule = Rules[r].id}

\* What a plan remembers is what its rule did.
PlansInv ==
  /\ Listed(generated) /\ Len(generated) <= MaxGenerated
  /\ plans \in [RuleIndex -> [occurrences : Nat, nextEligible : Nat]]
  /\ \A k \in DOMAIN generated : generated[k].incident.at \in Nat
  /\ \A r \in RuleIndex :
       /\ Cardinality(Ours(r)) = plans[r].occurrences
       /\ plans[r].occurrences <= Rules[r].maxOccurrences
       /\ \A k \in Ours(r) :
            generated[k].incident.at + Rules[r].cooldown + 1 <= plans[r].nextEligible
       /\ \A j, k \in Ours(r) : j < k =>
            generated[k].incident.at > generated[j].incident.at + Rules[r].cooldown

Tells(e, i) == e.id = <<"incident", i.id>> /\ e.second = i.at
ToldOnce(i) == \E e \in DOMAIN events :
                 {f \in DOMAIN events : Tells(events[f], i)} = {e}
ToldInv ==
  \A k \in DOMAIN incidents :
    Opened(incidents[k].at) => ToldOnce(incidents[k])

SeedInv == LoopInv /\ NamesInv /\ PlansInv /\ ToldInv

LEMMA ListedIs ==
  ASSUME NEW s, Listed(s)
  PROVE  Len(s) \in Nat /\ DOMAIN s = 1..Len(s)
BY DEF Listed

LEMMA SeqIsListed ==
  ASSUME NEW S, NEW s \in Seq(S)
  PROVE  Listed(s)
<1>1. Len(s) \in Nat /\ DOMAIN s = 1..Len(s) /\ s = [k \in 1..Len(s) |-> s[k]]
  OBVIOUS
<1>2. s \in [1..Len(s) -> Range(s)]
  BY <1>1 DEF Range
<1> QED
  BY <1>1, <1>2 DEF Listed

LEMMA JoinedIsListed ==
  ASSUME NEW s, NEW t, Listed(s), Listed(t)
  PROVE  /\ Listed(s \o t) /\ Len(s \o t) = Len(s) + Len(t)
         /\ \A k \in 1..Len(s) : (s \o t)[k] = s[k]
         /\ \A k \in 1..Len(t) : (s \o t)[Len(s) + k] = t[k]
         /\ \A k \in DOMAIN (s \o t) : k \in 1..Len(s) \/ k - Len(s) \in 1..Len(t)
<1>1. s \in Seq(Range(s) \cup Range(t)) /\ t \in Seq(Range(s) \cup Range(t))
  BY DEF Listed
<1>2. s \o t \in Seq(Range(s) \cup Range(t))
  BY <1>1
<1>3. Listed(s \o t)
  BY <1>2, SeqIsListed
<1> QED
  BY <1>1, <1>3

LEMMA AppendedIsListed ==
  ASSUME NEW s, NEW e, Listed(s)
  PROVE  /\ Listed(Append(s, e)) /\ Len(Append(s, e)) = Len(s) + 1
         /\ \A k \in 1..Len(s) : Append(s, e)[k] = s[k]
         /\ Append(s, e)[Len(s) + 1] = e
<1>1. s \in Seq(Range(s) \cup {e}) /\ e \in Range(s) \cup {e}
  BY DEF Listed
<1>2. Append(s, e) \in Seq(Range(s) \cup {e})
  BY <1>1
<1>3. Listed(Append(s, e))
  BY <1>2, SeqIsListed
<1> QED
  BY <1>1, <1>3

Enumerates(order, S) ==
  /\ order \in [1..Cardinality(S) -> S]
  /\ \A j, k \in 1..Cardinality(S) : j < k => order[j] < order[k]

\* Positions up to a last one can be put in order.
LEMMA OrderExists ==
  ASSUME NEW b \in Nat
  PROVE  \A S \in SUBSET (1..b) : \E order : Enumerates(order, S)
<1> DEFINE Without == {n \in Nat : \E S \in SUBSET (1..b) :
                         Cardinality(S) = n /\ ~\E order : Enumerates(order, S)}
<1>0. ASSUME NEW S \in SUBSET (1..b)
      PROVE  IsFiniteSet(S) /\ Cardinality(S) \in Nat
  <2>1. IsFiniteSet(1..b)
    BY FS_Interval
  <2>2. IsFiniteSet(S)
    BY <2>1, FS_Subset
  <2> QED
    BY <2>2, FS_CardinalityType
<1>1. SUFFICES ASSUME Without # {} PROVE FALSE
  BY <1>0
<1>2. PICK n \in Without : \A m \in Without : ~(<<m, n>> \in OpToRel(<, Nat))
  BY <1>1, NatLessThanWellFounded, WFMin
<1>3. n \in Nat /\ \A m \in Without : ~(m < n)
  BY <1>2 DEF OpToRel
<1>4. PICK S \in SUBSET (1..b) : Cardinality(S) = n /\ ~\E order : Enumerates(order, S)
  BY <1>2
<1>5. S # {}
  <2>1. SUFFICES ASSUME S = {} PROVE FALSE
    OBVIOUS
  <2>2. 1..Cardinality(S) = {}
    BY <2>1, FS_EmptySet
  <2>3. [x \in {} |-> x] \in [1..Cardinality(S) -> S]
    BY <2>2
  <2>4. Enumerates([x \in {} |-> x], S)
    BY <2>2, <2>3 DEF Enumerates
  <2> QED
    BY <2>4, <1>4
<1>6. PICK x \in S : \A y \in S : y <= x
  <2>1. S \subseteq Nat /\ \A y \in S : y <= b
    OBVIOUS
  <2> QED
    BY <2>1, <1>5, HasLast
<1> DEFINE R == S \ {x}
<1>7. R \in SUBSET (1..b) /\ Cardinality(R) = n - 1 /\ n - 1 \in Nat
  <2>1. IsFiniteSet(S) /\ R \in SUBSET (1..b)
    BY <1>0
  <2>2. Cardinality(R) = Cardinality(S) - 1
    BY <2>1, <1>6, FS_RemoveElement
  <2>3. Cardinality(R) \in Nat
    BY <2>1, <1>0
  <2> QED
    BY <2>1, <2>2, <2>3, <1>4
<1> HIDE DEF R
<1>8. \E order : Enumerates(order, R)
  <2>1. n - 1 < n
    BY <1>3
  <2> QED
    BY <1>3, <1>7, <2>1
<1>9. PICK order : Enumerates(order, R)
  BY <1>8
<1>10. order \in [1..(n - 1) -> R] /\ \A j, k \in 1..(n - 1) : j < k => order[j] < order[k]
  BY <1>7, <1>9 DEF Enumerates
<1>11. order \in [1..(n - 1) -> S] /\ \A j \in 1..(n - 1) : order[j] < x
  <2>1. \A y \in R : y \in S /\ y < x
    BY <1>6 DEF R
  <2> QED
    BY <1>10, <2>1
<1> DEFINE longer == [k \in 1..n |-> IF k = n THEN x ELSE order[k]]
<1>12. longer \in [1..n -> S]
  BY <1>3, <1>6, <1>11
<1>13. \A j, k \in 1..n : j < k => longer[j] < longer[k]
  BY <1>3, <1>10, <1>11
<1> QED
  BY <1>4, <1>12, <1>13 DEF Enumerates

LEMMA InOrderIs ==
  ASSUME NEW b \in Nat, NEW S \in SUBSET (1..b)
  PROVE  Enumerates(InOrder(S), S) /\ Listed(InOrder(S)) /\ Len(InOrder(S)) = Cardinality(S)
<1>1. PICK order : Enumerates(order, S)
  BY OrderExists
<1>2. Cardinality(S) \in Nat
  <2>1. IsFiniteSet(1..b)
    BY FS_Interval
  <2>2. IsFiniteSet(S)
    BY <2>1, FS_Subset
  <2> QED
    BY <2>2, FS_CardinalityType
<1>3. order \in [1..Cardinality(S) -> S] /\ \A j, k \in DOMAIN order : j < k => order[j] < order[k]
  BY <1>1 DEF Enumerates
<1>4. /\ InOrder(S) \in [1..Cardinality(S) -> S]
      /\ \A j, k \in DOMAIN InOrder(S) : j < k => InOrder(S)[j] < InOrder(S)[k]
  BY <1>3 DEF InOrder
<1>5. Enumerates(InOrder(S), S)
  BY <1>4 DEF Enumerates
<1>6. InOrder(S) \in Seq(S) /\ Len(InOrder(S)) = Cardinality(S)
  BY <1>2, <1>4
<1> QED
  BY <1>5, <1>6, SeqIsListed

\* Every position comes once.
LEMMA InOrderTakesAll ==
  ASSUME NEW b \in Nat, NEW S \in SUBSET (1..b), NEW x \in S
  PROVE  \E k \in 1..Len(InOrder(S)) :
           \A j \in 1..Len(InOrder(S)) : InOrder(S)[j] = x <=> j = k
<1> DEFINE n == Cardinality(S)
           order == InOrder(S)
<1>1. order \in [1..n -> S] /\ Len(order) = n /\ \A j, k \in 1..n : j < k => order[j] < order[k]
  BY InOrderIs DEF Enumerates
<1>2. IsFiniteSet(S) /\ n \in Nat /\ IsFiniteSet(1..n) /\ Cardinality(1..n) = n
  <2>1. IsFiniteSet(1..b)
    BY FS_Interval
  <2>2. IsFiniteSet(S)
    BY <2>1, FS_Subset
  <2>3. n \in Nat
    BY <2>2, FS_CardinalityType
  <2> QED
    BY <2>2, <2>3, FS_Interval
<1> HIDE DEF n, order
<1>3. \A j, k \in 1..n : order[j] = order[k] => j = k
  <2>1. \A j \in 1..n : order[j] \in Int
    <3>1. \A y \in S : y \in Int
      OBVIOUS
    <3> QED
      BY <1>1, <3>1
  <2> QED
    BY <1>1, <1>2, <2>1
<1>4. \E k \in 1..n : order[k] = x
  <2>1. SUFFICES ASSUME \A k \in 1..n : order[k] # x PROVE FALSE
    OBVIOUS
  <2>2. order \in [1..n -> S \ {x}]
    BY <1>1, <2>1
  <2>3. IsFiniteSet(S \ {x}) /\ Cardinality(S \ {x}) = n - 1
    BY <1>2, FS_RemoveElement DEF n
  <2>4. Cardinality(S \ {x}) < Cardinality(1..n)
    BY <1>2, <2>3
  <2> QED
    BY <1>2, <1>3, <2>2, <2>3, <2>4, FS_PigeonHole
<1> QED
  BY <1>1, <1>3, <1>4 DEF order

LEMMA HasFirst ==
  ASSUME NEW S, S \subseteq Nat, S # {}
  PROVE  Min(S) \in S
<1>1. PICK t \in S : \A y \in S : ~(<<y, t>> \in OpToRel(<, Nat))
  BY NatLessThanWellFounded, WFMin
<1>2. \A y \in S : ~(y < t)
  BY <1>1 DEF OpToRel
<1>3. \A y \in S : t <= y
  BY <1>2
<1> QED
  BY <1>3 DEF Min

\* One choice more than there are places takes a place twice.
LEMMA TwoShareAPlace ==
  ASSUME NEW n \in Nat, NEW f \in [1..(n + 1) -> 1..n]
  PROVE  \E x, y \in 1..(n + 1) : x # y /\ f[x] = f[y]
<1>1. 1 \in Int /\ n \in Int /\ n + 1 \in Int /\ n >= 0
  OBVIOUS
<1>2. IsFiniteSet(1..n) /\ Cardinality(1..n) = n
  BY <1>1, FS_Interval
<1>3. IsFiniteSet(1..(n + 1)) /\ Cardinality(1..(n + 1)) = n + 1
  <2> PICK m \in Int : m = n + 1
    BY <1>1
  <2>1. IsFiniteSet(1..m) /\ Cardinality(1..m) = IF 1 > m THEN 0 ELSE m - 1 + 1
    BY <1>1, FS_Interval
  <2> QED
    BY <1>1, <2>1
<1> DEFINE S == 1..(n + 1)
           T == 1..n
<1>4. IsFiniteSet(S) /\ IsFiniteSet(T) /\ Cardinality(T) < Cardinality(S) /\ f \in [S -> T]
  BY <1>1, <1>2, <1>3
<1> HIDE DEF S, T
<1>5. \E x, y \in S : x # y /\ f[x] = f[y]
  BY <1>4, FS_PigeonHole, Zenon
<1> QED
  BY <1>5 DEF S

\* Among one name more than there are incidents, one is free.
LEMMA FreshIsFree ==
  ASSUME NamesInv, NEW rule, NEW occurrence
  PROVE  \A k \in DOMAIN incidents : incidents[k].id # FreshId(rule, occurrence)
<1> DEFINE n == Len(incidents)
           Name(m) == <<"seeded", rule, occurrence, m>>
           free == {m \in 1..(n + 1) : \A k \in DOMAIN incidents : incidents[k].id # Name(m)}
<1>1. n \in Nat /\ DOMAIN incidents = 1..n
  BY ListedIs DEF NamesInv
<1>2. free # {}
  <2>1. SUFFICES ASSUME free = {} PROVE FALSE
    OBVIOUS
  <2>2. \A m \in 1..(n + 1) : \E k \in 1..n : incidents[k].id = Name(m)
    BY <1>1, <2>1
  <2> DEFINE taken == [m \in 1..(n + 1) |-> CHOOSE k \in 1..n : incidents[k].id = Name(m)]
  <2>3. taken \in [1..(n + 1) -> 1..n] /\ \A m \in 1..(n + 1) : incidents[taken[m]].id = Name(m)
    BY <2>2
  <2> HIDE DEF taken
  <2>5. PICK x, y \in 1..(n + 1) : x # y /\ taken[x] = taken[y]
    BY <1>1, <2>3, TwoShareAPlace, Zenon
  <2>6. Name(x) = Name(y)
    BY <2>3, <2>5
  <2>7. Name(x)[4] = Name(y)[4]
    BY <2>6
  <2> QED
    BY <2>5, <2>7
<1>3. Min(free) \in free
  <2>1. free \subseteq Nat
    BY <1>1
  <2> HIDE DEF free
  <2> QED
    BY <1>2, <2>1, HasFirst
<1>4. FreshId(rule, occurrence) = Name(Min(free))
  BY DEF FreshId
<1> HIDE DEF n
<1> QED
  BY <1>3, <1>4

-----------------------------------------------------------------------------
(* What is added to the events.                                            *)

\* The log grows by events of this second that tell no incident.
Adds(old, new) ==
  /\ Listed(new) /\ Len(old) <= Len(new)
  /\ \A k \in 1..Len(old) : new[k] = old[k]
  /\ \A k \in DOMAIN new : k > Len(old) => new[k].second = second /\ ~OfIncident(new[k])

LEMMA EmitAdds ==
  ASSUME NEW old, NEW e, Listed(old), e.second = second, ~OfIncident(e)
  PROVE  Adds(old, Emit(old, e))
<1>1. Len(old) \in Nat /\ DOMAIN old = 1..Len(old)
  BY ListedIs
<1>2. Adds(old, old)
  BY <1>1 DEF Adds
<1>3. Adds(old, Append(old, e))
  <2>1. /\ Listed(Append(old, e)) /\ Len(Append(old, e)) = Len(old) + 1
        /\ \A k \in 1..Len(old) : Append(old, e)[k] = old[k]
        /\ Append(old, e)[Len(old) + 1] = e
    BY AppendedIsListed
  <2>2. DOMAIN Append(old, e) = 1..(Len(old) + 1)
    BY <2>1, ListedIs
  <2>3. \A k \in DOMAIN Append(old, e) : k > Len(old) => k = Len(old) + 1
    BY <1>1, <2>2
  <2> QED
    BY <1>1, <2>1, <2>3 DEF Adds
<1> QED
  BY <1>2, <1>3 DEF Emit

LEMMA AddsTransitive ==
  ASSUME NEW old, NEW mid, NEW new, Listed(old), Adds(old, mid), Adds(mid, new)
  PROVE  Adds(old, new)
<1>1. /\ Len(old) \in Nat /\ Len(mid) \in Nat /\ Len(new) \in Nat
      /\ DOMAIN mid = 1..Len(mid) /\ DOMAIN new = 1..Len(new)
  BY ListedIs DEF Adds
<1>2. ASSUME NEW k \in DOMAIN new, k > Len(old)
      PROVE  new[k].second = second /\ ~OfIncident(new[k])
  <2>1. CASE k <= Len(mid)
    BY <1>1, <1>2, <2>1 DEF Adds
  <2>2. CASE k > Len(mid)
    BY <1>2, <2>2 DEF Adds
  <2> QED
    BY <1>1, <2>1, <2>2
<1> QED
  BY <1>1, <1>2 DEF Adds

\* An event is of its second, and of what its name begins with.
LEMMA EventIs ==
  ASSUME NEW id, NEW severity, NEW about, NEW parents
  PROVE  /\ Event(id, severity, about, parents).second = second
         /\ Event(id, severity, about, parents).id = id
         /\ id[1] # "incident" => ~OfIncident(Event(id, severity, about, parents))
BY DEF Event, OfIncident

LEMMA NodeEventsAdd ==
  ASSUME NEW n, NEW s, NEW utilization, Listed(events)
  PROVE  Adds(events, NodeEvents(n, s, utilization))
<1> DEFINE shed == NextAdmission(n, utilization)
           e1 == Event(<<"load-shedding", n>>, "warning", {n}, IfEmitted(events, <<"saturation", n>>))
           log1 == IF shed = 100 THEN events ELSE Emit(events, e1)
           e2 == Event(<<"autoscale", n, second>>, "info", {n}, LastWith(log1, LAMBDA e : e.severity # "info"))
           log2 == IF ~ScalesUp(n, s, utilization) THEN log1 ELSE Emit(log1, e2)
           e3 == Event(<<"saturation", n>>, "critical", {n},
                   LastWith(log2, LAMBDA e : e.about \cap {n, "cache-failure", "cache-recovery"} # {}))
           log3 == IF utilization <= 100 THEN log2 ELSE Emit(log2, e3)
<1>1. NodeEvents(n, s, utilization) = log3
  BY DEF NodeEvents
<1>2. /\ e1.second = second /\ ~OfIncident(e1)
      /\ e2.second = second /\ ~OfIncident(e2)
      /\ e3.second = second /\ ~OfIncident(e3)
  BY EventIs
<1>3. ASSUME NEW log, Listed(log) PROVE Adds(log, log)
  BY <1>3, ListedIs DEF Adds
<1> HIDE DEF e1, e2, e3
<1>4. Adds(events, log1)
  BY <1>2, <1>3, EmitAdds
<1> HIDE DEF log1
<1>5. Listed(log1)
  BY <1>4 DEF Adds
<1>6. Adds(log1, log2)
  BY <1>2, <1>3, <1>5, EmitAdds
<1> HIDE DEF log2
<1>7. Listed(log2)
  BY <1>6 DEF Adds
<1>8. Adds(log2, log3)
  BY <1>2, <1>3, <1>7, EmitAdds
<1> HIDE DEF log3
<1> QED
  BY <1>1, <1>4, <1>6, <1>8, AddsTransitive

-----------------------------------------------------------------------------
(* The steps of the loop, and what was told.                               *)

\* What was told once stays told once, unless it is told again.
LEMMA ToldStays ==
  ASSUME Listed(events), Listed(events'), Len(events) <= Len(events'),
         \A e \in 1..Len(events) : events'[e] = events[e],
         NEW i, ToldOnce(i),
         \A e \in DOMAIN events' : e > Len(events) => ~Tells(events'[e], i)
  PROVE  ToldOnce(i)'
<1>1. /\ Len(events) \in Nat /\ Len(events') \in Nat
      /\ DOMAIN events = 1..Len(events) /\ DOMAIN events' = 1..Len(events')
  BY ListedIs
<1>2. PICK e \in DOMAIN events : {f \in DOMAIN events : Tells(events[f], i)} = {e}
  BY DEF ToldOnce
<1>3. \A f \in DOMAIN events' : Tells(events'[f], i) <=> f \in DOMAIN events /\ Tells(events[f], i)
  BY <1>1
<1>4. {f \in DOMAIN events' : Tells(events'[f], i)} = {e}
  BY <1>1, <1>2, <1>3
<1>5. e \in DOMAIN events'
  BY <1>4
<1> QED
  BY <1>4, <1>5 DEF ToldOnce, Tells

\* Events that tell nothing leave everything told as it was.
LEMMA AddedStaysTold ==
  ASSUME LoopInv, Adds(events, events'), NEW i, ToldOnce(i)
  PROVE  ToldOnce(i)'
<1>1. \A e \in DOMAIN events' : e > Len(events) => ~Tells(events'[e], i)
  BY DEF Adds, OfIncident, Tells
<1> QED
  BY <1>1, ToldStays DEF LoopInv, Adds

\* No added event is of a later second.
LEMMA AddedAreNow ==
  ASSUME LoopInv, Adds(events, events')
  PROVE  /\ Listed(events')
         /\ \A e \in DOMAIN events' : events'[e].second \in Int /\ events'[e].second <= second
         /\ pc = "interventions" =>
              \A e \in DOMAIN events' : events'[e].second = second => ~OfIncident(events'[e])
<1>1. /\ Len(events) \in Nat /\ Len(events') \in Nat /\ second \in Nat
      /\ DOMAIN events = 1..Len(events) /\ DOMAIN events' = 1..Len(events')
  BY ListedIs DEF LoopInv, Adds
<1>2. ASSUME NEW e \in DOMAIN events'
      PROVE  /\ events'[e].second \in Int /\ events'[e].second <= second
             /\ pc = "interventions" /\ events'[e].second = second => ~OfIncident(events'[e])
  <2>1. CASE e <= Len(events)
    <3>1. e \in DOMAIN events /\ events'[e] = events[e]
      BY <1>1, <1>2, <2>1 DEF Adds
    <3>2. events[e].second \in Int /\ events[e].second <= second
      BY <3>1 DEF LoopInv
    <3>3. pc = "interventions" => events[e].second < second
      BY <3>1 DEF LoopInv
    <3> QED
      BY <1>1, <3>1, <3>2, <3>3
  <2>2. CASE e > Len(events)
    BY <1>1, <2>2 DEF Adds
  <2> QED
    BY <1>1, <2>1, <2>2
<1> QED
  BY <1>2 DEF Adds

\* Past its rules a second is open.
LEMMA OpenOnceTold ==
  ASSUME pc \in {"demand", "nodes"}
  PROVE  Opened(second)
BY DEF Opened

\* The steps of a second after its incidents were told.
LEMMA LaterStep ==
  ASSUME SeedInv, pc \in {"demand", "nodes"}, Adds(events, events'),
         UNCHANGED <<schedule, incidents, generated, plans>>, index' \in Nat \ {0},
         \/ second' = second /\ pc' \in {"demand", "nodes"} /\ frames' = frames
         \/ /\ \/ second' = second /\ pc' = "done"
               \/ second' = second + 1 /\ pc' = "interventions"
            /\ \E frame : frame.second = second /\ frames' = Append(frames, frame)
  PROVE  SeedInv'
<1>0. LoopInv /\ NamesInv /\ PlansInv /\ ToldInv /\ second \in Nat
  BY DEF SeedInv, LoopInv
<1>1. /\ Listed(events')
      /\ \A e \in DOMAIN events' : events'[e].second \in Int /\ events'[e].second <= second
  BY <1>0, AddedAreNow
<1>7. Opened(second) /\ second \in Int
  <2>1. Opened(second)
    BY OpenOnceTold, Zenon
  <2>2. second \in Int
    BY <1>0
  <2> QED
    BY <2>1, <2>2
<1>2. \A s \in Int : Opened(s)' <=> Opened(s)
  BY <1>0 DEF Opened
<1>3. Listed(frames') /\ \A k \in DOMAIN frames' : frames'[k].second \in Int /\ Opened(frames[k].second)'
  <2>1. Listed(frames) /\ \A k \in DOMAIN frames : frames[k].second \in Int /\ Opened(frames[k].second)
    BY <1>0 DEF LoopInv
  <2>2. CASE frames' = frames
    BY <1>2, <2>1, <2>2
  <2>3. ASSUME NEW frame, frame.second = second, frames' = Append(frames, frame)
        PROVE  Listed(frames') /\ \A k \in DOMAIN frames' : frames'[k].second \in Int /\ Opened(frames[k].second)'
    <3>1. /\ Listed(frames') /\ Len(frames') = Len(frames) + 1
          /\ \A k \in 1..Len(frames) : frames'[k] = frames[k]
          /\ frames'[Len(frames) + 1] = frame
      BY <2>1, <2>3, AppendedIsListed
    <3>2. Len(frames) \in Nat /\ DOMAIN frames = 1..Len(frames) /\ DOMAIN frames' = 1..(Len(frames) + 1)
      BY <2>1, <3>1, ListedIs
    <3>4. ASSUME NEW k \in DOMAIN frames'
          PROVE  frames'[k].second \in Int /\ Opened(frames'[k].second)
      <4>1. k \in 1..Len(frames) \/ k = Len(frames) + 1
        BY <3>2
      <4> QED
        BY <1>7, <2>1, <2>3, <3>1, <3>2, <4>1
    <3> QED
      BY <1>2, <3>1, <3>4
  <2> QED
    BY <2>2, <2>3
<1>4. LoopInv'
  <2>1. second' \in Nat /\ second' >= second /\ (pc' = "interventions" => second' = second + 1)
        /\ pc' \in {"interventions", "demand", "nodes", "done"}
    BY <1>0
  <2> QED
    BY <1>0, <1>1, <1>3, <2>1 DEF LoopInv
<1>5. NamesInv' /\ PlansInv'
  BY <1>0 DEF NamesInv, PlansInv, Ours
<1>6. ToldInv'
  <2>1. ASSUME NEW k \in DOMAIN incidents', Opened(incidents[k].at)'
        PROVE  ToldOnce(incidents[k])'
    <3>1. k \in DOMAIN incidents /\ incidents'[k] = incidents[k] /\ incidents[k].at \in Int
      BY <1>0 DEF NamesInv
    <3>2. ToldOnce(incidents[k])
      BY <1>0, <1>2, <2>1, <3>1 DEF ToldInv
    <3>3. ASSUME NEW i, ToldOnce(i) PROVE ToldOnce(i)'
      BY <1>0, <3>3, AddedStaysTold
    <3> QED
      BY <3>1, <3>2, <3>3
  <2> QED
    BY <2>1 DEF ToldInv
<1> QED
  BY <1>4, <1>5, <1>6 DEF SeedInv

LEMMA MadeIsListed ==
  ASSUME NEW n \in Nat, NEW made, made = [k \in 1..n |-> made[k]]
  PROVE  Listed(made) /\ Len(made) = n
<1>1. made \in [1..n -> Range(made)]
  BY DEF Range
<1>2. made \in Seq(Range(made)) /\ Len(made) = n
  BY <1>1
<1> QED
  BY <1>2 DEF Listed

LEMMA JoinedAdds ==
  ASSUME NEW old, NEW told, Listed(old), Listed(told),
         \A k \in DOMAIN told : told[k].second = second /\ ~OfIncident(told[k])
  PROVE  Adds(old, old \o told)
<1>1. /\ Len(old) \in Nat /\ Len(told) \in Nat /\ DOMAIN told = 1..Len(told)
      /\ Listed(old \o told) /\ Len(old \o told) = Len(old) + Len(told)
      /\ \A k \in 1..Len(old) : (old \o told)[k] = old[k]
      /\ \A k \in 1..Len(told) : (old \o told)[Len(old) + k] = told[k]
  BY JoinedIsListed, ListedIs
<1>2. ASSUME NEW k \in DOMAIN (old \o told), k > Len(old)
      PROVE  (old \o told)[k].second = second /\ ~OfIncident((old \o told)[k])
  <2>1. k \in Int /\ k - Len(old) \in 1..Len(told) /\ Len(old) + (k - Len(old)) = k
    BY <1>1, <1>2, ListedIs
  <2>2. (old \o told)[k] = told[k - Len(old)]
    BY <1>1, <2>1
  <2> QED
    BY <1>1, <2>1, <2>2
<1> QED
  BY <1>1, <1>2 DEF Adds

LEMMA InterventionsTellNothing ==
  ASSUME SeedInv, ApplyInterventions
  PROVE  SeedInv'
<1>0. LoopInv /\ NamesInv /\ PlansInv /\ ToldInv /\ second \in Nat
  BY DEF SeedInv, LoopInv
<1> DEFINE S == {k \in DOMAIN schedule : schedule[k].at = second}
           due == InOrder(S)
           Of(k) == Event(<<"intervention", schedule[due[k]].id>>, "info", {schedule[due[k]].node}, <<>>)
           told == [k \in DOMAIN due |-> Of(k)]
<1>1. /\ UNCHANGED <<second, schedule, incidents, generated, plans, frames>>
      /\ pc = "interventions" /\ pc' = "rules" /\ index' = 1 /\ events' = events \o told
  BY Zenon DEF ApplyInterventions
<1>2. Listed(told) /\ DOMAIN told = DOMAIN due
  <2>1. Len(schedule) \in Nat /\ DOMAIN schedule = 1..Len(schedule)
    BY <1>0, ListedIs DEF LoopInv
  <2>2. Listed(due)
    BY <2>1, InOrderIs
  <2>3. Len(due) \in Nat /\ DOMAIN due = 1..Len(due)
    BY <2>2, ListedIs
  <2> HIDE DEF due, Of
  <2>4. told = [k \in 1..Len(due) |-> told[k]] /\ DOMAIN told = DOMAIN due
    BY <2>3
  <2> HIDE DEF told
  <2> QED
    BY <2>3, <2>4, MadeIsListed
<1>3. \A k \in DOMAIN told : told[k].second = second /\ ~OfIncident(told[k])
  <2>1. ASSUME NEW k \in DOMAIN due PROVE Of(k).second = second /\ ~OfIncident(Of(k))
    <3> DEFINE id == <<"intervention", schedule[due[k]].id>>
    <3>1. id[1] # "incident"
      OBVIOUS
    <3> HIDE DEF id
    <3> QED
      BY <3>1, EventIs DEF id
  <2> HIDE DEF due, Of
  <2> QED
    BY <2>1
<1> HIDE DEF told
<1>4. Adds(events, events')
  BY <1>0, <1>1, <1>2, <1>3, JoinedAdds DEF LoopInv
<1>5. /\ Listed(events')
      /\ \A e \in DOMAIN events' : events'[e].second \in Int /\ events'[e].second <= second
      /\ \A e \in DOMAIN events' : events'[e].second = second => ~OfIncident(events'[e])
  BY <1>0, <1>1, <1>4, AddedAreNow
<1>6. \A s : Opened(s)' <=> Opened(s)
  BY <1>1 DEF Opened
<1>7. LoopInv'
  BY <1>0, <1>1, <1>5, <1>6 DEF LoopInv
<1>8. NamesInv' /\ PlansInv'
  BY <1>0, <1>1 DEF NamesInv, PlansInv, Ours
<1>9. ToldInv'
  <2>1. ASSUME NEW i, ToldOnce(i) PROVE ToldOnce(i)'
    BY <1>0, <1>4, <2>1, AddedStaysTold
  <2> QED
    BY <1>0, <1>1, <1>6, <2>1 DEF ToldInv
<1> QED
  BY <1>7, <1>8, <1>9 DEF SeedInv

\* A rule that fires names its incident anew, counts it and sets its own pause;
\* the incident is of this second, which has told none yet.
LEMMA RulesNameAnew ==
  ASSUME SeedInv, NEW hit, NEW struck, TryRule(hit, struck)
  PROVE  SeedInv'
<1>0. LoopInv /\ NamesInv /\ PlansInv /\ ToldInv /\ second \in Nat /\ index \in Nat \ {0}
  BY DEF SeedInv, LoopInv
<1> DEFINE rule == Rules[index]
           occurrence == plans[index].occurrences + 1
           incident == [id |-> FreshId(rule.id, occurrence), at |-> second,
                        kind |-> rule.kind, lasts |-> rule.lasts,
                        magnitude |-> rule.magnitude,
                        target |-> IF rule.correlated THEN NoNode ELSE struck,
                        scope |-> IF rule.correlated THEN rule.eligible ELSE {struck}]
<1>1. /\ UNCHANGED <<second, pc, schedule, events, frames>> /\ pc = "rules"
      /\ index <= Len(Rules) /\ index' = index + 1
      /\ \/ UNCHANGED <<incidents, generated, plans>>
         \/ /\ RuleMayFire(index)
            /\ incidents' = Append(incidents, incident)
            /\ generated' = Append(generated, [rule |-> rule.id, incident |-> incident])
            /\ plans' = [plans EXCEPT ![index] = [occurrences |-> occurrence,
                                                  nextEligible |-> second + rule.cooldown + 1]]
  BY Zenon DEF TryRule
<1>2. incident.id = FreshId(rule.id, occurrence) /\ incident.at = second
  OBVIOUS
<1> HIDE DEF incident
<1>3. \A s : Opened(s)' <=> Opened(s)
  BY <1>1 DEF Opened
<1>4. LoopInv'
  BY <1>0, <1>1, <1>3 DEF LoopInv
<1>5. CASE UNCHANGED <<incidents, generated, plans>>
  <2>1. NamesInv' /\ PlansInv'
    BY <1>0, <1>5 DEF NamesInv, PlansInv, Ours
  <2>2. ToldInv'
    <3>1. incidents' = incidents /\ events' = events
      BY <1>1, <1>5
    <3>2. \A i : ToldOnce(i)' <=> ToldOnce(i)
      BY <3>1 DEF ToldOnce, Tells
    <3> QED
      BY <1>0, <1>3, <3>1, <3>2 DEF ToldInv
  <2> QED
    BY <1>4, <2>1, <2>2 DEF SeedInv
<1>6. CASE /\ RuleMayFire(index)
           /\ incidents' = Append(incidents, incident)
           /\ generated' = Append(generated, [rule |-> rule.id, incident |-> incident])
           /\ plans' = [plans EXCEPT ![index] = [occurrences |-> occurrence,
                                                 nextEligible |-> second + rule.cooldown + 1]]
  <2>1. /\ Len(incidents) \in Nat /\ DOMAIN incidents = 1..Len(incidents)
        /\ Listed(incidents') /\ DOMAIN incidents' = 1..(Len(incidents) + 1)
        /\ \A k \in 1..Len(incidents) : incidents'[k] = incidents[k]
        /\ incidents'[Len(incidents) + 1] = incident
    BY <1>0, <1>6, ListedIs, AppendedIsListed DEF NamesInv
  <2>2. ASSUME NEW k \in DOMAIN incidents'
        PROVE  \/ k \in DOMAIN incidents /\ incidents'[k] = incidents[k]
               \/ k = Len(incidents) + 1 /\ incidents'[k] = incident
    BY <2>1
  <2>3. NamesInv'
    <3>1. \A k \in DOMAIN incidents : incidents[k].id # incident.id
      BY <1>0, <1>2, FreshIsFree
    <3>2. \A k \in DOMAIN incidents' : incidents'[k].at \in Int
      BY <1>0, <1>2, <2>2 DEF NamesInv
    <3>3. \A j, k \in DOMAIN incidents' : j # k => incidents'[j].id # incidents'[k].id
      BY <1>0, <2>2, <3>1 DEF NamesInv
    <3> QED
      BY <2>1, <3>2, <3>3 DEF NamesInv
  <2>4. ToldInv'
    <3>1. ~Opened(incident.at)
      BY <1>0, <1>1, <1>2 DEF Opened
    <3>2. ASSUME NEW k \in DOMAIN incidents', Opened(incidents[k].at)'
          PROVE  ToldOnce(incidents[k])'
      <4>1. k \in DOMAIN incidents /\ incidents'[k] = incidents[k]
        BY <1>3, <2>2, <3>1, <3>2
      <4>2. ToldOnce(incidents[k])
        BY <1>0, <1>3, <3>2, <4>1 DEF ToldInv
      <4>3. ASSUME NEW i, ToldOnce(i) PROVE ToldOnce(i)'
        BY <1>1, <4>3 DEF ToldOnce, Tells
      <4> QED
        BY <4>1, <4>2, <4>3
    <3> QED
      BY <3>2 DEF ToldInv
  <2>5. PlansInv'
    <3> PICK ix : ix = index
      OBVIOUS
    <3> DEFINE new == Len(generated) + 1
               one == [rule |-> rule.id, incident |-> incident]
    <3>1. /\ Len(generated) \in Nat /\ DOMAIN generated = 1..Len(generated)
          /\ Listed(generated') /\ Len(generated') = new /\ DOMAIN generated' = 1..new
          /\ \A k \in 1..Len(generated) : generated'[k] = generated[k]
          /\ generated'[new] = one
      BY <1>0, <1>6, ListedIs, AppendedIsListed DEF PlansInv
    <3>2. one.rule = rule.id /\ one.incident.at = second
      BY <1>2
    <3> HIDE DEF one
    <3>3. ix = index /\ ix \in RuleIndex
      BY <1>0, <1>1, RulesAssumption DEF RuleIndex
    <3>4. rule.maxOccurrences \in Nat /\ rule.cooldown \in Nat
      BY <3>3, RulesAssumption
    <3>5. /\ plans[ix].occurrences \in Nat /\ plans[ix].nextEligible \in Nat
          /\ plans[ix].occurrences < rule.maxOccurrences
          /\ second >= plans[ix].nextEligible /\ Len(generated) < MaxGenerated
      BY <1>0, <1>6, <3>3 DEF PlansInv, RuleMayFire
    <3>6. plans' \in [RuleIndex -> [occurrences : Nat, nextEligible : Nat]]
      <4>1. [occurrences |-> occurrence, nextEligible |-> second + rule.cooldown + 1]
              \in [occurrences : Nat, nextEligible : Nat]
        <5>1. PICK o \in Nat : o = occurrence
          BY <3>3, <3>5
        <5>2. PICK e \in Nat : e = second + rule.cooldown + 1
          BY <1>0, <3>4
        <5>3. [occurrences |-> o, nextEligible |-> e] \in [occurrences : Nat, nextEligible : Nat]
          OBVIOUS
        <5> QED
          BY <5>1, <5>2, <5>3
      <4> QED
        BY <1>0, <1>6, <4>1 DEF PlansInv
    <3>7. Len(generated') <= MaxGenerated
      BY <3>1, <3>5, OrderAssumption
    <3>8. \A k \in DOMAIN generated' : generated'[k].incident.at \in Nat
      BY <1>0, <3>1, <3>2 DEF PlansInv
    <3>9. Ours(ix)' = Ours(ix) \cup {new} /\ new \notin Ours(ix)
      BY <3>1, <3>2 DEF Ours
    <3>10. ASSUME NEW r \in RuleIndex, r # ix
           PROVE  Ours(r)' = Ours(r) /\ plans'[r] = plans[r]
      <4>1. rule.id # Rules[r].id
        BY <3>3, <3>10, RulesAssumption
      <4>2. \A k \in DOMAIN generated' : k \in Ours(r)' <=> k \in Ours(r)
        BY <3>1, <3>2, <4>1 DEF Ours
      <4>3. Ours(r)' = Ours(r)
        BY <3>1, <4>2 DEF Ours
      <4>4. plans'[r] = plans[r]
        BY <1>0, <1>6, <3>10 DEF PlansInv
      <4> QED
        BY <4>3, <4>4
    <3>11. Cardinality(Ours(ix)') = plans'[ix].occurrences
           /\ plans'[ix].occurrences <= rule.maxOccurrences
           /\ plans'[ix].nextEligible = second + rule.cooldown + 1
      <4>1. plans'[ix] = [occurrences |-> occurrence, nextEligible |-> second + rule.cooldown + 1]
        BY <1>0, <1>6, <3>3 DEF PlansInv
      <4>2. IsFiniteSet(Ours(ix))
        <5>1. Ours(ix) \in SUBSET (1..Len(generated))
          BY <3>1 DEF Ours
        <5>2. IsFiniteSet(1..Len(generated))
          BY <3>1, FS_Interval
        <5> QED
          BY <5>1, <5>2, FS_Subset
      <4>3. Cardinality(Ours(ix)') = Cardinality(Ours(ix)) + 1
        BY <3>9, <4>2, FS_AddElement
      <4>4. Cardinality(Ours(ix)) = plans[ix].occurrences
        BY <1>0, <3>3 DEF PlansInv
      <4> QED
        BY <3>4, <3>5, <4>1, <4>3, <4>4
    <3>12. ASSUME NEW k \in Ours(ix)
           PROVE  /\ k \in 1..Len(generated) /\ generated'[k] = generated[k]
                  /\ generated[k].incident.at \in Nat
                  /\ generated[k].incident.at + rule.cooldown + 1 <= second
      <4>1. generated[k].incident.at + rule.cooldown + 1 <= plans[ix].nextEligible
        BY <1>0, <3>3 DEF PlansInv
      <4>2. k \in 1..Len(generated) /\ generated[k].incident.at \in Nat
        BY <1>0, <3>1 DEF PlansInv, Ours
      <4> QED
        BY <1>0, <3>1, <3>4, <3>5, <4>1, <4>2
    <3>13. \A k \in Ours(ix)' :
             generated'[k].incident.at + rule.cooldown + 1 <= plans'[ix].nextEligible
      <4> SUFFICES ASSUME NEW k \in Ours(ix)'
                   PROVE  generated'[k].incident.at + rule.cooldown + 1 <= plans'[ix].nextEligible
        OBVIOUS
      <4>1. k \in Ours(ix) \/ k = new
        BY <3>9
      <4>2. PICK c \in Nat : c = rule.cooldown
        BY <3>4
      <4>3. PICK at : at = generated'[k].incident.at
        OBVIOUS
      <4>4. at \in Nat /\ at <= second
        <5>1. CASE k \in Ours(ix)
          BY <1>0, <3>12, <4>2, <4>3, <5>1
        <5>2. CASE k = new
          BY <1>0, <3>1, <3>2, <4>3, <5>2
        <5> QED
          BY <4>1, <5>1, <5>2
      <4>5. at + c + 1 <= second + c + 1
        BY <1>0, <4>2, <4>4
      <4> QED
        BY <3>11, <4>2, <4>3, <4>5
    <3>14. ASSUME NEW j \in Ours(ix)', NEW k \in Ours(ix)', j < k
           PROVE  generated'[k].incident.at > generated'[j].incident.at + rule.cooldown
      <4>1. j \in Ours(ix)
        BY <3>1, <3>9, <3>12, <3>14
      <4>2. CASE k \in Ours(ix)
        BY <1>0, <3>3, <3>12, <3>14, <4>1, <4>2 DEF PlansInv
      <4>3. CASE k = new
        BY <1>0, <3>1, <3>2, <3>4, <3>12, <4>1, <4>3
      <4> QED
        BY <3>9, <4>2, <4>3
    <3>15. ASSUME NEW r \in RuleIndex
           PROVE  (/\ Cardinality(Ours(r)) = plans[r].occurrences
                   /\ plans[r].occurrences <= Rules[r].maxOccurrences
                   /\ \A k \in Ours(r) :
                        generated[k].incident.at + Rules[r].cooldown + 1 <= plans[r].nextEligible
                   /\ \A j, k \in Ours(r) : j < k =>
                        generated[k].incident.at > generated[j].incident.at + Rules[r].cooldown)'
      <4>1. CASE r = ix
        BY <3>11, <3>13, <3>14, <4>1
      <4>2. CASE r # ix
        <5>1. \A k \in Ours(r) : generated'[k] = generated[k]
          BY <3>1 DEF Ours
        <5> QED
          BY <1>0, <3>10, <4>2, <5>1 DEF PlansInv
      <4> QED
        BY <4>1, <4>2
    <3> QED
      BY <3>1, <3>6, <3>7, <3>8, <3>15 DEF PlansInv
  <2> QED
    BY <1>4, <2>3, <2>4, <2>5 DEF SeedInv
<1> QED
  BY <1>1, <1>5, <1>6

\* The incidents of the second are told, each once.
LEMMA OpeningTellsThem ==
  ASSUME SeedInv, OpenSecond
  PROVE  SeedInv'
<1>0. LoopInv /\ NamesInv /\ PlansInv /\ ToldInv /\ second \in Nat /\ index \in Nat \ {0}
  BY DEF SeedInv, LoopInv
<1> DEFINE S == {k \in DOMAIN incidents : incidents[k].at = second}
           begun == InOrder(S)
           Of(k) == LET i == incidents[begun[k]]
                    IN Event(<<"incident", i.id>>,
                             IF i.kind \in Recovery THEN "info" ELSE "warning",
                             {i.target, i.kind}, <<>>)
           told == [k \in DOMAIN begun |-> Of(k)]
<1>1. /\ UNCHANGED <<second, index, schedule, incidents, generated, plans, frames>>
      /\ pc = "rules" /\ pc' = "demand" /\ events' = events \o told
  BY Zenon DEF OpenSecond
<1> DEFINE n == Len(incidents)
           m == Len(begun)
<1>2. n \in Nat /\ DOMAIN incidents = 1..n /\ S \in SUBSET (1..n)
  BY <1>0, ListedIs DEF NamesInv
<1>3. Listed(begun) /\ m \in Nat /\ DOMAIN begun = 1..m
  <2> HIDE DEF S
  <2>1. Listed(begun)
    BY <1>2, InOrderIs
  <2> QED
    BY <2>1, ListedIs
<1>4. \A k \in 1..m : begun[k] \in S
  <2>1. Enumerates(begun, S) /\ m = Cardinality(S)
    BY <1>2, InOrderIs
  <2> HIDE DEF begun, S
  <2> QED
    BY <2>1 DEF Enumerates
<1>5. \A k \in 1..m : told[k].id = <<"incident", incidents[begun[k]].id>> /\ told[k].second = second
  <2>1. ASSUME NEW k \in 1..m
        PROVE  Of(k).id = <<"incident", incidents[begun[k]].id>> /\ Of(k).second = second
    BY Zenon DEF Event
  <2> HIDE DEF Of, begun
  <2> QED
    BY <1>3, <2>1
<1>6. Listed(told) /\ Len(told) = m
  <2> HIDE DEF Of, begun
  <2>1. told = [k \in 1..m |-> told[k]]
    BY <1>3
  <2> HIDE DEF told
  <2> QED
    BY <1>3, <2>1, MadeIsListed
<1>7. \A x \in S : \E k \in 1..m : \A j \in 1..m : begun[j] = x <=> j = k
  BY <1>2, InOrderTakesAll
<1> HIDE DEF told, Of, begun, m, n
<1>8. /\ Listed(events) /\ Len(events) \in Nat /\ DOMAIN events = 1..Len(events)
      /\ Listed(events') /\ Len(events') = Len(events) + m
      /\ DOMAIN events' = 1..(Len(events) + m)
      /\ \A e \in 1..Len(events) : events'[e] = events[e]
      /\ \A k \in 1..m : events'[Len(events) + k] = told[k]
  <2>1. Listed(events)
    BY <1>0 DEF LoopInv
  <2>2. Len(events) \in Nat /\ DOMAIN events = 1..Len(events)
    BY <2>1, ListedIs
  <2>3. /\ Listed(events') /\ Len(events') = Len(events) + m
        /\ \A e \in 1..Len(events) : events'[e] = events[e]
        /\ \A k \in 1..m : events'[Len(events) + k] = told[k]
    BY <1>1, <1>6, <2>1, JoinedIsListed
  <2>4. DOMAIN events' = 1..(Len(events) + m)
    BY <2>3, ListedIs
  <2> QED
    BY <2>1, <2>2, <2>3, <2>4
<1>9. ASSUME NEW e \in DOMAIN events'
      PROVE  \/ e \in DOMAIN events /\ events'[e] = events[e]
             \/ /\ e > Len(events) /\ e - Len(events) \in 1..m
                /\ events'[e] = told[e - Len(events)]
  <2>1. e > Len(events) => e - Len(events) \in 1..m /\ Len(events) + (e - Len(events)) = e
    BY <1>3, <1>8
  <2> QED
    BY <1>3, <1>8, <2>1
<1>10. \A s : Opened(s)' <=> Opened(s) \/ s = second
  BY <1>1 DEF Opened
<1>11. LoopInv'
  <2>1. \A e \in DOMAIN events' : events'[e].second \in Int /\ events'[e].second <= second
    BY <1>0, <1>5, <1>9 DEF LoopInv
  <2> QED
    BY <1>0, <1>1, <1>8, <1>10, <2>1 DEF LoopInv
<1>12. NamesInv' /\ PlansInv'
  BY <1>0, <1>1 DEF NamesInv, PlansInv, Ours
<1>13. ASSUME NEW i, i.at # second, ToldOnce(i)
       PROVE  ToldOnce(i)'
  <2>1. \A e \in DOMAIN events' : e > Len(events) => ~Tells(events'[e], i)
    BY <1>5, <1>8, <1>9, <1>13 DEF Tells
  <2>2. Len(events) <= Len(events')
    BY <1>3, <1>8
  <2> QED
    BY <1>8, <1>13, <2>1, <2>2, ToldStays
<1>14. ASSUME NEW x \in S
       PROVE  ToldOnce(incidents[x])'
  <2>1. PICK k \in 1..m : \A j \in 1..m : begun[j] = x <=> j = k
    BY <1>7
  <2> DEFINE i == incidents[x]
             e == Len(events) + k
  <2>2. i.at = second /\ x \in DOMAIN incidents
    OBVIOUS
  <2>3. \A f \in DOMAIN events : ~Tells(events[f], i)
    <3>1. ASSUME NEW f \in DOMAIN events, Tells(events[f], i) PROVE FALSE
      <4>1. events[f].second = second /\ events[f].id = <<"incident", i.id>>
        BY <2>2, <3>1 DEF Tells
      <4>2. OfIncident(events[f])
        BY <4>1 DEF OfIncident
      <4> QED
        BY <1>0, <1>1, <4>1, <4>2 DEF LoopInv
    <3> QED
      BY <3>1
  <2>4. \A j \in 1..m : Tells(told[j], i) <=> j = k
    <3>1. ASSUME NEW j \in 1..m PROVE Tells(told[j], i) <=> begun[j] = x
      <4>1. begun[j] \in DOMAIN incidents
        BY <1>4
      <4>2. incidents[begun[j]].id = i.id <=> begun[j] = x
        BY <1>0, <2>2, <4>1 DEF NamesInv
      <4>3. <<"incident", incidents[begun[j]].id>> = <<"incident", i.id>> <=> incidents[begun[j]].id = i.id
        OBVIOUS
      <4> QED
        BY <1>5, <2>2, <4>2, <4>3 DEF Tells
    <3> QED
      BY <2>1, <3>1
  <2> HIDE DEF i
  <2>5. e \in DOMAIN events' /\ Tells(events'[e], i)
    <3>1. e \in 1..(Len(events) + m) /\ events'[e] = told[k]
      BY <1>3, <1>8
    <3> QED
      BY <1>8, <2>4, <3>1
  <2>6. ASSUME NEW f \in DOMAIN events', Tells(events'[f], i) PROVE f = e
    <3>1. f > Len(events) /\ f - Len(events) \in 1..m /\ events'[f] = told[f - Len(events)]
      BY <1>9, <2>3, <2>6
    <3>2. f - Len(events) = k
      BY <2>4, <2>6, <3>1
    <3>3. f \in Int
      BY <1>3, <1>8
    <3> QED
      BY <1>8, <3>2, <3>3
  <2>7. {f \in DOMAIN events' : Tells(events'[f], i)} = {e}
    BY <2>5, <2>6
  <2>8. incidents' = incidents
    BY <1>1
  <2> QED
    BY <2>5, <2>7, <2>8 DEF ToldOnce, Tells, i
<1>15. ToldInv'
  <2>1. ASSUME NEW k \in DOMAIN incidents', Opened(incidents[k].at)'
        PROVE  ToldOnce(incidents[k])'
    <3>1. incidents' = incidents /\ k \in DOMAIN incidents
      BY <1>1
    <3>2. CASE incidents[k].at = second
      BY <3>1, <3>2, <1>14
    <3>3. CASE incidents[k].at # second
      <4>1. Opened(incidents[k].at)
        BY <1>10, <2>1, <3>1, <3>3
      <4>2. ToldOnce(incidents[k])
        BY <1>0, <3>1, <4>1 DEF ToldInv
      <4> QED
        BY <1>13, <3>1, <3>3, <4>2
    <3> QED
      BY <3>2, <3>3
  <2> QED
    BY <2>1 DEF ToldInv
<1> QED
  BY <1>11, <1>12, <1>15 DEF SeedInv

LEMMA SpreadTellsNothing ==
  ASSUME SeedInv, NEW arrivals, Spread(arrivals)
  PROVE  SeedInv'
<1>1. /\ UNCHANGED <<second, schedule, incidents, generated, plans, events, frames>>
      /\ pc = "demand" /\ pc' = "nodes" /\ index' = 1
  BY Zenon DEF Spread
<1>2. Listed(events)
  BY DEF SeedInv, LoopInv
<1>3. Adds(events, events')
  BY <1>1, <1>2, ListedIs DEF Adds
<1> QED
  BY <1>1, <1>3, LaterStep

LEMMA NodeTellsNothing ==
  ASSUME SeedInv, RunNode
  PROVE  SeedInv'
<1>1. /\ UNCHANGED <<second, pc, schedule, incidents, generated, plans, frames>>
      /\ pc = "nodes" /\ index' = index + 1
      /\ \E n, s, utilization : events' = NodeEvents(n, s, utilization)
  BY Zenon DEF RunNode
<1>2. Listed(events) /\ index \in Nat \ {0}
  BY DEF SeedInv, LoopInv
<1>3. Adds(events, events')
  BY <1>1, <1>2, NodeEventsAdd
<1>4. index' \in Nat \ {0}
  BY <1>1, <1>2
<1> QED
  BY <1>1, <1>3, <1>4, LaterStep

LEMMA ClosingTellsNothing ==
  ASSUME SeedInv, CloseSecond
  PROVE  SeedInv'
<1> DEFINE errorRate == 100 - Success[Entry]
           amplification == 100 + RetryPressure(errorRate)
           depth == MapThenSumSet(LAMBDA n : metric[n].depth, Node)
           age == Max({metric[n].age : n \in Node})
           e1 == Event(<<"retry-amplification">>, "critical", {Entry},
                       LastWith(events, LAMBDA e : e.severity = "critical"))
           log == IF amplification <= 120 THEN events ELSE Emit(events, e1)
           queueKinds == {"queue-consumer-slowdown", "partition-imbalance", "network-partition"}
           e2 == Event(<<"queue-backlog-growth">>, "warning", {Entry},
                       LastWith(log, LAMBDA e : e.about \cap queueKinds # {}))
           last == IF depth = 0 \/ age <= 1 THEN log ELSE Emit(log, e2)
           frame == [second |-> second, rps |-> demand[Entry], errorRate |-> errorRate,
                     retry |-> amplification, depth |-> depth, age |-> age,
                     recovery |-> Max({0} \cup UNION {RecoveryOf(n) : n \in Node}),
                     nodes |-> metric]
<1>1. /\ UNCHANGED <<index, schedule, incidents, generated, plans>> /\ pc = "nodes"
      /\ events' = last /\ frames' = Append(frames, frame)
      /\ \/ pc' = "done" /\ second' = second
         \/ pc' = "interventions" /\ second' = second + 1
  BY Zenon DEF CloseSecond
<1>2. frame.second = second
  OBVIOUS
<1>3. e1.second = second /\ ~OfIncident(e1) /\ e2.second = second /\ ~OfIncident(e2)
  BY EventIs
<1>4. Listed(events) /\ index \in Nat \ {0}
  BY DEF SeedInv, LoopInv
<1> HIDE DEF frame, e1, e2, depth, age, amplification
<1>5. ASSUME NEW l, Listed(l) PROVE Adds(l, l)
  BY <1>5, ListedIs DEF Adds
<1>6. Adds(events, log)
  BY <1>3, <1>4, <1>5, EmitAdds
<1> HIDE DEF log
<1>7. Listed(log)
  BY <1>6 DEF Adds
<1>8. Adds(log, last)
  BY <1>3, <1>5, <1>7, EmitAdds
<1> HIDE DEF last
<1>9. Adds(events, events')
  BY <1>1, <1>4, <1>6, <1>8, AddsTransitive
<1>10. \E f : f.second = second /\ frames' = Append(frames, f)
  BY <1>1, <1>2
<1>11. /\ UNCHANGED <<schedule, incidents, generated, plans>> /\ index' \in Nat \ {0}
       /\ \/ second' = second /\ pc' = "done"
          \/ second' = second + 1 /\ pc' = "interventions"
       /\ pc \in {"demand", "nodes"}
  BY <1>1, <1>4
<1> QED
  BY <1>9, <1>10, <1>11, LaterStep

LEMMA SeedStep == SeedInv /\ [Next]_vars => SeedInv'
<1> SUFFICES ASSUME SeedInv, [Next]_vars PROVE SeedInv'
  OBVIOUS
<1>1. CASE Finished \/ UNCHANGED vars
  <2>1. UNCHANGED <<second, pc, index, schedule, incidents, generated, plans, events, frames>>
    BY <1>1 DEF Finished, vars, runVars
  <2>2. \A s : Opened(s)' <=> Opened(s)
    BY <2>1 DEF Opened
  <2>3. LoopInv' /\ NamesInv' /\ PlansInv'
    BY <2>1, <2>2 DEF SeedInv, LoopInv, NamesInv, PlansInv, Ours
  <2>4. \A i : ToldOnce(i)' <=> ToldOnce(i)
    BY <2>1 DEF ToldOnce, Tells
  <2>5. ToldInv'
    BY <2>1, <2>2, <2>4 DEF SeedInv, ToldInv
  <2> QED
    BY <2>3, <2>5 DEF SeedInv
<1> QED
  BY <1>1, InterventionsTellNothing, RulesNameAnew, OpeningTellsThem, SpreadTellsNothing,
     NodeTellsNothing, ClosingTellsNothing DEF Next

\* A name that is not among the earlier ones differs from each of them.
LEMMA JoinedNames ==
  ASSUME NEW s, NEW t, Listed(s), Listed(t),
         \A j, k \in DOMAIN s : j # k => s[j].id # s[k].id,
         \A k \in DOMAIN t : t[k].id \notin {i.id : i \in Range(s \o SubSeq(t, 1, k - 1))}
  PROVE  \A j, k \in DOMAIN (s \o t) : j < k => (s \o t)[j].id # (s \o t)[k].id
<1> DEFINE all == s \o t
<1>1. /\ Len(s) \in Nat /\ DOMAIN s = 1..Len(s) /\ Len(t) \in Nat /\ DOMAIN t = 1..Len(t)
      /\ \A k \in 1..Len(s) : all[k] = s[k]
      /\ \A k \in 1..Len(t) : all[Len(s) + k] = t[k]
      /\ Listed(all) /\ Len(all) = Len(s) + Len(t)
  BY JoinedIsListed, ListedIs
<1>2. DOMAIN all = 1..(Len(s) + Len(t))
  BY <1>1, ListedIs
<1> HIDE DEF all
<1>3. ASSUME NEW j \in DOMAIN all, NEW k \in DOMAIN all, j < k
      PROVE  all[j].id # all[k].id
  <2>1. CASE k <= Len(s)
    <3>1. j \in DOMAIN s /\ k \in DOMAIN s /\ j # k
      BY <1>1, <1>2, <1>3, <2>1
    <3>2. all[j] = s[j] /\ all[k] = s[k]
      BY <1>1, <3>1
    <3> QED
      BY <3>1, <3>2
  <2>2. CASE k > Len(s)
    <3> DEFINE l == k - Len(s)
               front == SubSeq(t, 1, l - 1)
               before == s \o front
    <3>1. l \in 1..Len(t) /\ Len(s) + l = k /\ l - 1 \in 0..Len(t)
      BY <1>1, <1>2, <1>3, <2>2
    <3>2. all[k] = t[l]
      BY <1>1, <3>1
    <3> HIDE DEF l
    <3>3. all[k].id \notin {i.id : i \in Range(before)}
      BY <1>1, <3>1, <3>2
    <3>4. front \in Seq(Range(t)) /\ Len(front) = l - 1 /\ \A x \in 1..(l - 1) : front[x] = t[x]
      BY <1>1, <3>1 DEF Listed
    <3>5. Listed(front)
      BY <3>4, SeqIsListed
    <3> HIDE DEF front
    <3>6. /\ \A x \in 1..Len(s) : before[x] = s[x]
          /\ \A x \in 1..Len(front) : before[Len(s) + x] = front[x]
          /\ Listed(before) /\ Len(before) = Len(s) + Len(front)
      BY <3>5, JoinedIsListed
    <3>7. DOMAIN before = 1..(Len(s) + (l - 1))
      BY <3>4, <3>6, ListedIs
    <3>8. j \in DOMAIN before /\ j \in Int
      BY <1>1, <1>2, <1>3, <3>1, <3>7
    <3>9. before[j] = all[j]
      <4>1. CASE j \in 1..Len(s)
        BY <1>1, <3>6, <4>1
      <4>2. CASE j \notin 1..Len(s)
        <5> DEFINE x == j - Len(s)
        <5>1. x \in 1..(l - 1) /\ x \in 1..Len(t) /\ Len(s) + x = j
          BY <1>1, <3>1, <3>7, <3>8, <4>2
        <5> HIDE DEF x
        <5>2. before[j] = t[x] /\ all[j] = t[x]
          BY <1>1, <3>4, <3>6, <5>1
        <5> QED
          BY <5>2
      <4> QED
        BY <4>1, <4>2
    <3>10. all[j] \in Range(before)
      BY <3>8, <3>9 DEF Range
    <3> QED
      BY <3>3, <3>10
  <2> QED
    BY <1>1, <1>2, <2>1, <2>2
<1> QED
  BY <1>3 DEF all

LEMMA SeedStarts == Init => SeedInv
<1> SUFFICES ASSUME Init PROVE SeedInv
  OBVIOUS
<1>1. PICK input \in Inputs : StartRun(input)
  BY DEF Init
<1>2. second = 0 /\ pc = "interventions" /\ index = 1
  BY DEF Init, StartLoop
<1>3. /\ schedule = input.actions /\ incidents = input.scripted \o input.injected
      /\ plans = [r \in RuleIndex |-> [occurrences |-> 0, nextEligible |-> 0]]
      /\ generated = <<>> /\ events = <<>> /\ frames = <<>>
      /\ \A k \in DOMAIN input.injected :
           input.injected[k].id \notin
             {i.id : i \in Range(input.scripted \o SubSeq(input.injected, 1, k - 1))}
  BY <1>1, Zenon DEF StartRun
<1> DEFINE theirs == Range(input.scripted) \cup Range(input.injected)
<1>4. /\ input.scripted \in Seq(theirs) /\ input.injected \in Seq(theirs)
      /\ \A i \in theirs : i.at \in Nat
      /\ Listed(input.actions)
      /\ \A j, k \in DOMAIN input.scripted :
           j # k => input.scripted[j].id # input.scripted[k].id
  BY InputsAssumption DEF Listed
<1>5. Listed(<<>>)
  BY DEF Listed
<1>6. LoopInv
  BY <1>2, <1>3, <1>4, <1>5 DEF LoopInv
<1>7. Listed(input.scripted) /\ Listed(input.injected)
  BY <1>4, SeqIsListed
<1>8. Listed(incidents) /\ DOMAIN incidents = 1..Len(incidents) /\ Len(incidents) \in Nat
  BY <1>3, <1>7, JoinedIsListed, ListedIs
<1>9. \A j, k \in DOMAIN incidents : j < k => incidents[j].id # incidents[k].id
  <2> DEFINE s == input.scripted
             t == input.injected
  <2>1. /\ Listed(s) /\ Listed(t) /\ incidents = s \o t
        /\ \A j, k \in DOMAIN s : j # k => s[j].id # s[k].id
        /\ \A k \in DOMAIN t : t[k].id \notin {i.id : i \in Range(s \o SubSeq(t, 1, k - 1))}
    BY <1>3, <1>4, <1>7, Zenon
  <2> HIDE DEF s, t
  <2>2. \A j, k \in DOMAIN (s \o t) : j < k => (s \o t)[j].id # (s \o t)[k].id
    BY <2>1, JoinedNames, Zenon
  <2> QED
    BY <2>1, <2>2, Zenon
<1>10. \A k \in DOMAIN incidents : incidents[k].at \in Nat
  <2>1. incidents \in Seq(theirs)
    BY <1>3, <1>4
  <2> HIDE DEF theirs
  <2> QED
    BY <1>4, <2>1
<1>12. NamesInv
  <2>1. \A j, k \in DOMAIN incidents : j # k => j < k \/ k < j
    BY <1>8
  <2>2. \A j, k \in DOMAIN incidents : j # k => incidents[j].id # incidents[k].id
    BY <1>9, <2>1
  <2>3. \A k \in DOMAIN incidents : incidents[k].at \in Int
    BY <1>10
  <2> QED
    BY <1>8, <2>2, <2>3 DEF NamesInv
<1>13. PlansInv
  <2>1. \A r \in RuleIndex : Ours(r) = {}
    BY <1>3 DEF Ours
  <2>2. plans \in [RuleIndex -> [occurrences : Nat, nextEligible : Nat]]
    BY <1>3
  <2>3. \A r \in RuleIndex : plans[r].occurrences = 0 /\ Rules[r].maxOccurrences \in Nat
    BY <1>3, RulesAssumption
  <2>4. Cardinality({}) = 0
    BY FS_EmptySet
  <2>5. Listed(generated) /\ Len(generated) <= MaxGenerated /\ DOMAIN generated = {}
    BY <1>3, <1>5, OrderAssumption
  <2>6. ASSUME NEW r \in RuleIndex
        PROVE  /\ Cardinality(Ours(r)) = plans[r].occurrences
               /\ plans[r].occurrences <= Rules[r].maxOccurrences
    <3>1. Ours(r) = {}
      BY <2>1, Zenon
    <3>2. Cardinality(Ours(r)) = 0
      BY <3>1, <2>4, Zenon
    <3>3. plans[r].occurrences = 0 /\ Rules[r].maxOccurrences \in Nat
      BY <2>3, Zenon
    <3>4. plans[r].occurrences <= Rules[r].maxOccurrences
      BY <3>3
    <3> QED
      BY <3>2, <3>3, <3>4, Zenon
  <2>7. \A k \in DOMAIN generated : generated[k].incident.at \in Nat
    BY <2>5, Zenon
  <2>8. \A r \in RuleIndex :
          /\ \A k \in Ours(r) :
               generated[k].incident.at + Rules[r].cooldown + 1 <= plans[r].nextEligible
          /\ \A j, k \in Ours(r) : j < k =>
               generated[k].incident.at > generated[j].incident.at + Rules[r].cooldown
    BY <2>1, Zenon
  <2> QED
    BY <2>2, <2>5, <2>6, <2>7, <2>8, Zenon DEF PlansInv
<1>14. ToldInv
  BY <1>2, <1>10 DEF ToldInv, Opened
<1> QED
  BY <1>6, <1>12, <1>13, <1>14 DEF SeedInv

\* What the seeded model does in a run, for every scenario, set of rules and
\* random draw: a generated incident takes no name that any other has, rules keep to
\* their occurrences and pauses, and every incident of a second that is past
\* was told exactly once, in that second (simulate.ts, generatedIncidentId).
THEOREM EngineTellsSeeded == Spec => []SeededIncidentsAreTold
<1>1. ASSUME SeedInv PROVE SeededIncidentsAreTold
  <2>1. LoopInv /\ NamesInv /\ PlansInv /\ ToldInv
    BY <1>1 DEF SeedInv
  <2>2. ASSUME NEW k \in DOMAIN frames, NEW i \in DOMAIN incidents,
               incidents[i].at = frames[k].second
        PROVE  Cardinality({e \in DOMAIN events :
                  /\ events[e].id = <<"incident", incidents[i].id>>
                  /\ events[e].second = frames[k].second}) = 1
    <3>1. ToldOnce(incidents[i])
      BY <2>1, <2>2 DEF LoopInv, ToldInv
    <3>2. PICK e : {f \in DOMAIN events : Tells(events[f], incidents[i])} = {e}
      BY <3>1 DEF ToldOnce
    <3>3. {f \in DOMAIN events : /\ events[f].id = <<"incident", incidents[i].id>>
                                 /\ events[f].second = frames[k].second} = {e}
      BY <2>2, <3>2 DEF Tells
    <3> QED
      BY <3>3, FS_Singleton
  <2>3. \A r \in RuleIndex : Cardinality(Ours(r)) <= Rules[r].maxOccurrences
    BY <2>1 DEF PlansInv
  <2> QED
    BY <2>1, <2>2, <2>3 DEF SeededIncidentsAreTold, NamesInv, PlansInv, Ours
<1> QED
  BY <1>1, SeedStarts, SeedStep, PTL DEF Spec

-----------------------------------------------------------------------------
(* The solver: among the contenders that burden least (latency, cost and   *)
(* complexity together), one of the fittest is beaten by none.             *)

\* Only metrics are ever recorded.
Measures == measured \in Seq(Metrics)

\* A function into the naturals has a least value on a set that is not empty.
LEMMA LeastExists ==
  ASSUME NEW S, S # {}, NEW f \in [S -> Nat]
  PROVE  \E x \in S : \A y \in S : f[x] <= f[y]
<1> DEFINE T == {f[x] : x \in S}
<1>1. T \subseteq Nat /\ T # {}
  OBVIOUS
<1>2. PICK t \in T : \A u \in T : ~(<<u, t>> \in OpToRel(<, Nat))
  BY <1>1, NatLessThanWellFounded, WFMin
<1>3. \A u \in T : ~(u < t)
  BY <1>1, <1>2 DEF OpToRel
<1>4. PICK x \in S : t = f[x]
  BY <1>2
<1>5. \A y \in S : f[x] <= f[y]
  BY <1>3, <1>4
<1> QED
  BY <1>5

Burden(m)  == m.latency + m.cost + m.complexity
Unfit(m)   == 2 * Full - m.requirements - m.resilience

LEMMA MeasuresAreNatural ==
  ASSUME NEW m \in Metrics
  PROVE  /\ Burden(m) \in Nat /\ Unfit(m) \in Nat
         /\ m.requirements \in Nat /\ m.resilience \in Nat
         /\ m.latency \in Nat /\ m.cost \in Nat /\ m.complexity \in Nat
<1>1. m \in [requirements : 0..Full, resilience : 0..Full, latency : Nat, cost : Nat,
             complexity : Nat, passed : Nat]
  BY MetricsAssumption
<1> QED
  BY <1>1, ToleranceAssumption DEF Burden, Unfit

\* Whatever dominates burdens no more, and if it burdens as much, it is fitter:
\* it gains more than the tolerance on one side and loses no more on the other.
LEMMA DominatorIsAhead ==
  ASSUME NEW a \in Metrics, NEW b \in Metrics, Dominates(a, b)
  PROVE  /\ Burden(a) <= Burden(b)
         /\ Burden(a) = Burden(b) => Unfit(a) < Unfit(b)
<1>1. /\ a.requirements \in Nat /\ a.resilience \in Nat
      /\ a.latency \in Nat /\ a.cost \in Nat /\ a.complexity \in Nat
  BY MeasuresAreNatural
<1>2. /\ b.requirements \in Nat /\ b.resilience \in Nat
      /\ b.latency \in Nat /\ b.cost \in Nat /\ b.complexity \in Nat
  BY MeasuresAreNatural
<1>3. NoWorse(a, b) /\ StrictlyBetter(a, b)
  BY DEF Dominates
<1> DEFINE x == a.latency  y == a.cost  z == a.complexity
           u == b.latency  v == b.cost  w == b.complexity
<1>6. x <= u /\ y <= v /\ z <= w
  BY <1>3 DEF NoWorse
<1>4. Burden(a) <= Burden(b)
  BY <1>1, <1>2, <1>6 DEF Burden
<1>5. ASSUME Burden(a) = Burden(b) PROVE Unfit(a) < Unfit(b)
  <2>1. a.latency = b.latency /\ a.cost = b.cost /\ a.complexity = b.complexity
    <3>1. x + y + z = u + v + w
      BY <1>5 DEF Burden
    <3>2. /\ x \in Nat /\ y \in Nat /\ z \in Nat
          /\ u \in Nat /\ v \in Nat /\ w \in Nat
      BY <1>1, <1>2
    <3> HIDE DEF x, y, z, u, v, w
    <3>3. x = u /\ y = v /\ z = w
      BY <1>6, <3>1, <3>2
    <3> QED
      BY <3>3 DEF x, y, z, u, v, w
  <2>2. \/ a.requirements > b.requirements + Tolerance
        \/ a.resilience > b.resilience + Tolerance
    BY <1>1, <1>2, <1>3, <2>1 DEF StrictlyBetter
  <2> QED
    BY <1>1, <1>2, <1>3, <2>2, ToleranceAssumption DEF NoWorse, Unfit
<1> QED
  BY <1>4, <1>5

\* For every list of measurements and whatever the limits are.
LEMMA FrontierExists ==
  ASSUME Measures, Contenders # {}
  PROVE  Frontier # {}
<1>1. \A k \in Contenders : measured[k] \in Metrics
  BY DEF Measures, Contenders
<1>2. PICK light \in Contenders : \A k \in Contenders : Burden(measured[light]) <= Burden(measured[k])
  <2> DEFINE f == [k \in Contenders |-> Burden(measured[k])]
  <2>1. f \in [Contenders -> Nat]
    BY <1>1, MeasuresAreNatural
  <2> HIDE DEF f
  <2>2. PICK x \in Contenders : \A y \in Contenders : f[x] <= f[y]
    BY <2>1, LeastExists
  <2> QED
    BY <2>2 DEF f
<1> DEFINE Lightest == {k \in Contenders : Burden(measured[k]) = Burden(measured[light])}
<1>3. PICK best \in Lightest : \A k \in Lightest : Unfit(measured[best]) <= Unfit(measured[k])
  <2> DEFINE f == [k \in Lightest |-> Unfit(measured[k])]
  <2>1. f \in [Lightest -> Nat]
    BY <1>1, MeasuresAreNatural
  <2>2. Lightest # {}
    OBVIOUS
  <2> HIDE DEF f, Lightest
  <2>3. PICK x \in Lightest : \A y \in Lightest : f[x] <= f[y]
    BY <2>1, <2>2, LeastExists
  <2> QED
    BY <2>3 DEF f
<1>4. ASSUME NEW j \in Contenders, Dominates(measured[j], measured[best]) PROVE FALSE
  <2>1. best \in Contenders /\ Burden(measured[best]) = Burden(measured[light])
    OBVIOUS
  <2>2. measured[j] \in Metrics /\ measured[best] \in Metrics
    BY <1>1, <2>1
  <2>3. /\ Burden(measured[j]) <= Burden(measured[best])
        /\ Burden(measured[j]) = Burden(measured[best]) => Unfit(measured[j]) < Unfit(measured[best])
    BY <1>4, <2>2, DominatorIsAhead
  <2>4. Burden(measured[light]) <= Burden(measured[j])
    BY <1>2
  <2>5. /\ Burden(measured[j]) \in Nat /\ Burden(measured[best]) \in Nat
        /\ Unfit(measured[j]) \in Nat /\ Unfit(measured[best]) \in Nat
    BY <2>2, MeasuresAreNatural
  <2>6. j \in Lightest
    BY <2>1, <2>3, <2>4, <2>5
  <2>7. Unfit(measured[best]) <= Unfit(measured[j])
    BY <1>3, <2>6
  <2> QED
    BY <2>1, <2>3, <2>5, <2>6, <2>7
<1> QED
  BY <1>4 DEF Frontier

LEMMA MeasuresInit == SolverInit => Measures
BY DEF SolverInit, Start, Measures

LEMMA MeasuresNext == Measures /\ [SolverNext]_solverVars => Measures'
<1> SUFFICES ASSUME Measures, [SolverNext]_solverVars PROVE Measures'
  OBVIOUS
<1>1. ASSUME NEW metrics \in Metrics,
             NEW bottleneck \in DOMAIN given.architecture \cup {None},
             EvaluateBaseline(metrics, bottleneck)
      PROVE Measures'
  BY <1>1 DEF EvaluateBaseline, Measures
<1>2. ASSUME NEW metrics \in Metrics, EvaluateCandidate(metrics) PROVE Measures'
  BY <1>2 DEF EvaluateCandidate, Measures
<1>3. CASE UNCHANGED solverVars
  BY <1>3 DEF solverVars, Measures
<1> QED
  BY <1>1, <1>2, <1>3 DEF SolverNext

\* As soon as a design that keeps the limits is measured, and whatever is
\* measured after it, some such design is on the frontier.
THEOREM FrontierHolds == SolverSpec => []FrontierIsNotEmpty
<1>1. Measures => FrontierIsNotEmpty
  BY FrontierExists DEF FrontierIsNotEmpty
<1> QED
  BY <1>1, MeasuresInit, MeasuresNext, PTL DEF SolverSpec
=============================================================================
