----------------------------- MODULE EngineTwin -----------------------------
(***************************************************************************)
(* Two runs of the engine on one scenario, step by step and with the same  *)
(* random draws: the one whose frames a session has already delivered, and *)
(* the one recomputed from second 0 with one more operator action, an      *)
(* intervention or an injected incident, at a later second.                *)
(***************************************************************************)
EXTENDS Engine

CONSTANT Extras   \* the actions an operator may add, each at a later second

VARIABLES revSchedule, revIncidents, revThreshold, revBreakers, revRuntime,
          revPlans, revGenerated, revForwarding, revDemand, revMetric,
          revRetry, revEvents, revFrames,
          actsAt   \* the second of the additional action

revVars == <<revSchedule, revIncidents, revThreshold, revBreakers, revRuntime,
             revPlans, revGenerated, revForwarding, revDemand, revMetric,
             revRetry, revEvents, revFrames, actsAt>>
twinVars == <<vars, revVars>>

Revised == INSTANCE Engine WITH
  schedule <- revSchedule, incidents <- revIncidents, threshold <- revThreshold,
  breakers <- revBreakers, runtime <- revRuntime, plans <- revPlans,
  generated <- revGenerated, forwarding <- revForwarding, demand <- revDemand,
  metric <- revMetric, retry <- revRetry, events <- revEvents,
  frames <- revFrames

\* The run on an input, and the run on the input with the action "extra".
Extended(input, extra) ==
  IF extra.type = "inject-incident"
  THEN [input EXCEPT !.injected = Append(@, extra.incident)]
  ELSE [input EXCEPT !.actions = Append(@, extra)]

TwinInit ==
  /\ StartLoop
  /\ \E input \in Inputs, extra \in Extras :
       /\ StartRun(input)
       /\ Revised!StartRun(Extended(input, extra))
       /\ actsAt = extra.at

Lockstep ==
  \/ ApplyInterventions /\ Revised!ApplyInterventions
  \/ \E hit \in BOOLEAN, struck \in Node :
       TryRule(hit, struck) /\ Revised!TryRule(hit, struck)
  \/ OpenSecond /\ Revised!OpenSecond
  \/ \E count \in Arrivals : Spread(count) /\ Revised!Spread(count)
  \/ RunNode /\ Revised!RunNode
  \/ CloseSecond /\ Revised!CloseSecond
  \/ pc = "done" /\ UNCHANGED <<vars, revVars>>

TwinSpec == TwinInit /\ [][Lockstep /\ UNCHANGED actsAt]_twinVars

\* An accepted action is for a second after the delivered cursor; it must leave
\* every earlier frame and event as they were, since the host rejects an action
\* whose recomputation changes what it delivered (simulation.worker.ts).
Before(log) == SelectSeq(log, LAMBDA e : e.second < actsAt)
PastIsFixed ==
  /\ \A k \in DOMAIN frames :
       frames[k].second < actsAt => revFrames[k] = frames[k]
  /\ Before(revEvents) = Before(events)

=============================================================================
