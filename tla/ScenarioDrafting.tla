-------------------------- MODULE ScenarioDrafting --------------------------
(***************************************************************************)
(* The scenario editor of one tab (ScenarioDesignerPage), its drafting     *)
(* assistant (ScenarioAiAssistant) with the compiler behind it             *)
(* (aiCompilation.ts), and the links to the draft.  The user edits while a *)
(* proposal or a short link is on its way.                                 *)
(*                                                                         *)
(* The brief is the set of its phrases, and a phrase what the compiler's   *)
(* patterns read in it.  What the provider answers is any choice.  Titles, *)
(* labels, prose and its quantities, and the sizes of texts are left out;  *)
(* so is the part of the draft that only the user ever changes.            *)
(***************************************************************************)
EXTENDS Integers, Sequences, FiniteSets, SequencesExt, Filters

CONSTANTS
  MaxObjectives,     \* of a scenario; 40 in the code
  MaxEdits, MaxAsked \* bounds on the edits and on the requests of a behaviour

VARIABLES
  mode,      \* custom or interview, from the route
  draft, made, authored,        \* made: ids drawn; authored: what the user wrote and did not remove
  brief, task, private,         \* the form of the assistant
  sequence, drafting, preview, failed, proposals,   \* proposals: requests on their way
  published, publishing, links, shares,             \* published: publishSequence; shares: on their way
  opened, edits, asked

formVars == <<brief, task, private>>
assistantVars == <<sequence, drafting, preview, failed>>
linkVars == <<published, publishing, links>>
draftingVars == <<mode, draft, made, authored, formVars, assistantVars, proposals, linkVars, shares, opened, edits, asked>>

Absent == [none |-> TRUE]
Malformed == [rejected |-> TRUE]

-----------------------------------------------------------------------------
(* The contract of a scenario, and what a participant may see of it.        *)

BaseRps == 100
IdsOf(seq) == {o.id : o \in ToSet(seq)}

ValidScenario(d) ==
  /\ d.peakRps >= BaseRps
  /\ Len(d.requirements) <= MaxObjectives
  /\ Cardinality(IdsOf(d.requirements)) = Len(d.requirements)
  /\ Cardinality(IdsOf(d.incidents)) = Len(d.incidents)
  /\ mode = "interview" => d.candidateBrief # "blank"
  /\ \A o \in ToSet(d.requirements) :
       /\ mode # "interview" => o.visibility = "public"
       /\ o.visibility = "derived" <=> o.owner = "candidate"
       /\ o.visibility = "hidden" => o.owner = "interviewer"

CandidateScenario(d) ==
  [d EXCEPT !.requirements = Keep(@, {k \in DOMAIN @ : @[k].visibility # "hidden"}),
            !.interviewerBrief = "blank"]

RequirementTemplate(index) ==
  [id |-> <<"requirement", index>>, metric |-> "p99LatencyMs", operator |-> "lte", target |-> 400,
   visibility |-> IF mode = "interview" THEN "hidden" ELSE "public",
   owner |-> IF mode = "interview" THEN "interviewer" ELSE "scenario"]
IncidentTemplate(index) == [id |-> <<"incident", index>>, atSecond |-> 30, magnitude |-> 2]

-----------------------------------------------------------------------------
(* Phrases, and what the provider makes of them.                            *)

Phrase(metrics, operators, numbers, unit) ==
  [metrics |-> metrics, operators |-> operators, numbers |-> numbers, unit |-> unit]
P95   == Phrase({"p95LatencyMs"}, {}, <<>>, "")
Both  == Phrase({"p95LatencyMs", "availability"}, {}, <<>>, "")
Below == Phrase({}, {"lte"}, <<>>, "")
Above == Phrase({}, {"gte"}, <<>>, "")
Literal(n, unit) == Phrase({}, {}, <<n>>, unit)
Range95 == Phrase({}, {}, <<200, 300>>, "ms")

Short == {}    \* fewer than eight characters
Briefs == {Short,
           {P95, Below, Literal(2, "s"), Range95, Literal(500, "rps"), Literal(50, "rps")},
           {P95, Both, Below, Above, Literal(99, "%"), Literal(2, "s"), Literal(3, "x")}}
Metrics == {"p95LatencyMs", "availability"}
Scopes == {"custom-public", "interview-public", "interview-private", "candidate-derived"}
Intents ==
  [metric : Metrics, operator : {"lte", "gte"}, metricSource : {P95, Both},
   operatorSource : {Below, Above}, targetSource : {Literal(2, "s"), Literal(99, "%"), Range95}]
Good == [metric |-> "p95LatencyMs", operator |-> "lte", metricSource |-> P95,
         operatorSource |-> Below, targetSource |-> Literal(2, "s")]

\* What a provider may return: intents with sources that may be wrong, in one part of the draft.
NoChange == [requirements |-> <<>>, scopes |-> <<>>, peak |-> <<>>, incidents |-> <<>>, candidateBrief |-> "blank"]
Outputs ==
  {[NoChange EXCEPT !.requirements = <<i>>, !.scopes = <<s>>] : i \in Intents, s \in Scopes}
  \cup {[NoChange EXCEPT !.requirements = <<Good, Good>>, !.scopes = <<s, s>>] : s \in Scopes}
  \cup {[NoChange EXCEPT !.peak = v] :
          v \in {<<Literal(500, "rps")>>, <<Literal(50, "rps")>>, <<Literal(2, "s")>>,
                 <<Literal(500, "rps"), Literal(500, "rps")>>}}
  \cup {[NoChange EXCEPT !.incidents = <<[at |-> Literal(2, "s"), magnitude |-> m]>>, !.candidateBrief = "worded"] :
          m \in {Literal(3, "x"), Literal(2, "s")}}

-----------------------------------------------------------------------------
(* The compiler.                                                            *)

MetricNamed(source, intent) ==
  \/ intent.metricSource.metrics = {intent.metric}
  \/ UNION {p.metrics : p \in source} = {intent.metric}
OperatorNamed(source, intent) ==
  \/ intent.operatorSource.operators = {intent.operator}
  \/ UNION {p.operators : p \in source} = {intent.operator}

ParsesTo(phrase, units) == Len(phrase.numbers) = 1 /\ phrase.unit \in units
Milliseconds(phrase) == phrase.numbers[1] * (IF phrase.unit = "s" THEN 1000 ELSE 1)

UnitsOf(metric) == IF metric = "p95LatencyMs" THEN {"ms", "s"} ELSE {"%"}
TargetForMetric(metric, phrase) ==
  IF metric = "p95LatencyMs" THEN Milliseconds(phrase) ELSE phrase.numbers[1]

OwnershipForScope(scope) ==
  CASE scope = "interview-private" -> [visibility |-> "hidden", owner |-> "interviewer"]
    [] scope = "candidate-derived" -> [visibility |-> "derived", owner |-> "candidate"]
    [] OTHER -> [visibility |-> "public", owner |-> "scenario"]

\* Whether the compiler takes an intent for an objective, and the objective it makes of it.
AcceptsIntent(source, intent) ==
  /\ {intent.metricSource, intent.operatorSource, intent.targetSource} \subseteq source
  /\ MetricNamed(source, intent) /\ OperatorNamed(source, intent)
  /\ ParsesTo(intent.targetSource, UnitsOf(intent.metric))
RequirementFromIntent(intent, scope, index) ==
  [id |-> <<"ai-requirement", index, intent, scope>>,
   metric |-> intent.metric, operator |-> intent.operator,
   target |-> TargetForMetric(intent.metric, intent.targetSource),
   visibility |-> OwnershipForScope(scope).visibility, owner |-> OwnershipForScope(scope).owner]

CompileAiRequirements(request, output) ==
  IF \A k \in DOMAIN output.requirements : AcceptsIntent(request.brief, output.requirements[k])
  THEN [requirements |-> [k \in DOMAIN output.requirements |->
          RequirementFromIntent(output.requirements[k], request.scope, k)]]
  ELSE Malformed

ScopesFor == IF mode = "custom" THEN {"custom-public"} ELSE {"interview-public", "interview-private"}

CompileAiScenario(request, output) ==
  LET base == request.base
      accepted ==
        /\ Len(output.peak) <= 1
        /\ \A v \in ToSet(output.peak) : v \in request.brief /\ ParsesTo(v, {"rps"})
        /\ \A i \in ToSet(output.incidents) :
             {i.at, i.magnitude} \subseteq request.brief /\ ParsesTo(i.at, {"s"}) /\ ParsesTo(i.magnitude, {"x"})
        /\ \A k \in DOMAIN output.requirements :
             output.scopes[k] \in ScopesFor /\ AcceptsIntent(request.brief, output.requirements[k])
      scenario == [base EXCEPT
        !.peakRps = IF output.peak = <<>> THEN @ ELSE output.peak[1].numbers[1],
        !.incidents = @ \o [k \in DOMAIN output.incidents |->
          [id |-> <<"ai-incident", Len(base.incidents) + k, output.incidents[k]>>,
           atSecond |-> output.incidents[k].at.numbers[1],
           magnitude |-> output.incidents[k].magnitude.numbers[1]]],
        !.requirements = @ \o [k \in DOMAIN output.requirements |->
          RequirementFromIntent(output.requirements[k], output.scopes[k], Len(base.requirements) + k)],
        !.candidateBrief = IF mode = "interview" /\ output.candidateBrief # "blank"
                           THEN output.candidateBrief ELSE @]
  IN IF accepted /\ ValidScenario(scenario) THEN [scenario |-> scenario] ELSE Malformed

\* A request whose draft or brief breaks the contract is refused; a call of the provider may fail.
ProposalsFor(request) ==
  {Malformed} \cup
  IF ~ValidScenario(request.base) THEN {}
  ELSE IF request.task = "author-scenario" THEN {CompileAiScenario(request, o) : o \in Outputs}
  ELSE {CompileAiRequirements(request, o) : o \in Outputs}

-----------------------------------------------------------------------------
(* The assistant.                                                           *)

\* Mutant: the effect aborts the request and clears the panel, but answers to come still count.
SupersedeByAbort ==
  /\ drafting' = FALSE /\ preview' = Absent /\ failed' = FALSE
  /\ UNCHANGED sequence

\* The effects on the draft and on the form: nothing prepared before them is shown after.
Supersede ==
  /\ sequence' = sequence + 1
  /\ drafting' = FALSE /\ preview' = Absent /\ failed' = FALSE

\* The page's own effect on the draft.
WithdrawLinks ==
  /\ published' = published + 1 /\ publishing' = FALSE /\ links' = Absent

RequirementScope ==
  IF mode = "custom" THEN "custom-public" ELSE IF private THEN "interview-private" ELSE "interview-public"

FillForm ==
  /\ edits < MaxEdits /\ edits' = edits + 1
  /\ \/ \E b \in Briefs \ {brief} : brief' = b /\ UNCHANGED <<task, private>>
     \/ \E t \in {"author-scenario", "compile-requirements"} \ {task} :
          task' = t /\ UNCHANGED <<brief, private>>
     \/ /\ mode = "interview" /\ task = "compile-requirements"
        /\ private' = ~private /\ UNCHANGED <<brief, task>>
  /\ Supersede
  /\ UNCHANGED <<mode, draft, made, authored, proposals, linkVars, shares, opened, asked>>

RequestProposal ==
  /\ ~drafting /\ brief # Short /\ asked < MaxAsked
  /\ asked' = asked + 1 /\ sequence' = sequence + 1
  /\ drafting' = TRUE /\ preview' = Absent /\ failed' = FALSE
  /\ proposals' = proposals \cup
       {[sequence |-> sequence + 1, task |-> task, base |-> draft, brief |-> brief, scope |-> RequirementScope]}
  /\ UNCHANGED <<mode, draft, made, authored, formVars, linkVars, shares, opened, edits>>

\* An abort may come after the answer, so what was superseded is answered too.
ReceiveProposal(r) ==
  /\ proposals' = proposals \ {r}
  /\ IF r.sequence # sequence THEN UNCHANGED assistantVars
     ELSE \E answer \in ProposalsFor(r) :
            /\ drafting' = FALSE /\ UNCHANGED sequence
            /\ IF answer = Malformed THEN failed' = TRUE /\ UNCHANGED preview
               ELSE preview' = [task |-> r.task, response |-> answer, of |-> r] /\ UNCHANGED failed
  /\ UNCHANGED <<mode, draft, made, authored, formVars, linkVars, shares, opened, edits, asked>>

Discard ==
  /\ preview # Absent /\ preview' = Absent
  /\ UNCHANGED <<mode, draft, made, authored, formVars, sequence, drafting, failed, proposals,
                 linkVars, shares, opened, edits, asked>>

Merged(requirements) ==
  LET incoming(id) == requirements[CHOOSE k \in DOMAIN requirements : requirements[k].id = id]
  IN [k \in DOMAIN draft.requirements |->
        IF draft.requirements[k].id \in IdsOf(requirements) THEN incoming(draft.requirements[k].id)
        ELSE draft.requirements[k]]
     \o Keep(requirements, {k \in DOMAIN requirements : requirements[k].id \notin IdsOf(draft.requirements)})

ApplyPreview ==
  /\ preview # Absent
  /\ LET next == IF preview.task = "author-scenario" THEN preview.response.scenario
                 ELSE [draft EXCEPT !.requirements = Merged(preview.response.requirements)]
     IN IF ValidScenario(next)
        THEN draft' = next /\ Supersede /\ WithdrawLinks
        ELSE failed' = TRUE /\ UNCHANGED <<draft, sequence, drafting, preview, linkVars>>
  /\ UNCHANGED <<mode, made, authored, formVars, proposals, shares, opened, edits, asked>>

-----------------------------------------------------------------------------
(* The editor.                                                              *)

Edited(next) ==
  /\ edits < MaxEdits /\ edits' = edits + 1
  /\ draft' = next /\ Supersede /\ WithdrawLinks
  /\ UNCHANGED <<mode, formVars, proposals, shares, opened, asked>>

AddObjective ==
  /\ Len(draft.requirements) < MaxObjectives
  /\ Edited([draft EXCEPT !.requirements = Append(@, RequirementTemplate(made))])
  /\ made' = made + 1 /\ authored' = authored \cup {RequirementTemplate(made)}
AddIncident ==
  /\ Edited([draft EXCEPT !.incidents = Append(@, IncidentTemplate(made))])
  /\ made' = made + 1 /\ authored' = authored \cup {IncidentTemplate(made)}

UpdateRequirement(id) ==
  LET patched(o) == {[o EXCEPT !.target = 401]}
                    \cup {[o EXCEPT !.visibility = v] :
                            v \in IF mode = "interview" THEN {"hidden", "public"} ELSE {}}
      old == CHOOSE o \in ToSet(draft.requirements) : o.id = id
  IN \E new \in patched(old) \ {old} :
       /\ Edited([draft EXCEPT !.requirements = [k \in DOMAIN @ |-> IF @[k].id = id THEN new ELSE @[k]]])
       /\ authored' = IF old \in authored THEN (authored \ {old}) \cup {new} ELSE authored
       /\ UNCHANGED made

RemoveItem(id) ==
  /\ Edited([draft EXCEPT !.requirements = Keep(@, {k \in DOMAIN @ : @[k].id # id}),
                          !.incidents = Keep(@, {k \in DOMAIN @ : @[k].id # id})])
  /\ authored' = {o \in authored : o.id # id}
  /\ UNCHANGED made

EditFields ==
  /\ \/ \E peak \in {50, 200} \ {draft.peakRps} : Edited([draft EXCEPT !.peakRps = peak])
     \/ mode = "interview" /\ draft.candidateBrief # "blank" /\ Edited([draft EXCEPT !.candidateBrief = "blank"])
  /\ UNCHANGED <<made, authored>>

-----------------------------------------------------------------------------
(* The links.                                                               *)

Publish ==
  /\ ~publishing /\ ValidScenario(draft) /\ asked < MaxAsked
  /\ asked' = asked + 1
  /\ published' = published + 1 /\ publishing' = TRUE
  /\ shares' = shares \cup {[sequence |-> published + 1, scenario |-> draft]}
  /\ UNCHANGED <<mode, draft, made, authored, formVars, assistantVars, proposals, links, opened, edits>>

\* A receipt, or an error; an answer to what was published before the last edit is dropped.
ReceiveReceipt(s) ==
  /\ shares' = shares \ {s}
  /\ IF s.sequence # published THEN UNCHANGED linkVars
     ELSE /\ publishing' = FALSE /\ UNCHANGED published
          /\ links' \in {links, [participant |-> CandidateScenario(s.scenario), interviewer |-> s.scenario]}
  /\ UNCHANGED <<mode, draft, made, authored, formVars, assistantVars, proposals, opened, edits, asked>>

LocalLinks == [participant |-> CandidateScenario(draft), interviewer |-> draft]

\* Someone opens a link that is shown, or the user the Lab (a custom draft's is the participant's).
Open ==
  /\ opened = Absent /\ ValidScenario(draft)
  /\ \E shown \in {LocalLinks} \cup ({links} \ {Absent}),
        role \in {"participant"} \cup (IF mode = "interview" THEN {"interviewer"} ELSE {}) :
       opened' = [role |-> role, scenario |-> shown[role], draft |-> draft]
  /\ UNCHANGED <<mode, draft, made, authored, formVars, assistantVars, proposals, linkVars, shares, edits, asked>>

-----------------------------------------------------------------------------
DraftingInit ==
  /\ mode \in {"custom", "interview"}
  /\ draft = [requirements |-> <<RequirementTemplate(0)>>, incidents |-> <<>>, peakRps |-> 200,
              candidateBrief |-> "written", interviewerBrief |-> IF mode = "interview" THEN "written" ELSE "blank"]
  /\ made = 1 /\ authored = {RequirementTemplate(0)}
  /\ brief = Short /\ task = "author-scenario" /\ private = (mode = "interview")
  /\ sequence = 1 /\ drafting = FALSE /\ preview = Absent /\ failed = FALSE /\ proposals = {}
  /\ published = 1 /\ publishing = FALSE /\ links = Absent /\ shares = {}
  /\ opened = Absent /\ edits = 0 /\ asked = 0

DraftingNext ==
  \/ FillForm \/ RequestProposal \/ Discard \/ ApplyPreview \/ Publish \/ Open
  \/ \E r \in proposals : ReceiveProposal(r)
  \/ \E s \in shares : ReceiveReceipt(s)
  \/ AddObjective \/ AddIncident \/ EditFields
  \/ \E id \in IdsOf(draft.requirements) : UpdateRequirement(id)
  \/ \E id \in IdsOf(draft.requirements) \cup IdsOf(draft.incidents) : RemoveItem(id)

DraftingSpec == DraftingInit /\ [][DraftingNext]_draftingVars

-----------------------------------------------------------------------------
(* What the editor must not get wrong.                                      *)

\* Everything the user wrote is still there, in the draft and in a draft that is proposed.
AuthoredRemains ==
  LET within(d) == authored \subseteq ToSet(d.requirements) \cup ToSet(d.incidents)
  IN /\ within(draft)
     /\ preview # Absent /\ preview.task = "author-scenario" => within(preview.response.scenario)

\* What a brief states: a metric and a comparator it names, and a number in a unit of the metric.
Stated ==
  {[metric |-> m, operator |-> o, target |-> t] :
     m \in UNION {p.metrics : p \in brief}, o \in UNION {p.operators : p \in brief},
     t \in {p.numbers[1] * (IF p.unit = "s" THEN 1000 ELSE 1) : p \in {q \in brief : Len(q.numbers) = 1}}}

\* What is proposed beyond the draft was asked for in the form as it is now.
ProposalIsOfForm ==
  preview # Absent =>
    LET requirements == IF preview.task = "author-scenario" THEN preview.response.scenario.requirements
                        ELSE preview.response.requirements
        new == {o \in ToSet(requirements) : o \notin ToSet(draft.requirements)}
    IN /\ preview.task = task
       /\ \A o \in new :
            /\ [metric |-> o.metric, operator |-> o.operator, target |-> o.target] \in Stated
            /\ o.visibility # "derived"
            /\ o.visibility = "hidden" => mode = "interview"
            /\ task = "compile-requirements" => (o.visibility = "hidden" <=> mode = "interview" /\ private)
       /\ task = "author-scenario" =>
            /\ ValidScenario(preview.response.scenario)
            /\ preview.response.scenario.peakRps \in {draft.peakRps} \cup {p.numbers[1] : p \in {q \in brief : q.unit = "rps"}}

\* While the panel says that it is preparing, an answer that it will take is on its way.
WaitsForSomething ==
  /\ drafting <=> \E r \in proposals : r.sequence = sequence
  /\ publishing <=> \E s \in shares : s.sequence = published

\* Links are to the draft beside them; a participant sees its public objectives and no others.
LinksAreOfDraft ==
  /\ links # Absent => links = LocalLinks
  /\ opened # Absent =>
       LET shown == ToSet(opened.scenario.requirements)
       IN IF opened.role = "interviewer" THEN opened.scenario = opened.draft
          ELSE /\ shown = {o \in ToSet(opened.draft.requirements) : o.visibility # "hidden"}
               /\ opened.scenario.interviewerBrief = "blank"

\* Edits, proposals and publications interleave: what the user wrote is kept, what is
\* proposed is stated in the brief and belongs to draft and form as they are, and
\* links show the present draft to those who may see it.
DraftingIsSound == AuthoredRemains /\ ProposalIsOfForm /\ WaitsForSomething /\ LinksAreOfDraft
=============================================================================
