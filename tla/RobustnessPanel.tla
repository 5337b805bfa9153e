-------------------------- MODULE RobustnessPanel ---------------------------
(***************************************************************************)
(* The robustness estimate of components/DecisionWorkbench.tsx, and the    *)
(* other two users of a worker of one job: the solver of the browser, on   *)
(* which lib/solverGateway.ts falls back, and the decoder of share links.  *)
(*                                                                         *)
(* The revisions of scenario and architecture are one number.  A change of *)
(* it is drawn, and the panel's effects run, before the next event.        *)
(***************************************************************************)
EXTENDS WorkerJob

CONSTANTS
  MaxRevision,  \* bound on the edits
  Nothing

VARIABLES
  revision,     \* scenarioRevision and architectureRevision
  open,         \* the workbench is shown
  session,      \* robustnessSessionRef
  estimate,     \* robustness: the revision it was computed for
  running,      \* robustnessRunning
  told,         \* robustnessError
  call          \* a call of the solver or the decoder, on another page

panelVars == <<revision, open, session, estimate, running, told, call>>

PanelInit ==
  /\ revision = 0 /\ open = TRUE /\ session = Nothing /\ estimate = Nothing
  /\ running = FALSE /\ told = FALSE /\ call = [state |-> "idle", fallback |-> FALSE]

DropSession ==
  /\ session' = Nothing
  /\ IF session # Nothing THEN CancelJob ELSE UNCHANGED jobVars

Calling == call.state \in {"canonical", "local"}

RevisionEffect == running' = FALSE /\ told' = FALSE /\ estimate' = Nothing

Revise ==
  /\ ~Calling /\ revision < MaxRevision
  /\ revision' = revision + 1
  /\ DropSession /\ RevisionEffect
  /\ UNCHANGED <<open, call>>

ToggleWorkbench ==
  /\ ~Calling
  /\ open' = ~open
  /\ IF open THEN DropSession /\ running' = FALSE ELSE UNCHANGED <<session, running, jobVars>>
  /\ UNCHANGED <<revision, estimate, told, call>>

\* startRobustnessAnalysis: too much work or no worker is refused at once.
StartRobustnessAnalysis(refused) == OpenJob("robustness", revision, refused)

RunRobustness(refused) ==
  /\ ~Calling /\ open /\ ~running
  /\ StartRobustnessAnalysis(refused)
  /\ session' = IF refused THEN Nothing ELSE job'.id
  /\ estimate' = Nothing /\ running' = ~refused /\ told' = refused
  /\ UNCHANGED <<revision, open, call>>

CancelRobustness ==
  /\ open /\ running /\ session # Nothing
  /\ DropSession
  /\ estimate' = Nothing /\ running' = FALSE /\ told' = TRUE
  /\ UNCHANGED <<revision, open, call>>

\* The continuation of await session.result, with its catch and finally.
RobustnessSettles(outcome) ==
  /\ AtWork /\ job.kind = "robustness"
  /\ JobEnds(outcome)
  /\ LET mine == session = job.id
         heard == mine /\ job.input = revision
     IN /\ estimate' = IF heard /\ outcome = "complete" THEN job.input ELSE estimate
        /\ told' = (told \/ (heard /\ outcome = "error"))
        /\ session' = IF mine THEN Nothing ELSE session
        /\ running' = IF mine THEN FALSE ELSE running
  /\ UNCHANGED <<revision, open, call>>

-----------------------------------------------------------------------------
(* solveArchitectureWithFallback and decodeLocalShareInWorker.             *)

\* runLocalArchitectureSolver: refused before there is a worker, or started.
RunLocally(refused, fallback) ==
  /\ OpenJob("solver", revision, refused)
  /\ call' = [state |-> IF refused THEN "failed" ELSE "local", fallback |-> fallback]

Solve(canonicalAvailable, refused) ==
  /\ ~Calling /\ session = Nothing
  /\ IF canonicalAvailable
     THEN call' = [state |-> "canonical", fallback |-> FALSE] /\ UNCHANGED jobVars
     ELSE RunLocally(refused, FALSE)
  /\ UNCHANGED <<revision, open, session, estimate, running, told>>

CanonicalAnswers(succeeds, refused) ==
  /\ call.state = "canonical"
  /\ IF succeeds THEN call' = [call EXCEPT !.state = "solved"] /\ UNCHANGED jobVars
                 ELSE RunLocally(refused, TRUE)
  /\ UNCHANGED <<revision, open, session, estimate, running, told>>

\* A value that is too long, or no worker, decodes to nothing at once.
DecodeShare(refused) ==
  /\ ~Calling /\ session = Nothing
  /\ OpenJob("share", revision, refused)
  /\ call' = [state |-> IF refused THEN "failed" ELSE "local", fallback |-> FALSE]
  /\ UNCHANGED <<revision, open, session, estimate, running, told>>

CallSettles(outcome) ==
  /\ AtWork /\ job.kind \in {"solver", "share"}
  /\ JobEnds(outcome)
  /\ call' = [call EXCEPT !.state = IF outcome = "complete" THEN "solved" ELSE "failed"]
  /\ UNCHANGED <<revision, open, session, estimate, running, told>>

HearWorker == (HearProgress \/ HearLate) /\ UNCHANGED panelVars

PanelNext ==
  \/ Revise \/ ToggleWorkbench \/ CancelRobustness
  \/ \E refused \in BOOLEAN : RunRobustness(refused) \/ DecodeShare(refused)
  \/ \E available, refused \in BOOLEAN : Solve(available, refused) \/ CanonicalAnswers(available, refused)
  \/ \E outcome \in {"complete", "error"} : RobustnessSettles(outcome) \/ CallSettles(outcome)
  \/ HearWorker
  \/ JobNext /\ UNCHANGED panelVars

\* Timers fire, and the service answers or the connection to it fails.
PanelTimers ==
  \/ DeadlinePasses /\ UNCHANGED panelVars
  \/ TimesOut /\ (RobustnessSettles("error") \/ CallSettles("error"))
  \/ \E succeeds, refused \in BOOLEAN : CanonicalAnswers(succeeds, refused)
PanelFairness == WF_<<jobVars, panelVars>>(PanelTimers)

-----------------------------------------------------------------------------
(* Properties.                                                             *)

\* The estimate on screen is of the inputs on screen; the panel says it is
\* computing exactly while a worker computes for these inputs; and it never says
\* at once that it computes, that it failed and that it has a result.
EstimateIsCurrent ==
  /\ estimate # Nothing => estimate = revision
  /\ running = (session # Nothing)
  /\ running => AtWork /\ job.id = session /\ job.input = revision
  /\ AtWork /\ job.kind = "robustness" => running
  /\ ~(told /\ (running \/ estimate # Nothing))
=============================================================================
