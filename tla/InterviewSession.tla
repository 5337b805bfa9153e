-------------------------- MODULE InterviewSession --------------------------
(***************************************************************************)
(* A server-backed interview: the shared_scenarios row, the API handlers   *)
(* that read and change it, and the browser tabs (useLabStore) of the      *)
(* interviewer and the candidate that mirror it.                           *)
(*                                                                         *)
(* A handler awaits between its reads of the store and its update, so each *)
(* query is a step.  In a tab, whatever runs between two awaits is a step. *)
(* Journal entries are the numbers of the clicks that saved them; ver is   *)
(* collaboration_updated_at, counted instead of timed.                     *)
(***************************************************************************)
EXTENDS Integers, Sequences

CONSTANTS
    Hosts,       \* tabs opened from the interviewer link
    Candidates,  \* tabs opened from the candidate link
    Policy,      \* scenario.interview.revealPolicy
    MaxClicks,   \* bound: saves, clock clicks and reveal clicks
    MaxLoads,    \* bound: page loads, navigations and edits
    NoView       \* a call that has no answer to apply

Tabs == Hosts \cup Candidates

ASSUME TabAssumption == Hosts \cap Candidates = {}

ASSUME PolicyAssumption ==
    Policy \in {"never", "after-run", "interviewer-controlled"}

ASSUME BoundAssumption == MaxClicks \in Nat /\ MaxLoads \in Nat

VARIABLES
    row,      \* the shared_scenarios row
    run,      \* the candidate's canonical run and its submission
    marking,  \* the handler of POST /scenarios/:id/runs
    late,     \* PATCH handlers at work whose tab has stopped listening
    page,     \* which page of the interview a tab shows
    reveal,   \* a tab's revealState
    collab,   \* a tab's collaboration
    stored,   \* the revealState in a tab's sessionStorage
    queue,    \* a tab's mutations that wait for their turn
    call,     \* the mutation a tab has sent
    poll,     \* the refresh a tab has sent
    loop,     \* where a tab's submitCanonical is
    tracked,  \* history: no mutation of this tab went unanswered
    reloaded, \* history: the Lab was reloaded since the link was opened
    clicks,   \* how many mutations were clicked
    loads     \* how many pages were loaded

serverVars == <<row, run, marking, late>>
viewVars   == <<reveal, collab, stored>>
callVars   == <<queue, call, poll, loop, tracked>>
tabVars    == <<viewVars, callVars, reloaded>>
vars       == <<serverVars, page, tabVars, clicks, loads>>

-----------------------------------------------------------------------------
(* The row and what the API shows of it *)

\* emptyCollaboration(), and the defaults of the columns
Blank == [journal |-> 0, clock |-> FALSE, ver |-> 0]

Revealed ==
    \/ Policy = "after-run" /\ row.ran
    \/ Policy = "interviewer-controlled" /\ row.flag

\* sharedScenarioResponse
View == [reveal |-> Revealed,
         collab |-> [journal |-> row.journal, clock |-> row.clock, ver |-> row.ver]]

\* A mutation: what is patched, with which value, and the click that asked.
Kinds == {"reveal", "journal", "clock"}

\* The UPDATE of setScenarioReveal or updateScenarioCollaboration.  Columns a
\* patch does not mention are COALESCEd to themselves; a reveal does not touch
\* collaboration_updated_at.
Patched(op) ==
    CASE op.kind = "reveal"  -> [row EXCEPT !.flag = op.value]
      [] op.kind = "journal" -> [row EXCEPT !.journal = op.n, !.ver = @ + 1]
      [] op.kind = "clock"   -> [row EXCEPT !.clock = op.value, !.ver = @ + 1]

\* The reveal route answers 409 under every other policy.
Permitted(op) == op.kind = "reveal" => Policy = "interviewer-controlled"

-----------------------------------------------------------------------------
(* Tabs *)

Connected(t) == page[t] \in {"lab", "decisions"}

\* queuedSharedMutationCount > 0
Busy(t) == call[t].step # "none" \/ queue[t] # <<>>

NoCall == [step |-> "none", op |-> NoView, view |-> NoView]
NoPoll == [step |-> "none", view |-> NoView]
Asked  == [step |-> "sent", view |-> NoView]

\* The handlers go on without the tab.  The request may also never arrive.
Abandoned(t) ==
    IF call[t].step \in {"sent", "checked"}
    THEN {{}, {[step |-> call[t].step, op |-> call[t].op]}}
    ELSE {{}}

\* cancelSharedScenarioOperations(), and the end of submitCanonical's claim on
\* the tab (canonicalSubmissionSequence); p is the GET that is sent instead
CancelOperations(t, p) ==
    /\ \E L \in Abandoned(t) : late' = late \cup L
    /\ queue' = [queue EXCEPT ![t] = <<>>]
    /\ call'  = [call EXCEPT ![t] = NoCall]
    /\ poll'  = [poll EXCEPT ![t] = p]
    /\ loop'  = [loop EXCEPT ![t] = "idle"]

\* Mutant: the session keeps the reveal state it was opened with.
ShowOnly(t, r) == reveal' = [reveal EXCEPT ![t] = r] /\ UNCHANGED stored

\* The tab shows the reveal state r of an answer and stores it in its session.
Show(t, r) ==
    /\ reveal' = [reveal EXCEPT ![t] = r]
    /\ stored' = [stored EXCEPT ![t] = r]

Load == loads < MaxLoads /\ loads' = loads + 1

\* SharedScenarioPage: the link is opened; it asks for the scenario.
FollowLink(t) ==
    /\ Load
    /\ page' = [page EXCEPT ![t] = "opening"]
    /\ CancelOperations(t, Asked)
    /\ tracked' = [tracked EXCEPT ![t] = @ /\ ~Busy(t)]
    /\ UNCHANGED <<row, run, marking, viewVars, reloaded, clicks>>

\* The answer arrives: loadSharedScenario stores the session and opens the Lab,
\* whose hydrate() restores it with an empty collaboration.
Opened(t) ==
    /\ page[t] = "opening"
    /\ poll[t].view # NoView
    /\ page'   = [page EXCEPT ![t] = "lab"]
    /\ Show(t, poll[t].view.reveal)
    /\ collab' = [collab EXCEPT ![t] = Blank]
    /\ poll'   = [poll EXCEPT ![t] = NoPoll]
    /\ reloaded' = [reloaded EXCEPT ![t] = FALSE]
    /\ UNCHANGED <<serverVars, queue, call, loop, tracked, clicks, loads>>

\* 404, or no answer: the error page; its retry button asks again (FollowLink).
OpenFails(t) ==
    /\ page[t] = "opening"
    /\ page' = [page EXCEPT ![t] = "closed"]
    /\ poll' = [poll EXCEPT ![t] = NoPoll]
    /\ UNCHANGED <<serverVars, viewVars, reloaded, queue, call, loop, tracked, clicks, loads>>

\* LabPage mounts, after a reload or coming back from /decisions: hydrate()
\* cancels everything and restores the session from sessionStorage.
Hydrate(t) ==
    /\ Load
    /\ Connected(t)
    /\ CancelOperations(t, NoPoll)
    /\ page'    = [page EXCEPT ![t] = "lab"]
    /\ reveal'  = [reveal EXCEPT ![t] = stored[t]]
    /\ collab'  = [collab EXCEPT ![t] = Blank]
    /\ tracked' = [tracked EXCEPT ![t] = @ /\ ~Busy(t)]
    /\ reloaded' = [reloaded EXCEPT ![t] = TRUE]
    /\ UNCHANGED <<row, run, marking, stored, clicks>>

OpenWorkbench(t) ==
    /\ Load
    /\ page[t] = "lab"
    /\ page' = [page EXCEPT ![t] = "decisions"]
    /\ UNCHANGED <<serverVars, tabVars, clicks>>

\* Another scenario is loaded into the tab.
Leave(t) ==
    /\ Load
    /\ Connected(t)
    /\ CancelOperations(t, NoPoll)
    /\ page'    = [page EXCEPT ![t] = "closed"]
    /\ tracked' = [tracked EXCEPT ![t] = @ /\ ~Busy(t)]
    /\ UNCHANGED <<row, run, marking, viewVars, reloaded, clicks>>

-----------------------------------------------------------------------------
(* Mutations: setInterviewReveal and updateInterviewCollaboration *)

\* Mutant: a mutation does not cancel the refresh that is under way.
KeepRefresh(t) == UNCHANGED poll

\* cancelSharedScenarioRefresh()
CancelRefresh(t) == poll' = [poll EXCEPT ![t] = NoPoll]

\* Which mutations the page offers: the reveal button of the Lab, the journal
\* and the clock of the interview room.
Offered(t) ==
    [n : {clicks + 1}, kind : {"journal"}, value : {TRUE}]
    \cup (IF t \in Hosts
          THEN [n : {clicks + 1}, kind : {"clock"}, value : {~collab[t].clock}]
          ELSE {})

OfferedReveal(t) ==
    [n : {clicks + 1}, kind : {"reveal"}, value : {~reveal[t]}]

Click(t) ==
    /\ clicks < MaxClicks
    /\ clicks' = clicks + 1
    /\ \E op \in (IF page[t] = "decisions" THEN Offered(t)
                  ELSE IF page[t] = "lab" /\ t \in Hosts
                          /\ Policy = "interviewer-controlled"
                       THEN OfferedReveal(t) ELSE {}) :
          queue' = [queue EXCEPT ![t] = Append(@, op)]
    /\ CancelRefresh(t)
    /\ UNCHANGED <<serverVars, page, viewVars, reloaded, call, loop, tracked, loads>>

\* Its turn has come in sharedMutationTail.
MyTurn(t) == queue[t] # <<>> /\ call[t].step = "none"

Send(t) ==
    /\ MyTurn(t)
    /\ call'  = [call EXCEPT ![t] = [step |-> "sent", op |-> Head(queue[t]), view |-> NoView]]
    /\ queue' = [queue EXCEPT ![t] = Tail(@)]
    /\ UNCHANGED <<serverVars, page, viewVars, reloaded, poll, loop, tracked, clicks, loads>>

\* The handler's first query: the scenario exists and the policy allows it.
Check(t) ==
    /\ call[t].step = "sent"
    /\ call' = [call EXCEPT ![t].step =
                   IF row.live /\ Permitted(call[t].op) THEN "checked" ELSE "done"]
    /\ UNCHANGED <<serverVars, page, viewVars, reloaded, queue, poll, loop, tracked, clicks, loads>>

\* Its UPDATE ... RETURNING.
Update(t) ==
    /\ call[t].step = "checked"
    /\ row' = IF row.live THEN Patched(call[t].op) ELSE row
    /\ call' = [call EXCEPT ![t].step = "done",
                            ![t].view = IF row.live THEN View' ELSE NoView]
    /\ UNCHANGED <<run, marking, late, page, viewVars, reloaded, queue, poll, loop,
                   tracked, clicks, loads>>

\* Mutant: the button shows what was clicked, even when the server refused it.
RevealAsClicked(t) ==
    IF call[t].op.kind = "reveal" THEN call[t].op.value ELSE reveal[t]

\* What the button of the tab shows after the answer.
RevealAnswered(t) ==
    IF call[t].op.kind = "reveal" /\ call[t].view # NoView
    THEN call[t].view.reveal ELSE reveal[t]

\* The answer: a reveal sets revealState and collaboration, a patch only the
\* collaboration, an error only the notice.
Answered(t) ==
    /\ call[t].step = "done"
    /\ collab' = [collab EXCEPT ![t] =
                     IF call[t].view = NoView THEN @ ELSE call[t].view.collab]
    /\ reveal' = [reveal EXCEPT ![t] = RevealAnswered(t)]
    /\ call' = [call EXCEPT ![t] = NoCall]
    /\ UNCHANGED <<serverVars, page, stored, reloaded, queue, poll, loop, tracked, clicks, loads>>

\* The connection fails; the handler may still be at work.
CallFails(t) ==
    /\ call[t].step # "none"
    /\ \E L \in Abandoned(t) : late' = late \cup L
    /\ call'    = [call EXCEPT ![t] = NoCall]
    /\ tracked' = [tracked EXCEPT ![t] = FALSE]
    /\ UNCHANGED <<row, run, marking, page, viewVars, reloaded, queue, poll, loop, clicks, loads>>

\* A handler nobody waits for takes its next step.
LateCheck(h) ==
    /\ h.step = "sent"
    /\ late' = (late \ {h}) \cup
               (IF row.live /\ Permitted(h.op) THEN {[h EXCEPT !.step = "checked"]} ELSE {})
    /\ UNCHANGED <<row, run, marking, page, tabVars, clicks, loads>>

LateUpdate(h) ==
    /\ h.step = "checked"
    /\ row' = IF row.live THEN Patched(h.op) ELSE row
    /\ late' = late \ {h}
    /\ UNCHANGED <<run, marking, page, tabVars, clicks, loads>>

-----------------------------------------------------------------------------
(* The candidate's refresh: the six-second interval of LabPage *)

\* Mutant: the interval ends once the criteria are there.
PollsUntilRevealed(t) ==
    /\ page[t] = "lab"
    /\ t \notin Hosts
    /\ Policy = "interviewer-controlled"
    /\ ~Busy(t) /\ ~reveal[t]

Polls(t) ==
    /\ page[t] = "lab"
    /\ t \notin Hosts
    /\ Policy = "interviewer-controlled"
    /\ ~Busy(t)

\* A new refresh aborts the one before it.
Refresh(t) ==
    /\ Polls(t)
    /\ poll' = [poll EXCEPT ![t] = Asked]
    /\ UNCHANGED <<serverVars, page, viewVars, reloaded, queue, call, loop, tracked, clicks, loads>>

\* GET /scenarios/:id reads the row.
RefreshRead(t) ==
    /\ poll[t].step = "sent"
    /\ poll' = [poll EXCEPT ![t] =
                   [step |-> "done", view |-> IF row.live THEN View ELSE NoView]]
    /\ UNCHANGED <<serverVars, page, viewVars, reloaded, queue, call, loop, tracked, clicks, loads>>

\* A scenario whose criteria came or went is a changed scenario: its run is no
\* longer tracked (invalidatedLocalRun).
Refreshed(t) ==
    /\ Connected(t)
    /\ poll[t].view # NoView
    /\ Show(t, poll[t].view.reveal)
    /\ collab' = [collab EXCEPT ![t] = poll[t].view.collab]
    /\ loop' = [loop EXCEPT ![t] = IF poll[t].view.reveal = reveal[t] THEN @ ELSE "idle"]
    /\ poll' = [poll EXCEPT ![t] = NoPoll]
    /\ UNCHANGED <<serverVars, page, reloaded, queue, call, tracked, clicks, loads>>

\* 404 or no answer: best effort, nothing changes.
RefreshFails(t) ==
    /\ Connected(t)
    /\ poll[t].step # "none"
    /\ poll' = [poll EXCEPT ![t] = NoPoll]
    /\ UNCHANGED <<serverVars, page, viewVars, reloaded, queue, call, loop, tracked, clicks, loads>>

-----------------------------------------------------------------------------
(* The canonical run of the candidate and its milestone *)

\* submitCanonical: the run is queued with the interview's id.  plain says that
\* the candidate's scenario carried no revealed criteria.
SubmitRun(t) ==
    /\ page[t] = "lab"
    /\ t \in Candidates
    /\ run.state = "none"
    /\ run'  = [run EXCEPT !.state = "open", !.kept = TRUE, !.plain = ~reveal[t]]
    /\ loop' = [loop EXCEPT ![t] = "polling"]
    /\ UNCHANGED <<row, marking, late, page, viewVars, reloaded, queue, call, poll, tracked,
                   clicks, loads>>

\* The queue settles the run (module RunQueue) ...
RunSettles(outcome) ==
    /\ run.state = "open"
    /\ run' = [run EXCEPT !.state = outcome]
    /\ UNCHANGED <<row, marking, late, page, tabVars, clicks, loads>>

\* ... and may evict or purge it.
RunEvicted ==
    /\ run.state \in {"completed", "failed"}
    /\ run.kept
    /\ run' = [run EXCEPT !.kept = FALSE]
    /\ UNCHANGED <<row, marking, late, page, tabVars, clicks, loads>>

\* POST /scenarios/:id/runs with the id of the run; bound: one handler at a time.
PostMilestone(client) ==
    /\ marking.step \in {"none", "done"}
    /\ marking' = [step |-> "scenario", client |-> client, view |-> NoView]

\* Any client may post it, whether the run has completed or not.
Milestone ==
    /\ Load
    /\ PostMilestone(NoView)
    /\ UNCHANGED <<row, run, late, page, tabVars, clicks>>

\* The loop hears that the run completed, and reports the milestone.
RunHeard(t) ==
    /\ loop[t] = "polling"
    /\ run.state = "completed"
    /\ run.kept
    /\ PostMilestone(t)
    /\ loop' = [loop EXCEPT ![t] = "marking"]
    /\ UNCHANGED <<row, run, late, page, viewVars, reloaded, queue, call, poll, tracked,
                   clicks, loads>>

\* The run failed or is gone, the service did not answer, or 75 polls are over.
LoopEnds(t) ==
    /\ loop[t] # "idle"
    /\ loop' = [loop EXCEPT ![t] = "idle"]
    /\ UNCHANGED <<serverVars, page, viewVars, reloaded, queue, call, poll, tracked, clicks, loads>>

\* Mutant: the milestone takes the client's word for the completed run.
AnyRun == TRUE

\* getRun: a completed run
RunIsCompleted == run.kept /\ run.state = "completed"

\* getRunSubmission and runMatchesSharedScenario
RunMatches == run.kept /\ run.plain

\* The handler's four queries: getScenario, getRun, getRunSubmission and
\* markScenarioRun; the first that fails is the answer.
MilestoneStep ==
    /\ \/ /\ marking.step = "scenario"
          /\ marking' = [marking EXCEPT !.step = IF row.live THEN "run" ELSE "done"]
          /\ UNCHANGED row
       \/ /\ marking.step = "run"
          /\ marking' = [marking EXCEPT !.step = IF RunIsCompleted THEN "match" ELSE "done"]
          /\ UNCHANGED row
       \/ /\ marking.step = "match"
          /\ marking' = [marking EXCEPT !.step = IF RunMatches THEN "mark" ELSE "done"]
          /\ UNCHANGED row
       \/ /\ marking.step = "mark"
          /\ row' = IF row.live THEN [row EXCEPT !.ran = TRUE] ELSE row
          /\ marking' = [marking EXCEPT !.step = "done",
                                        !.view = IF row.live THEN View' ELSE NoView]
    /\ UNCHANGED <<run, late, page, tabVars, clicks, loads>>

\* The answer reaches a loop that is still current; the collaboration it
\* carries is not used.
Marked(t) ==
    /\ loop[t] = "marking"
    /\ marking.client = t
    /\ marking.view # NoView
    /\ Show(t, marking.view.reveal)
    /\ loop'   = [loop EXCEPT ![t] = "idle"]
    /\ UNCHANGED <<serverVars, page, collab, reloaded, queue, call, poll, tracked, clicks, loads>>

\* The candidate edits the design or a requirement: the run is not tracked.
Edit(t) ==
    /\ Load
    /\ page[t] = "lab"
    /\ loop[t] # "idle"
    /\ loop' = [loop EXCEPT ![t] = "idle"]
    /\ UNCHANGED <<serverVars, page, viewVars, reloaded, queue, call, poll, tracked, clicks>>

\* expires_at passes
Expire ==
    /\ row.live
    /\ row' = [row EXCEPT !.live = FALSE]
    /\ UNCHANGED <<run, marking, late, page, tabVars, clicks, loads>>

-----------------------------------------------------------------------------
Init ==
    /\ row     = [live |-> TRUE, flag |-> FALSE, ran |-> FALSE,
                  journal |-> 0, clock |-> FALSE, ver |-> 0]
    /\ run     = [state |-> "none", kept |-> FALSE, plain |-> TRUE]
    /\ marking = [step |-> "none", client |-> NoView, view |-> NoView]
    /\ late    = {}
    /\ page    = [t \in Tabs |-> "closed"]
    /\ reveal  = [t \in Tabs |-> FALSE]
    /\ collab  = [t \in Tabs |-> Blank]
    /\ stored  = [t \in Tabs |-> FALSE]
    /\ queue   = [t \in Tabs |-> <<>>]
    /\ call    = [t \in Tabs |-> NoCall]
    /\ poll    = [t \in Tabs |-> NoPoll]
    /\ loop    = [t \in Tabs |-> "idle"]
    /\ tracked = [t \in Tabs |-> TRUE]
    /\ reloaded = [t \in Tabs |-> FALSE]
    /\ clicks  = 0
    /\ loads   = 0

TabNext(t) ==
    \/ FollowLink(t) \/ Opened(t) \/ OpenFails(t)
    \/ Hydrate(t) \/ OpenWorkbench(t) \/ Leave(t) \/ Edit(t)
    \/ Click(t) \/ Send(t) \/ Check(t) \/ Update(t) \/ Answered(t) \/ CallFails(t)
    \/ Refresh(t) \/ RefreshRead(t) \/ Refreshed(t) \/ RefreshFails(t)
    \/ SubmitRun(t) \/ RunHeard(t) \/ LoopEnds(t) \/ Marked(t)

ServerNext ==
    \/ \E h \in late : LateCheck(h) \/ LateUpdate(h)
    \/ \E outcome \in {"completed", "failed"} : RunSettles(outcome)
    \/ RunEvicted
    \/ Milestone
    \/ MilestoneStep
    \/ Expire

Next == (\E t \in Tabs : TabNext(t)) \/ ServerNext

Spec == Init /\ [][Next]_vars

\* The timer of LabPage fires again and again; a handler answers; and calls that
\* are made again and again are answered at some time.
Fairness ==
    /\ \A t \in Tabs :
          /\ WF_vars(Send(t))
          /\ WF_vars(Check(t))
          /\ WF_vars(Update(t))
          /\ WF_vars(Answered(t))
          /\ SF_vars(Refresh(t))
          /\ SF_vars(RefreshRead(t))
          /\ SF_vars(Refreshed(t))
    /\ \A n \in 1 .. MaxClicks :
          /\ WF_vars(\E h \in late : h.op.n = n /\ LateCheck(h))
          /\ WF_vars(\E h \in late : h.op.n = n /\ LateUpdate(h))

FairSpec == Spec /\ Fairness

-----------------------------------------------------------------------------
(* Properties *)

Collaboration == [journal : 0 .. MaxClicks, clock : BOOLEAN, ver : Nat]
Answers == [reveal : BOOLEAN, collab : Collaboration]
Views  == Answers \cup {NoView}
Ops    == [n : 1 .. MaxClicks, kind : Kinds, value : BOOLEAN]

ASSUME NoViewAssumption == NoView \notin Answers

\* A tab that left its session has nothing under way.
Left(t) == queue[t] = <<>> /\ call[t] = NoCall /\ loop[t] = "idle"

\* Types; and a tab outside the session has no operations of it.
TypeOK ==
    /\ row \in [live : BOOLEAN, flag : BOOLEAN, ran : BOOLEAN,
                journal : 0 .. MaxClicks, clock : BOOLEAN, ver : Nat]
    /\ run \in [state : {"none", "open", "completed", "failed"},
                kept : BOOLEAN, plain : BOOLEAN]
    /\ marking \in [step : {"none", "scenario", "run", "match", "mark", "done"},
                    client : Tabs \cup {NoView}, view : Views]
    /\ late \in SUBSET [step : {"sent", "checked"}, op : Ops]
    /\ page \in [Tabs -> {"closed", "opening", "lab", "decisions"}]
    /\ reveal \in [Tabs -> BOOLEAN]
    /\ stored \in [Tabs -> BOOLEAN]
    /\ collab \in [Tabs -> Collaboration]
    /\ queue \in [Tabs -> Seq(Ops)]
    /\ call \in [Tabs -> {NoCall} \cup
                         [step : {"sent", "checked", "done"}, op : Ops, view : Views]]
    /\ poll \in [Tabs -> [step : {"none", "sent", "done"}, view : Views]]
    /\ loop \in [Tabs -> {"idle", "polling", "marking"}]
    /\ tracked \in [Tabs -> BOOLEAN]
    /\ reloaded \in [Tabs -> BOOLEAN]
    /\ \A t \in Tabs : Connected(t) \/ Left(t)
    /\ clicks \in 0 .. MaxClicks
    /\ loads \in 0 .. MaxLoads

\* docs/architecture.md: "never" remains private, "after-run" reveals only after
\* the API verified a completed run of the interview.  No tab shows criteria
\* earlier, whatever is evicted, expires or is answered late in between.
RevealIsEarned ==
    \A t \in Tabs : reveal[t] \/ stored[t] =>
       /\ Policy # "never"
       /\ Policy = "after-run" => row.ran /\ run.state = "completed" /\ run.plain

\* Criteria that an after-run interview has shown stay in the tab: no older
\* answer and no reload takes them away while the tab is in the session.
RevealIsKept ==
    [][\A t \in Tabs :
          Policy = "after-run" /\ Connected(t) /\ Connected(t)' /\ reveal[t] =>
             reveal'[t]]_vars

\* The answers a tab applies never take its journal and clock back to an older
\* state of the row; only a reload blanks them.
NeverRewinds ==
    [][\A t \in Tabs :
          Connected(t) /\ Connected(t)' =>
             collab'[t] = Blank \/ collab'[t].ver >= collab[t].ver]_vars

\* With one interviewer: as long as every mutation of the tab was answered and it
\* was not reloaded, an idle tab shows the reveal state the server has, in
\* whatever order it was revealed and concealed.
HostAgrees ==
    \A t \in Hosts :
       (Hosts = {t} /\ Policy = "interviewer-controlled" /\ Connected(t)
           /\ tracked[t] /\ ~reloaded[t] /\ ~Busy(t)) => reveal[t] = row.flag

\* A candidate who stays in the Lab of an interviewer-controlled interview ends up
\* with the reveal state, the journal and the clock the server has.
CandidateFollows ==
    \A t \in Candidates :
       (Policy = "interviewer-controlled" /\ <>[](page[t] = "lab" /\ row.live)) =>
          <>[](reveal[t] = Revealed /\ collab[t] = View.collab)

\* ScenarioDesignerPage.tsx: "Server-backed interview links synchronize reveal
\* state."
HostRevealSynchronizes ==
    \A t \in Hosts :
       <>[](page[t] = "lab" /\ row.live /\ tracked[t]) => <>[](reveal[t] = Revealed)
=============================================================================
