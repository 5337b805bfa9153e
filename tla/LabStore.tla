------------------------------ MODULE LabStore ------------------------------
(***************************************************************************)
(* The design in the Lab store of one tab: scenario, architecture and role *)
(* with their history, what was computed from them, and the drafts and the *)
(* session that outlive the page.  hydrate awaits the run library or the   *)
(* decoder of a share link between its first and its last change, and the  *)
(* page takes input all the while.  The runs themselves are the subject of *)
(* LabRuns, the shared session that of InterviewSession.                   *)
(*                                                                         *)
(* A scenario is its mode, what it shows of the private criteria, and one  *)
(* goal the candidate adds or removes.  Objects are compared by identity   *)
(* in the code; here each request remembers whether they were replaced.    *)
(***************************************************************************)
EXTENDS Integers, Sequences, SequencesExt, FiniteSets

CONSTANTS
  Architectures, DefaultArchitecture,
  HistoryLimit,   \* HISTORY_LIMIT
  MaxRequests,    \* bound: solver requests in flight
  MaxSteps,       \* bound: what the user does
  None

VARIABLES
  scenario, architecture, role,
  undo, redo,     \* architectureUndo and architectureRedo
  transient,      \* what a drag began from
  solver,         \* solverResult
  solving,        \* solverState
  requests,       \* solves in flight
  evidence,       \* the inputs of completedRunArtifact
  link,           \* the shared session the store is in: "host", "guest" or None
  page,           \* "lab", or "away" on another page
  loading,        \* the hydration at work
  intent,         \* pendingImportedReplay
  draft,          \* systemforge:draft in localStorage
  privateDraft,   \* systemforge:interviewer-draft in sessionStorage
  kept,           \* systemforge:session in sessionStorage
  snapshots,      \* architectureSnapshots
  shelf,          \* systemforge:architecture-snapshots in localStorage
  steps,
  committed,      \* history: architectures that were persisted or cut off
  raced           \* history: hydrate ended over a newer solve, load, fork or snapshot

design  == <<scenario, architecture, role>>
history == <<undo, redo, transient, committed>>
solves  == <<solver, solving, requests>>
storage == <<draft, privateDraft, kept, shelf>>
labVars == <<design, history, solves, evidence, snapshots, link, page, loading, intent, storage, steps, raced>>

Scenarios == [mode : {"guided", "interview"}, criteria : {"none", "hidden", "public"}, goal : BOOLEAN]
Designs   == [scenario : Scenarios, architecture : Architectures]
Guided    == [mode |-> "guided", criteria |-> "none", goal |-> FALSE]
Interview(criteria) == [mode |-> "interview", criteria |-> criteria, goal |-> FALSE]

\* candidateScenario: revealed criteria are public requirements and stay.
Candidate(s) == [s EXCEPT !.criteria = IF @ = "hidden" THEN "none" ELSE @]

-----------------------------------------------------------------------------
(* What many operations do.                                                *)

\* Mutant: the private draft stays in a tab that became a participant's.
PersistOnly(s, a, r) ==
  /\ draft' = [scenario |-> Candidate(s), architecture |-> a]
  /\ privateDraft' = IF r = "interviewer" /\ s.mode = "interview"
                     THEN [scenario |-> s, architecture |-> a] ELSE privateDraft

\* persistDraft
Persist(s, a, r) ==
  /\ draft' = [scenario |-> Candidate(s), architecture |-> a]
  /\ privateDraft' = IF r = "interviewer" /\ s.mode = "interview"
                     THEN [scenario |-> s, architecture |-> a] ELSE None

Push(h, a) == LET longer == Append(h, a)
              IN IF Len(longer) > HistoryLimit THEN Tail(longer) ELSE longer

\* solverResult, solverState and solverExecution cleared.
NoSolver == solver' = None /\ solving' = "idle"

\* completedRunArtifact cleared.

NoEvidence == evidence' = None

\* The requests in flight lose the sequence, or only the objects they were for.
Outrun   == requests' = {[r EXCEPT !.latest = FALSE, !.same = FALSE] : r \in requests}
Replaced == requests' = {[r EXCEPT !.same = FALSE] : r \in requests}

User == page = "lab" /\ (intent = None \/ loading # None) /\ steps < MaxSteps /\ steps' = steps + 1

\* A solve, a load, a fork or a snapshot while hydrate waits is outlived by its end.
Touched == loading' = IF loading = None THEN None ELSE [loading EXCEPT !.touched = TRUE]

-----------------------------------------------------------------------------
(* Editing.                                                                *)

Base == IF transient = None THEN architecture ELSE transient

\* setArchitecture, and with it a restored snapshot or a solver's candidate.
EditArchitecture(a) ==
  /\ User
  /\ architecture' = a /\ undo' = Push(undo, Base) /\ redo' = <<>> /\ transient' = None
  /\ NoSolver /\ Outrun
  /\ Persist(scenario, a, role) /\ committed' = committed \cup {a}
  /\ UNCHANGED <<scenario, role, evidence, link, page, loading, intent, kept, snapshots, shelf, raced>>

\* setArchitectureTransient: a node is dragged, or moved by a key.
Drag(a) ==
  /\ User
  /\ architecture' = a /\ transient' = Base
  /\ NoSolver /\ Outrun
  /\ UNCHANGED <<scenario, role, undo, redo, committed, evidence, link, page, loading, intent,
                 draft, privateDraft, kept, snapshots, shelf, raced>>

\* commitArchitectureTransient
Commit ==
  /\ User /\ transient # None
  /\ undo' = Push(undo, transient) /\ redo' = <<>> /\ transient' = None
  /\ Persist(scenario, architecture, role) /\ committed' = committed \cup {architecture}
  /\ UNCHANGED <<scenario, architecture, role, solver, solving, requests, evidence, link, page,
                 loading, intent, kept, snapshots, shelf, raced>>

\* saveArchitectureSnapshot and removeArchitectureSnapshot write back the list in
\* memory, which before the first hydrate is through is not the stored one.
SaveSnapshots(list) ==
  /\ User
  /\ snapshots' = list /\ shelf' = list
  /\ Touched
  /\ UNCHANGED <<scenario, architecture, role, undo, redo, transient, committed, solver, solving,
                 requests, evidence, link, page, intent, draft, privateDraft, kept, raced>>

\* The architecture of an undo, a redo or a cancelled drag.
Return(a) ==
  /\ User
  /\ architecture' = a /\ transient' = None
  /\ NoSolver /\ Outrun
  /\ Persist(scenario, a, role) /\ committed' = committed \cup {a}
  /\ UNCHANGED <<scenario, role, evidence, link, page, loading, intent, kept, snapshots, shelf, raced>>

\* undoArchitecture and redoArchitecture end a drag first.
CancelDrag == transient # None /\ Return(transient) /\ UNCHANGED <<undo, redo>>

Undo ==
  /\ transient = None /\ undo # <<>>
  /\ Return(Last(undo))
  /\ undo' = Front(undo)
  /\ redo' = SubSeq(<<architecture>> \o redo, 1,
                    IF Len(redo) < HistoryLimit THEN Len(redo) + 1 ELSE HistoryLimit)

Redo ==
  /\ transient = None /\ redo # <<>>
  /\ Return(Head(redo))
  /\ undo' = Push(undo, architecture) /\ redo' = Tail(redo)

\* setScenario, updateRequirement, removeRequirement.
ChangeScenario(s) ==
  /\ User
  /\ scenario' = s
  /\ NoSolver /\ Outrun
  /\ Persist(s, architecture, role) /\ committed' = committed \cup {architecture}
  /\ UNCHANGED <<architecture, role, undo, redo, transient, evidence, link, page, loading, intent,
                 kept, snapshots, shelf, raced>>

\* Another goal, or a scenario of the catalogue.
Changes == {[scenario EXCEPT !.goal = ~@], Guided}

-----------------------------------------------------------------------------
(* Solving.                                                                *)

\* solveAlternatives, up to its await.
Solve ==
  /\ User /\ Cardinality(requests) < MaxRequests
  /\ requests' = {[r EXCEPT !.latest = FALSE] : r \in requests} \cup
                 {[scenario |-> scenario, architecture |-> architecture,
                   hidden |-> role = "interviewer", latest |-> TRUE, same |-> TRUE]}
  /\ solver' = None /\ solving' = "running"
  /\ Touched
  /\ UNCHANGED <<scenario, architecture, role, undo, redo, transient, committed, evidence, link,
                 page, intent, draft, privateDraft, kept, snapshots, shelf, raced>>

\* Mutant: an answer is applied to whatever design is there.
LandsAlways(r) == TRUE

Lands(r) == r.latest /\ r.same

\* solveArchitectureWithFallback returns or fails, on whatever page.
Solved(r, succeeds) ==
  /\ requests' = requests \ {r}
  /\ IF ~Lands(r) THEN UNCHANGED <<solver, solving>>
     ELSE IF succeeds
     THEN /\ solver' = [scenario |-> r.scenario, architecture |-> r.architecture, hidden |-> r.hidden]
          /\ solving' = "complete"
     ELSE UNCHANGED solver /\ solving' = "error"
  /\ UNCHANGED <<scenario, architecture, role, undo, redo, transient, committed, evidence, link,
                 page, loading, intent, draft, privateDraft, kept, snapshots, shelf, steps, raced>>

-----------------------------------------------------------------------------
(* Completed runs.                                                         *)

\* A local run completes: its evidence holds the design it was run with.
CompleteRun ==
  /\ User
  /\ evidence' = [scenario |-> scenario, architecture |-> architecture]
  /\ UNCHANGED <<scenario, architecture, role, undo, redo, transient, committed, solver, solving,
                 requests, link, page, loading, intent, draft, privateDraft, kept, snapshots, shelf, raced>>

\* The design is replaced by a run's inputs: what was on screen, committed or
\* not, can be undone.
Reopen(s, a, r) ==
  /\ scenario' = s /\ architecture' = a /\ role' = r
  /\ undo' = Push(undo, architecture) /\ redo' = <<>> /\ transient' = None
  /\ NoSolver /\ Outrun
  /\ Persist(s, a, r) /\ committed' = committed \cup {architecture, a}

\* replayCompletedRun
Replay ==
  /\ User /\ evidence # None
  /\ Reopen(evidence.scenario, evidence.architecture, role)
  /\ UNCHANGED <<evidence, link, page, loading, intent, kept, snapshots, shelf, raced>>

\* forkCompletedRun leaves the shared session, but not the role.
Fork ==
  /\ User /\ evidence # None
  /\ Reopen(evidence.scenario, evidence.architecture, role)
  /\ link' = None /\ kept' = None
  /\ Touched
  /\ UNCHANGED <<evidence, page, intent, snapshots, shelf, raced>>

\* queueImportedReplay on the replay page: bundles are of candidate-safe runs.
QueueReplay(s, a) ==
  /\ page = "away" /\ steps < MaxSteps /\ steps' = steps + 1
  /\ intent' = [scenario |-> s, architecture |-> a]
  /\ UNCHANGED <<scenario, architecture, role, undo, redo, transient, committed, solver, solving,
                 requests, evidence, link, page, loading, draft, privateDraft, kept, snapshots, shelf, raced>>

\* consumeQueuedImportedReplay, once hydrate is through: expired or refused, or
\* replayImportedBundle.
ConsumeReplay ==
  /\ page = "lab" /\ loading = None /\ intent # None
  /\ intent' = None
  /\ \/ UNCHANGED <<scenario, architecture, role, undo, redo, transient, committed, solver,
                    solving, requests, evidence, link, draft, privateDraft, kept>>
     \/ /\ Reopen(Candidate(intent.scenario), intent.architecture, "participant")
        /\ NoEvidence /\ link' = None /\ kept' = None
  /\ UNCHANGED <<page, loading, snapshots, shelf, steps, raced>>

-----------------------------------------------------------------------------
(* Loading.                                                                *)

\* loadSharedScenario: from the designer without a session, from a link with one.
Load(s, a, r, session) ==
  /\ page = "away" /\ steps < MaxSteps /\ steps' = steps + 1
  /\ scenario' = s /\ architecture' = a /\ role' = r
  /\ link' = session /\ kept' = session
  /\ NoEvidence /\ transient' = None
  /\ NoSolver /\ Outrun
  /\ Persist(s, a, r) /\ committed' = committed \cup {a}
  /\ loading' = IF loading = None THEN None
                ELSE [loading EXCEPT !.current = FALSE, !.touched = @ \/ loading.share = None]
  /\ UNCHANGED <<undo, redo, page, intent, snapshots, shelf, raced>>

Loads ==
  {<<Guided, "participant", None>>, <<Interview("hidden"), "interviewer", None>>,
   <<Interview("hidden"), "interviewer", "host">>,
   <<Interview("none"), "participant", "guest">>, <<Interview("public"), "participant", "guest">>}

\* refreshSharedScenario, of a candidate whom the interviewer controls: the
\* server's scenario with the candidate's own goals.
Refresh(revealed) ==
  LET s == [Interview(IF revealed THEN "public" ELSE "none") EXCEPT !.goal = scenario.goal] IN
  /\ page = "lab" /\ link = "guest" /\ role = "participant" /\ scenario.mode = "interview"
  /\ scenario.criteria = "public" => revealed
  /\ scenario' = s
  /\ NoSolver
  /\ IF s # scenario THEN Outrun ELSE Replaced
  /\ Persist(s, architecture, role) /\ committed' = committed \cup {architecture}
  /\ kept' = link
  /\ UNCHANGED <<architecture, role, undo, redo, transient, evidence, link, page, loading, intent,
                 snapshots, shelf, steps, raced>>

\* The payloads of share links; the last one does not decode.
Shares == {[scenario |-> Interview("hidden"), role |-> "interviewer"],
           [scenario |-> Interview("hidden"), role |-> "participant"],
           [scenario |-> Guided, role |-> "invalid"]}

\* What a hydration works with; current until another scenario is loaded.
Loadings == [share : {None} \cup Shares, session : {"host", "guest", None},
             snapshots : SUBSET Architectures, current : BOOLEAN, touched : BOOLEAN]

ASSUME StoreAssumption ==
  /\ DefaultArchitecture \in Architectures /\ HistoryLimit \in Nat /\ MaxSteps \in Nat
  /\ None \notin Architectures \cup Designs \cup Loadings \cup {"host", "guest"}

\* LabPage mounts: hydrate, up to its await; one that is still at work is joined.
\* share is None or the payload of a link.
Mount(share) ==
  /\ page = "away" /\ steps < MaxSteps /\ steps' = steps + 1
  /\ page' = "lab"
  /\ IF loading # None
     THEN UNCHANGED <<scenario, role, transient, solver, solving, requests, evidence, link,
                      loading, privateDraft, kept, raced, committed>>
     ELSE /\ committed' = committed \cup {architecture}
          /\ scenario' = Candidate(scenario) /\ role' = "participant"
          /\ transient' = None /\ NoEvidence /\ link' = None
          /\ NoSolver /\ Outrun
          /\ loading' = [share |-> share, session |-> kept, snapshots |-> shelf,
                        current |-> TRUE, touched |-> FALSE]
          /\ IF share = None THEN UNCHANGED <<privateDraft, kept>>
             ELSE privateDraft' = None /\ kept' = None
          /\ raced' = FALSE
  /\ UNCHANGED <<architecture, undo, redo, intent, draft, snapshots, shelf>>

\* What the drafts and a session restore.
Restored(session) ==
  IF privateDraft # None /\ session # "guest"
  THEN [scenario |-> privateDraft.scenario, architecture |-> privateDraft.architecture,
        role |-> "interviewer"]
  ELSE IF draft # None
  THEN [scenario |-> IF session = "host" THEN draft.scenario ELSE Candidate(draft.scenario),
        architecture |-> draft.architecture,
        role |-> IF session = "host" THEN "interviewer" ELSE "participant"]
  ELSE [scenario |-> Guided, architecture |-> DefaultArchitecture, role |-> "participant"]

\* What a share link holds; an invalid one leaves the candidate's view.
Opened(share) ==
  IF share.role = "invalid"
  THEN [scenario |-> Candidate(scenario), architecture |-> architecture, role |-> "participant"]
  ELSE [scenario |-> IF share.role = "interviewer" THEN share.scenario ELSE Candidate(share.scenario),
        architecture |-> DefaultArchitecture, role |-> share.role]

\* The last change of hydrate.  A newer load is looked for on the way of a share
\* link only.
HydrateEnds ==
  LET plain == loading.share = None
      next == IF plain THEN Restored(loading.session) ELSE Opened(loading.share)
      nothing == plain /\ draft = None /\ (privateDraft = None \/ loading.session = "guest")
  IN
  /\ loading # None /\ loading' = None
  /\ snapshots' = loading.snapshots /\ raced' = loading.touched
  /\ IF ~plain /\ ~loading.current
     THEN UNCHANGED <<scenario, architecture, role, committed, requests, link, draft,
                      privateDraft, kept>>
     ELSE /\ scenario' = next.scenario /\ architecture' = next.architecture /\ role' = next.role
          /\ Replaced
          /\ link' = IF plain /\ ~nothing THEN loading.session ELSE None
          /\ IF nothing THEN draft' = None /\ privateDraft' = None /\ kept' = None
             ELSE Persist(next.scenario, next.architecture, next.role) /\ UNCHANGED kept
          /\ committed' = committed \cup {next.architecture}
  /\ UNCHANGED <<undo, redo, transient, solver, solving, evidence, page, intent, shelf, steps>>

\* LabPage unmounts; its intent is not consumed any more.
Leave ==
  /\ User
  /\ page' = "away" /\ intent' = None
  /\ UNCHANGED <<scenario, architecture, role, undo, redo, transient, committed, solver, solving,
                 requests, evidence, link, loading, draft, privateDraft, kept, snapshots, shelf, raced>>

\* The tab is reloaded, or crashes and is restored: only storage is left.
Reload ==
  /\ steps < MaxSteps /\ steps' = steps + 1
  /\ scenario' = Guided /\ architecture' = DefaultArchitecture /\ role' = "participant"
  /\ undo' = <<>> /\ redo' = <<>> /\ transient' = None /\ committed' = {DefaultArchitecture}
  /\ NoSolver /\ requests' = {}
  /\ evidence' = None /\ link' = None /\ page' = "away" /\ loading' = None /\ intent' = None
  /\ raced' = FALSE /\ snapshots' = {}
  /\ UNCHANGED <<draft, privateDraft, kept, shelf>>

-----------------------------------------------------------------------------

LabInit ==
  /\ scenario = Guided /\ architecture = DefaultArchitecture /\ role = "participant"
  /\ undo = <<>> /\ redo = <<>> /\ transient = None /\ committed = {DefaultArchitecture}
  /\ solver = None /\ solving = "idle" /\ requests = {}
  /\ evidence = None /\ link = None /\ page = "away" /\ loading = None /\ intent = None
  /\ draft = None /\ privateDraft = None /\ kept = None /\ snapshots = {} /\ shelf = {}
  /\ steps = 0 /\ raced = FALSE

LabNext ==
  \/ \E a \in Architectures : EditArchitecture(a) \/ Drag(a) \/ QueueReplay(Guided, a)
                              \/ \E l \in Loads : Load(l[1], a, l[2], l[3])
  \/ SaveSnapshots(snapshots \cup {architecture})
  \/ \E a \in snapshots : SaveSnapshots(snapshots \ {a})
  \/ Commit \/ CancelDrag \/ Undo \/ Redo
  \/ \E s \in Changes : ChangeScenario(s)
  \/ Solve
  \/ \E r \in requests, succeeds \in BOOLEAN : Solved(r, succeeds)
  \/ CompleteRun \/ Replay \/ Fork \/ ConsumeReplay
  \/ \E revealed \in BOOLEAN : Refresh(revealed)
  \/ \E share \in {None} \cup Shares : Mount(share)
  \/ HydrateEnds \/ Leave \/ Reload

LabSpec == LabInit /\ [][LabNext]_labVars

-----------------------------------------------------------------------------
(* Properties.                                                             *)

\* hydrate is through and nothing is being dragged.
Quiet == page = "lab" /\ loading = None /\ transient = None

\* Whenever the tab is reloaded, hydrate brings back what is on screen: the
\* scenario with an interviewer's private criteria, the architecture, the role,
\* the shared session and the named snapshots.  A role without an interview is
\* kept by its session only.  A plain hydrate that ends over a newer load of a
\* scenario shows it with the older session (useLabStore.ts:607 does not look), and is excluded.
ReloadRestores ==
  Quiet /\ ~raced =>
    LET again == Restored(kept) IN
    /\ again.architecture = architecture /\ again.scenario = scenario /\ kept = link
    /\ scenario.mode = "interview" => again.role = role
    /\ shelf = snapshots

\* Nothing made from the interviewer's private criteria is left where the tab is a
\* candidate's: neither the scenario, nor a solver's comparison, nor the inputs a
\* completed run could be replayed from.  The draft in localStorage never has them.
CriteriaStayPrivate ==
  /\ role = "participant" /\ ~raced =>
       /\ scenario.criteria # "hidden"
       /\ solver # None => ~solver.hidden
       /\ evidence # None => evidence.scenario.criteria # "hidden"
  /\ draft # None => draft.scenario.criteria # "hidden"

\* A comparison on screen is of the design on screen, and a solve that is shown as
\* running will be answered, unless hydrate replaced the design it was begun or
\* finished in: its last change neither clears the solver nor outruns its requests.
SolverFits ==
  ~raced =>
    /\ solver # None => solver.scenario = scenario /\ solver.architecture = architecture
    /\ solving = "running" => \E r \in requests : Lands(r)

\* What was computed in the Lab fits what the Lab shows: the design, and the role.
ComputedFits == SolverFits /\ CriteriaStayPrivate

\* Undo and redo return to architectures the user had committed, or had on screen
\* when a replay, a fork or hydrate cut a drag off; never to a step of a drag.
HistoryIsCommitted ==
  /\ Range(undo) \cup Range(redo) \subseteq committed
  /\ transient # None => transient \in committed

\* What the user drew is kept: across reloads, and in the history of changes.
DesignIsKept == ReloadRestores /\ HistoryIsCommitted
=============================================================================
