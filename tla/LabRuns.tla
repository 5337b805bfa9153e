------------------------------- MODULE LabRuns -------------------------------
(***************************************************************************)
(* The Lab store's runLocal, of which several invocations overlap: each    *)
(* run has a continuation that waits for its session, then for the digest  *)
(* of its evidence and for the run library, while the user starts other    *)
(* runs, opens forks and edits the design.  The session itself is the      *)
(* subject of LocalSession; here a command and its answer are one step.    *)
(***************************************************************************)
EXTENDS Integers, Sequences, FiniteSets, LabBounds

Runs == 1 .. MaxRuns
NoRun == 0

VARIABLES
  private,    \* the scenario holds private interview content: nothing enters the library
  revision,   \* scenarioRevision and architectureRevision of the design
  session,    \* localRunSession: the run the store shows and its state
  runState,   \* idle, running, complete, error
  shown,      \* localRunFrames: the seconds on screen
  result,     \* the run whose result the store holds
  artifact,   \* the run whose evidence the store holds
  active,     \* activeLocalSimulation
  library,    \* entries of the run library
  runs,       \* runs started so far
  rec         \* per run: what its continuation waits for, and its session

vars == <<private, revision, session, runState, shown, result, artifact, active, library, runs, rec>>

Unused == [phase |-> "unused", play |-> "none", sent |-> 0, rev |-> 0, fork |-> FALSE, outcome |-> "none"]

\* Mutant: the identity is not compared.
MatchesAnySession(r) == session.run # NoRun

\* currentLocalRunMatches
Matches(r) == session.run = r /\ rec[r].rev = revision

-----------------------------------------------------------------------------
(* Starting and cancelling                                                 *)

\* cancelActiveLocalSimulation, before the store is pointed elsewhere: the
\* continuation of the old run then finds that it no longer matches, and returns.
Superseded ==
  IF active # NoRun /\ rec[active].phase = "playing"
    THEN [rec EXCEPT ![active].phase = "done", ![active].play = "settled", ![active].outcome = "cancelled"]
    ELSE rec

\* The "finally" of a continuation lets go of its own session only.
Released(r) == IF active = r THEN NoRun ELSE active

\* The end of the catch path.  Without a private scenario it comes after an await.
Terminate(r, outcome, held) ==
  /\ runState' = IF outcome = "cancelled" THEN "idle" ELSE "error"
  /\ session' = IF outcome = "cancelled" /\ held.run # NoRun THEN [held EXCEPT !.state = "cancelled"] ELSE held
  /\ shown' = IF outcome = "failed" /\ rec'[r].fork THEN <<>> ELSE shown

\* A fork starts with the frames delivered before its cursor.
FramesAtStart(fork) == IF fork THEN shown ELSE <<>>

\* startLocalSimulation creates no worker when the work, the output, the topology or
\* the browser stands against it: it returns a session whose result has failed.
Rejected(begun) == [begun EXCEPT !.phase = IF private THEN "done" ELSE "recording",
                                 !.play = "settled", !.outcome = "failed"]

\* runLocal up to its first await.  The admission checks of startLocalSimulation may
\* refuse the run: then no message ever moves the store's session out of "starting".
Start(fork) ==
  LET r == runs + 1
      begun == [phase |-> "playing", play |-> "starting", sent |-> IF fork THEN Len(shown) ELSE 0,
                rev |-> revision, fork |-> fork, outcome |-> "none"]
  IN /\ runs < MaxRuns
     /\ runs' = r
     /\ session' = [run |-> r, state |-> "starting"]
     /\ result' = NoRun
     /\ UNCHANGED <<private, revision, artifact, library>>
     /\ \/ /\ rec' = [Superseded EXCEPT ![r] = begun]
           /\ active' = r
           /\ runState' = "running"
           /\ shown' = FramesAtStart(fork)
        \/ /\ rec' = [Superseded EXCEPT ![r] = Rejected(begun)]
           /\ active' = IF private THEN NoRun ELSE r
           /\ runState' = IF private THEN "error" ELSE "running"
           /\ shown' = IF private /\ fork THEN <<>> ELSE FramesAtStart(fork)

RunLocal == Start(FALSE)

\* openLocalRunFork of a fork captured at the cursor of the paused run.
OpenFork ==
  /\ session.state = "paused"
  /\ Start(TRUE)

\* Mutant: the result outlives the design it was computed for.
InvalidatedButResult ==
  /\ session' = [run |-> NoRun, state |-> "none"]
  /\ runState' = "idle"
  /\ shown' = <<>>
  /\ UNCHANGED result

\* invalidatedLocalRun
Invalidated ==
  /\ session' = [run |-> NoRun, state |-> "none"]
  /\ runState' = "idle"
  /\ shown' = <<>>
  /\ result' = NoRun

\* A new scenario or architecture.
Edit ==
  /\ revision < MaxEdits
  /\ revision' = revision + 1
  /\ rec' = Superseded
  /\ active' = NoRun
  /\ Invalidated
  /\ UNCHANGED <<private, artifact, library, runs>>

-----------------------------------------------------------------------------
(* The session of a run                                                    *)

Playing(r) == rec[r].phase = "playing"

\* onStateChange of a live session.
Moves(r, from, to) ==
  /\ Playing(r)
  /\ rec[r].play \in from
  /\ rec' = [rec EXCEPT ![r].play = to]
  /\ IF Matches(r)
       THEN session' = [session EXCEPT !.state = to] /\ runState' = "running"
       ELSE UNCHANGED <<session, runState>>
  /\ UNCHANGED <<private, revision, shown, result, artifact, active, library, runs>>

\* A fork reports that it is paused before it plays.
Started(r) == Moves(r, {"starting"}, IF rec[r].fork THEN "paused" ELSE "running")

Pause(r) == active = r /\ Matches(r) /\ session.state = "running" /\ Moves(r, {"running"}, "paused")
Resume(r) == active = r /\ Matches(r) /\ session.state = "paused" /\ Moves(r, {"paused"}, "running")

MoreFrames(r) == rec[r].sent < Frames

\* onBatch: splice at the offset of the batch, clamped to what is shown.
Batch(r) ==
  /\ Playing(r)
  /\ rec[r].play = "running"
  /\ MoreFrames(r)
  /\ rec' = [rec EXCEPT ![r].sent = @ + 1]
  /\ shown' = IF Matches(r)
                THEN IF rec[r].sent < Len(shown) THEN [shown EXCEPT ![rec[r].sent + 1] = rec[r].sent]
                     ELSE Append(shown, rec[r].sent)
                ELSE shown
  /\ UNCHANGED <<private, revision, session, runState, result, artifact, active, library, runs>>

\* The result arrives and the continuation goes on up to the evidence's digest.
Complete(r) ==
  /\ Playing(r)
  /\ rec[r].play = "running"
  /\ rec[r].sent = Frames
  /\ rec' = [rec EXCEPT ![r].phase = IF Matches(r) THEN "artifact" ELSE "done",
                        ![r].play = "settled", ![r].outcome = "completed"]
  /\ IF Matches(r)
       THEN /\ session' = [session EXCEPT !.state = "complete"]
            /\ runState' = "complete"
            /\ result' = r
            /\ UNCHANGED active
       ELSE UNCHANGED <<session, runState, result>> /\ active' = Released(r)
  /\ UNCHANGED <<private, revision, shown, artifact, library, runs>>

\* The session settles without a result; the continuation enters its catch path.
Settles(r, outcome) ==
  /\ Playing(r)
  /\ rec' = [rec EXCEPT ![r].phase = IF Matches(r) /\ ~private THEN "recording" ELSE "done",
                        ![r].play = "settled", ![r].outcome = outcome]
  /\ active' = IF outcome = "cancelled" \/ ~Matches(r) \/ private THEN Released(r) ELSE active
  /\ LET state == IF outcome = "cancelled" THEN "cancelled" ELSE "error"
     IN CASE ~Matches(r) -> UNCHANGED <<session, runState, shown>>
          [] Matches(r) /\ private -> Terminate(r, outcome, [session EXCEPT !.state = state])
          [] OTHER -> /\ session' = [session EXCEPT !.state = state]
                      /\ runState' = IF outcome = "cancelled" THEN "idle" ELSE "error"
                      /\ UNCHANGED shown
  /\ UNCHANGED <<private, revision, result, artifact, library, runs>>

Fail(r) == Settles(r, "failed")

\* cancelLocalRun: a session that has settled ignores it, but the store lets go of it.
Cancel(r) ==
  /\ active = r
  /\ \/ Settles(r, "cancelled")
     \/ /\ ~Playing(r)
        /\ active' = NoRun
        /\ UNCHANGED <<private, revision, session, runState, shown, result, artifact, library, runs, rec>>

-----------------------------------------------------------------------------
(* The continuations                                                       *)

Entry(r) == [run |-> r, status |-> rec[r].outcome]

\* addLocalRunHistoryRecord of a cancelled or failed run returns or fails.  What
\* follows does not ask whether the store still shows this run.
TerminalRecorded(r) ==
  /\ rec[r].phase = "recording"
  /\ rec' = [rec EXCEPT ![r].phase = "done"]
  /\ library' \in {library, library \cup {Entry(r)}}
  /\ Terminate(r, rec[r].outcome, session)
  /\ active' = Released(r)
  /\ UNCHANGED <<private, revision, result, artifact, runs>>

\* createCompletedRunArtifact returns or fails.
ArtifactMade(r) ==
  /\ rec[r].phase = "artifact"
  /\ \/ /\ Matches(r)
        /\ artifact' = r
        /\ rec' = [rec EXCEPT ![r].phase = IF private THEN "done" ELSE "adding"]
     \/ /\ UNCHANGED artifact
        /\ rec' = [rec EXCEPT ![r].phase = "done"]
  /\ active' = IF rec'[r].phase = "done" THEN Released(r) ELSE active
  /\ UNCHANGED <<private, revision, session, runState, shown, result, library, runs>>

\* addLocalRunHistoryRecord of a completed run.
CompletedRecorded(r) ==
  /\ rec[r].phase = "adding"
  /\ rec' = [rec EXCEPT ![r].phase = "done"]
  /\ library' \in {library, library \cup {Entry(r)}}
  /\ active' = Released(r)
  /\ UNCHANGED <<private, revision, session, runState, shown, result, artifact, runs>>

-----------------------------------------------------------------------------

Init ==
  /\ private \in BOOLEAN
  /\ revision = 0
  /\ session = [run |-> NoRun, state |-> "none"]
  /\ runState = "idle"
  /\ shown = <<>>
  /\ result = NoRun
  /\ artifact = NoRun
  /\ active = NoRun
  /\ library = {}
  /\ runs = 0
  /\ rec = [r \in Runs |-> Unused]

RunNext(r) ==
  \/ Started(r) \/ Pause(r) \/ Resume(r) \/ Batch(r) \/ Complete(r) \/ Fail(r) \/ Cancel(r)
  \/ TerminalRecorded(r) \/ ArtifactMade(r) \/ CompletedRecorded(r)

Next == RunLocal \/ OpenFork \/ Edit \/ \E r \in Runs : RunNext(r)

Spec == Init /\ [][Next]_vars

-----------------------------------------------------------------------------
(* Properties                                                              *)

SessionStates == {"none", "starting", "running", "paused", "cancelled", "complete", "error"}

TypeOK ==
  /\ private \in BOOLEAN
  /\ revision \in 0 .. MaxEdits
  /\ session \in [run : Runs \cup {NoRun}, state : SessionStates]
  /\ runState \in {"idle", "running", "complete", "error"}
  /\ shown \in Seq(Nat)
  /\ result \in Runs \cup {NoRun}
  /\ artifact \in Runs \cup {NoRun}
  /\ active \in Runs \cup {NoRun}
  /\ library \subseteq [run : Runs, status : {"completed", "cancelled", "failed"}]
  /\ runs \in 0 .. MaxRuns
  /\ rec \in [Runs -> [phase : {"unused", "playing", "recording", "artifact", "adding", "done"},
                       play : {"none", "starting", "running", "paused", "settled"},
                       sent : 0 .. Frames, rev : 0 .. MaxEdits, fork : BOOLEAN,
                       outcome : {"none", "completed", "cancelled", "failed"}]]

\* At most one session plays, and it is the one the store's commands reach: a run
\* that is superseded or invalidated is cancelled, and no older continuation lets go
\* of a newer run's session.
OnePlays == \A r \in Runs : Playing(r) => active = r

\* The result on screen is of the run the store shows, for the design as it is now,
\* and that run completed.  In a private scenario, where no continuation awaits the
\* library, each of its frames is shown once and in order, also when it began with
\* those of a fork.
ResultIsCurrent ==
  result # NoRun =>
    /\ result = session.run
    /\ rec[result].rev = revision
    /\ rec[result].outcome = "completed"
    /\ private => shown = [i \in 1 .. Frames |-> i - 1]

\* The evidence the store retains never goes back to an older run, however long the
\* digest of that one takes.
EvidenceNeverGoesBack == [][artifact' >= artifact]_artifact

\* A run that plays is what the store shows, in the state its session is in: the late
\* end of an earlier run does not touch it.
PlayingIsShown ==
  \A r \in Runs : Playing(r) =>
    session.run = r /\ session.state = rec[r].play /\ runState = "running"
=============================================================================
