------------------------------ MODULE LabProofs ------------------------------
(***************************************************************************)
(* Proofs about the store of the Lab.  About LabRuns, for every number of  *)
(* runs, edits and frames: the store only ever shows its newest run, which *)
(* is why a continuation that still matches may set the evidence without   *)
(* looking at what is there.  About LabStore, for every set of             *)
(* architectures, every limit of the history and any number of operations: *)
(* what was computed fits what is shown, and what the user drew is kept.   *)
(* About ArchitectureEditing, for every design the canvas opens with and   *)
(* any number of edits: the graph stays sound and a layout is clear.       *)
(***************************************************************************)
EXTENDS LabRuns, LabStore, ArchitectureEditing, FilterProofs, FiniteSetTheorems, SequenceTheorems,
        WellFoundedInduction, TLAPS

-----------------------------------------------------------------------------
(* LabRuns                                                                 *)

RecType == [phase : {"unused", "playing", "recording", "artifact", "adding", "done"},
            play : {"none", "starting", "running", "paused", "settled"},
            sent : 0 .. Frames, rev : 0 .. MaxEdits, fork : BOOLEAN,
            outcome : {"none", "completed", "cancelled", "failed"}]

\* A continuation past its session has an outcome to record.
Recording == \A r \in Runs : rec[r].phase \in {"recording", "artifact", "adding"} => rec[r].outcome # "none"

\* The store shows the newest run or none, and holds the evidence of no later one.
ShowsNewest == session.run \in {NoRun, runs} /\ artifact <= runs

Inv ==
  /\ TypeOK
  /\ Len(shown) <= Frames
  /\ Recording
  /\ ShowsNewest
  /\ OnePlays

\* Cancelling the active session leaves no run playing and every record typed.
LEMMA SupersededStops ==
  ASSUME Inv
  PROVE  /\ Superseded \in [Runs -> RecType]
         /\ \A r \in Runs : Superseded[r].phase # "playing"
         /\ \A r \in Runs : Superseded[r].phase \in {"recording", "artifact", "adding"} => Superseded[r].outcome # "none"
<1>1. rec \in [Runs -> RecType] /\ active \in Runs \cup {NoRun}
  BY DEF Inv, TypeOK, RecType
<1>2. \A r \in Runs : rec[r].phase = "playing" => active = r
  BY DEF Inv, OnePlays, Playing
<1>3. CASE active # NoRun /\ rec[active].phase = "playing"
  <2>1. Superseded = [rec EXCEPT ![active] = [rec[active] EXCEPT !.phase = "done", !.play = "settled", !.outcome = "cancelled"]]
    BY <1>3, <1>1 DEF Superseded, RecType
  <2>2. [rec[active] EXCEPT !.phase = "done", !.play = "settled", !.outcome = "cancelled"] \in RecType
    BY <1>1, <1>3 DEF RecType
  <2>3. QED
    BY <1>1, <1>2, <1>3, <2>1, <2>2 DEF Inv, Recording, RecType
<1>4. CASE ~(active # NoRun /\ rec[active].phase = "playing")
  <2>1. Superseded = rec
    BY <1>4 DEF Superseded
  <2>2. \A r \in Runs : r # NoRun
    BY DEF Runs, NoRun
  <2>3. QED
    BY <1>1, <1>2, <1>4, <2>1, <2>2 DEF Inv, Recording
<1>5. QED
  BY <1>3, <1>4

\* A new run is the newest, the only one that plays, and starts with what is shown.
LEMMA StartKeeps ==
  ASSUME Inv, NEW fork \in BOOLEAN, Start(fork) PROVE Inv'
<1> DEFINE r == runs + 1
<1> DEFINE begun == [phase |-> "playing", play |-> "starting", sent |-> IF fork THEN Len(shown) ELSE 0,
                     rev |-> revision, fork |-> fork, outcome |-> "none"]
<1> USE RunsAssumption
<1>1. r \in Runs /\ runs \in Nat /\ runs' = r /\ r # NoRun
  BY DEF Start, Inv, TypeOK, Runs, NoRun
<1>2. shown \in Seq(Nat) /\ Len(shown) \in 0 .. Frames
  BY DEF Inv, TypeOK
<1>3. begun \in RecType
  <2>1. revision \in 0 .. MaxEdits /\ 0 \in 0 .. Frames
    BY DEF Inv, TypeOK
  <2>2. QED
    BY <1>2, <2>1 DEF RecType
<1>4. shown' \in Seq(Nat) /\ Len(shown') <= Frames
  <2>1. shown' = <<>> \/ shown' = shown
    BY DEF Start, FramesAtStart
  <2> HIDE DEF begun, r
  <2>2. CASE shown' = <<>>
    <3>1. Len(shown') = 0 /\ shown' \in Seq(Nat)
      BY <2>2
    <3>2. QED
      BY <3>1
  <2>3. CASE shown' = shown
    BY <1>2, <2>3
  <2>4. QED
    BY <2>1, <2>2, <2>3
<1> DEFINE refused == Rejected(begun)
<1>a. \/ rec' = [Superseded EXCEPT ![r] = begun] /\ active' = r
      \/ rec' = [Superseded EXCEPT ![r] = refused]
  BY DEF Start
<1>b. begun.phase = "playing"
  OBVIOUS
<1>c. refused \in RecType /\ refused.phase # "playing" /\ refused.outcome = "failed"
  <2> HIDE DEF begun
  <2>1. QED
    BY <1>3 DEF RecType, Rejected
<1> HIDE DEF refused, begun
<1>5. \E new \in RecType :
        /\ rec' = [Superseded EXCEPT ![r] = new]
        /\ new.phase = "playing" => active' = r
        /\ new.phase \in {"recording", "artifact", "adding"} => new.outcome # "none"
  BY <1>3, <1>a, <1>b, <1>c
<1>6. rec' \in [Runs -> RecType]
  BY <1>1, <1>5, SupersededStops
<1>7. OnePlays' /\ Recording'
  BY <1>1, <1>5, SupersededStops DEF OnePlays, Playing, Recording
<1>8. /\ session' \in [run : Runs \cup {NoRun}, state : SessionStates]
      /\ session'.run = r
      /\ runState' \in {"idle", "running", "complete", "error"}
      /\ active' \in Runs \cup {NoRun}
  BY <1>1 DEF Start, SessionStates
<1>9. TypeOK'
  <2>1. UNCHANGED <<private, revision, artifact, library>> /\ result' = NoRun /\ runs < MaxRuns
    BY DEF Start
  <2>2. runs' \in 0 .. MaxRuns
    BY <1>1, <2>1
  <2>3. rec' \in [Runs -> RecType] /\ shown' \in Seq(Nat)
    BY <1>4, <1>6
  <2> HIDE DEF r
  <2>4. QED
    BY <1>8, <2>1, <2>2, <2>3 DEF Inv, TypeOK, RecType
<1>10. ShowsNewest'
  BY <1>1, <1>8 DEF Start, Inv, TypeOK, ShowsNewest, Runs, NoRun
<1>11. QED
  BY <1>4, <1>7, <1>9, <1>10 DEF Inv

\* An edit leaves no run shown and none that plays.
LEMMA EditKeepsRuns ==
  ASSUME Inv, Edit PROVE Inv'
<1> USE RunsAssumption
<1>1. rec' \in [Runs -> RecType] /\ OnePlays' /\ Recording'
  BY SupersededStops DEF Edit, OnePlays, Playing, Recording
<1>2. shown' \in Seq(Nat) /\ Len(shown') <= Frames
  BY DEF Edit, Invalidated
<1>3. TypeOK'
  <2>1. /\ session' = [run |-> NoRun, state |-> "none"] /\ runState' = "idle" /\ result' = NoRun
        /\ active' = NoRun /\ revision < MaxEdits /\ revision' = revision + 1
        /\ UNCHANGED <<private, artifact, library, runs>>
    BY DEF Edit, Invalidated
  <2>2. session' \in [run : Runs \cup {NoRun}, state : SessionStates]
    BY <2>1 DEF SessionStates
  <2>3. revision' \in 0 .. MaxEdits
    BY <2>1 DEF Inv, TypeOK
  <2>4. QED
    BY <1>1, <1>2, <2>1, <2>2, <2>3 DEF Inv, TypeOK, RecType
<1>4. ShowsNewest'
  BY DEF Edit, Invalidated, Inv, TypeOK, ShowsNewest, SessionStates, NoRun
<1>5. QED
  BY <1>1, <1>2, <1>3, <1>4 DEF Inv

\* A run whose record changes in place: what the other parts of Inv need of it.
LEMMA RecordKeeps ==
  ASSUME Inv, NEW r \in Runs, NEW new \in RecType,
         rec' = [rec EXCEPT ![r] = new],
         new.phase = "playing" => rec[r].phase = "playing",
         new.phase \in {"recording", "artifact", "adding"} => new.outcome # "none",
         active' = active \/ (active' = Released(r) /\ new.phase # "playing")
  PROVE  rec' \in [Runs -> RecType] /\ OnePlays' /\ Recording' /\ active' \in Runs \cup {NoRun}
<1>1. rec \in [Runs -> RecType] /\ active \in Runs \cup {NoRun}
  BY DEF Inv, TypeOK, RecType
<1>2. rec' \in [Runs -> RecType]
  BY <1>1
<1>3. \A q \in Runs : rec'[q].phase = "playing" => rec[q].phase = "playing" /\ active = q
  BY <1>1 DEF Inv, OnePlays, Playing
<1>4. \A q \in Runs : rec'[q].phase = "playing" => active' = q
  BY <1>1, <1>3 DEF Released
<1>5. QED
  BY <1>1, <1>2, <1>4 DEF OnePlays, Playing, Recording, Inv, Released

\* What moves in the state of a session keeps the store typed.
LEMMA MovesKeeps ==
  ASSUME Inv, NEW r \in Runs, NEW from, NEW to \in {"running", "paused"}, Moves(r, from, to)
  PROVE  Inv'
<1> DEFINE new == [rec[r] EXCEPT !.play = to]
<1>1. rec[r] \in RecType /\ rec[r].phase = "playing"
  BY DEF Inv, TypeOK, RecType, Moves, Playing
<1>2. new \in RecType /\ new.phase = "playing"
  BY <1>1 DEF RecType
<1>3. rec' = [rec EXCEPT ![r] = new] /\ active' = active
  BY <1>1 DEF Moves, RecType
<1> HIDE DEF new
<1>4. rec' \in [Runs -> RecType] /\ OnePlays' /\ Recording' /\ active' \in Runs \cup {NoRun}
  BY <1>1, <1>2, <1>3, RecordKeeps
<1>5. /\ session' \in [run : Runs \cup {NoRun}, state : SessionStates]
      /\ session'.run = session.run
      /\ runState' \in {"idle", "running", "complete", "error"}
  BY DEF Moves, Inv, TypeOK, SessionStates
<1>6. QED
  BY <1>4, <1>5 DEF Moves, Inv, TypeOK, RecType, ShowsNewest

\* Any batch leaves at most a run's frames on screen.
LEMMA BatchKeeps ==
  ASSUME Inv, NEW r \in Runs, Batch(r) PROVE Inv'
<1> DEFINE new == [rec[r] EXCEPT !.sent = @ + 1]
<1> USE RunsAssumption
<1>1. rec[r] \in RecType /\ rec[r].phase = "playing" /\ rec[r].sent \in 0 .. Frames /\ rec[r].sent < Frames
  BY DEF Inv, TypeOK, RecType, Batch, Playing, MoreFrames
<1>2. new \in RecType /\ new.phase = "playing"
  BY <1>1 DEF RecType
<1>3. rec' = [rec EXCEPT ![r] = new] /\ active' = active
  BY <1>1 DEF Batch, RecType
<1> HIDE DEF new
<1>4. rec' \in [Runs -> RecType] /\ OnePlays' /\ Recording' /\ active' \in Runs \cup {NoRun}
  BY <1>1, <1>2, <1>3, RecordKeeps
<1>5. shown' \in Seq(Nat) /\ Len(shown') <= Frames
  <2>1. shown \in Seq(Nat) /\ Len(shown) <= Frames /\ rec[r].sent \in Nat
    BY <1>1 DEF Inv, TypeOK
  <2>2. CASE shown' = shown
    BY <2>1, <2>2
  <2>3. CASE shown' = [shown EXCEPT ![rec[r].sent + 1] = rec[r].sent] /\ rec[r].sent < Len(shown)
    BY <2>1, <2>3, ExceptSeq
  <2>4. CASE shown' = Append(shown, rec[r].sent) /\ ~(rec[r].sent < Len(shown))
    BY <1>1, <2>1, <2>4
  <2>5. QED
    BY <2>2, <2>3, <2>4 DEF Batch
<1>6. QED
  BY <1>4, <1>5 DEF Batch, Inv, TypeOK, RecType, ShowsNewest

\* A result ends the playing of its own run.
LEMMA CompleteKeeps ==
  ASSUME Inv, NEW r \in Runs, Complete(r) PROVE Inv'
<1>0. rec[r] \in RecType /\ rec[r].phase = "playing" /\ artifact \in Nat
  BY DEF Inv, TypeOK, RecType, Complete, Playing, Runs, NoRun
<1> DEFINE new == [rec[r] EXCEPT !.phase = IF Matches(r) THEN "artifact" ELSE "done",
                                 !.play = "settled", !.outcome = "completed"]
<1>1. new \in RecType /\ new.phase \in {"artifact", "done"} /\ new.outcome = "completed"
  BY <1>0 DEF RecType
<1>2. rec' = [rec EXCEPT ![r] = new] /\ (active' = active \/ active' = Released(r))
  BY <1>0 DEF Complete, RecType
<1> HIDE DEF new
<1>3. rec' \in [Runs -> RecType] /\ OnePlays' /\ Recording' /\ active' \in Runs \cup {NoRun}
  BY <1>0, <1>1, <1>2, RecordKeeps
<1>4. /\ session' \in [run : Runs \cup {NoRun}, state : SessionStates]
      /\ session'.run = session.run
      /\ runState' \in {"idle", "running", "complete", "error"}
      /\ result' \in Runs \cup {NoRun}
  BY DEF Complete, Inv, TypeOK, SessionStates
<1>5. QED
  BY <1>3, <1>4 DEF Complete, Inv, TypeOK, RecType, ShowsNewest

\* So does a failure or a cancellation.
LEMMA SettlesKeeps ==
  ASSUME Inv, NEW r \in Runs, NEW outcome \in {"cancelled", "failed"}, Settles(r, outcome)
  PROVE  Inv'
<1>0. rec[r] \in RecType /\ rec[r].phase = "playing" /\ artifact \in Nat
  BY DEF Inv, TypeOK, RecType, Settles, Playing, Runs, NoRun
<1> DEFINE new == [rec[r] EXCEPT !.phase = IF Matches(r) /\ ~private THEN "recording" ELSE "done",
                                 !.play = "settled", !.outcome = outcome]
<1>1. new \in RecType /\ new.phase \in {"recording", "done"} /\ new.outcome = outcome
  BY <1>0 DEF RecType
<1>2. rec' = [rec EXCEPT ![r] = new] /\ (active' = active \/ active' = Released(r))
  BY <1>0 DEF Settles, RecType
<1> HIDE DEF new
<1>3. rec' \in [Runs -> RecType] /\ OnePlays' /\ Recording' /\ active' \in Runs \cup {NoRun}
  BY <1>0, <1>1, <1>2, RecordKeeps
<1>4. /\ session' \in [run : Runs \cup {NoRun}, state : SessionStates]
      /\ session'.run = session.run
      /\ runState' \in {"idle", "running", "complete", "error"}
  BY DEF Settles, Terminate, Inv, TypeOK, SessionStates
<1>5. shown' \in Seq(Nat) /\ Len(shown') <= Frames
  <2>1. shown' = <<>> \/ shown' = shown
    BY DEF Settles, Terminate
  <2>2. CASE shown' = <<>>
    <3>1. Len(shown') = 0 /\ shown' \in Seq(Nat)
      BY <2>2
    <3>2. QED
      BY <3>1, RunsAssumption
  <2>3. QED
    BY <2>1, <2>2 DEF Inv, TypeOK
<1>6. QED
  BY <1>3, <1>4, <1>5 DEF Settles, Inv, TypeOK, RecType, ShowsNewest

\* A cancel that comes too late only lets go of a session that no longer plays.
LEMMA CancelKeeps ==
  ASSUME Inv, NEW r \in Runs, Cancel(r) PROVE Inv'
<1>1. CASE Settles(r, "cancelled")
  BY <1>1, SettlesKeeps
<1>2. CASE ~Playing(r) /\ active' = NoRun /\ active = r
           /\ UNCHANGED <<private, revision, session, runState, shown, result, artifact, library, runs, rec>>
  <2>1. \A q \in Runs : ~Playing(q)
    BY <1>2 DEF Inv, OnePlays
  <2>2. OnePlays'
    BY <1>2, <2>1 DEF OnePlays, Playing
  <2>3. QED
    BY <1>2, <2>2 DEF Inv, TypeOK, Recording, ShowsNewest
<1>3. QED
  BY <1>1, <1>2 DEF Cancel

\* The evidence of a run that still matches is the newest there is.
LEMMA ArtifactIsNewest ==
  ASSUME Inv, NEW r \in Runs, ArtifactMade(r), artifact' # artifact
  PROVE  artifact' = r /\ r = runs
BY DEF ArtifactMade, Matches, Inv, ShowsNewest, Runs, NoRun

\* What comes after an await changes no session that plays.
LEMMA ContinuationKeeps ==
  ASSUME Inv, NEW r \in Runs, TerminalRecorded(r) \/ ArtifactMade(r) \/ CompletedRecorded(r)
  PROVE  Inv'
<1>1. rec[r] \in RecType /\ artifact \in Nat
  BY DEF Inv, TypeOK, RecType, Runs, NoRun
<1>2. CASE TerminalRecorded(r)
  <2> DEFINE new == [rec[r] EXCEPT !.phase = "done"]
  <2>1. new \in RecType /\ new.phase = "done"
    BY <1>1 DEF RecType
  <2>2. rec' = [rec EXCEPT ![r] = new] /\ active' = Released(r)
    BY <1>1, <1>2 DEF TerminalRecorded, RecType
  <2> HIDE DEF new
  <2>3. rec' \in [Runs -> RecType] /\ OnePlays' /\ Recording' /\ active' \in Runs \cup {NoRun}
    BY <1>1, <2>1, <2>2, RecordKeeps
  <2>4. Entry(r) \in [run : Runs, status : {"completed", "cancelled", "failed"}]
    BY <1>1, <1>2 DEF TerminalRecorded, Entry, RecType, Inv, Recording
  <2>5. library' \subseteq [run : Runs, status : {"completed", "cancelled", "failed"}]
    BY <1>2, <2>4 DEF TerminalRecorded, Inv, TypeOK
  <2>6. /\ session' \in [run : Runs \cup {NoRun}, state : SessionStates]
        /\ session'.run = session.run
        /\ runState' \in {"idle", "running", "complete", "error"}
    BY <1>2 DEF TerminalRecorded, Terminate, Inv, TypeOK, SessionStates
  <2>7. shown' \in Seq(Nat) /\ Len(shown') <= Frames
    <3>1. shown' = <<>> \/ shown' = shown
      BY <1>2 DEF TerminalRecorded, Terminate
    <3>2. CASE shown' = <<>>
      <4>1. Len(shown') = 0 /\ shown' \in Seq(Nat)
        BY <3>2
      <4>2. QED
        BY <4>1, RunsAssumption
    <3>3. QED
      BY <3>1, <3>2 DEF Inv, TypeOK
  <2>8. QED
    BY <1>2, <2>3, <2>5, <2>6, <2>7 DEF TerminalRecorded, Inv, TypeOK, RecType, ShowsNewest
<1>3. CASE ArtifactMade(r)
  <2>1. PICK phase \in {"done", "adding"} : rec' = [rec EXCEPT ![r].phase = phase]
    BY <1>3 DEF ArtifactMade
  <2> DEFINE new == [rec[r] EXCEPT !.phase = phase]
  <2>2. new \in RecType /\ new.phase \in {"done", "adding"} /\ new.outcome = rec[r].outcome
    BY <1>1 DEF RecType
  <2>3. rec' = [rec EXCEPT ![r] = new]
    BY <1>1, <2>1 DEF RecType
  <2>4. active' = active \/ active' = Released(r)
    BY <1>3 DEF ArtifactMade
  <2> HIDE DEF new
  <2>5. new.phase \in {"recording", "artifact", "adding"} => new.outcome # "none"
    BY <1>3, <2>2 DEF ArtifactMade, Inv, Recording
  <2>6. rec' \in [Runs -> RecType] /\ OnePlays' /\ Recording' /\ active' \in Runs \cup {NoRun}
    BY <1>1, <2>2, <2>3, <2>4, <2>5, RecordKeeps
  <2>7. artifact' \in Runs \cup {NoRun} /\ artifact' <= runs
    <3>1. CASE artifact' = artifact
      BY <3>1 DEF Inv, TypeOK, ShowsNewest
    <3>2. CASE artifact' # artifact
      BY <1>3, <3>2, ArtifactIsNewest DEF Inv, TypeOK, Runs
    <3>3. QED
      BY <3>1, <3>2
  <2>8. QED
    BY <1>3, <2>6, <2>7 DEF ArtifactMade, Inv, TypeOK, RecType, ShowsNewest
<1>4. CASE CompletedRecorded(r)
  <2> DEFINE new == [rec[r] EXCEPT !.phase = "done"]
  <2>1. new \in RecType /\ new.phase = "done"
    BY <1>1 DEF RecType
  <2>2. rec' = [rec EXCEPT ![r] = new] /\ active' = Released(r)
    BY <1>1, <1>4 DEF CompletedRecorded, RecType
  <2> HIDE DEF new
  <2>3. rec' \in [Runs -> RecType] /\ OnePlays' /\ Recording' /\ active' \in Runs \cup {NoRun}
    BY <1>1, <2>1, <2>2, RecordKeeps
  <2>4. Entry(r) \in [run : Runs, status : {"completed", "cancelled", "failed"}]
    BY <1>1, <1>4 DEF CompletedRecorded, Entry, RecType, Inv, Recording
  <2>5. library' \subseteq [run : Runs, status : {"completed", "cancelled", "failed"}]
    BY <1>4, <2>4 DEF CompletedRecorded, Inv, TypeOK
  <2>6. QED
    BY <1>4, <2>3, <2>5 DEF CompletedRecorded, Inv, TypeOK, RecType, ShowsNewest
<1>5. QED
  BY <1>2, <1>3, <1>4

\* Every state the store reaches.
LEMMA InvHolds == Spec => []Inv
<1>1. Init => Inv
  <2> SUFFICES ASSUME Init PROVE Inv
    OBVIOUS
  <2>1. rec \in [Runs -> RecType]
    BY RunsAssumption DEF Init, Unused, RecType
  <2>2. shown \in Seq(Nat) /\ Len(shown) = 0
    BY DEF Init
  <2>3. QED
    BY <2>1, <2>2, RunsAssumption
    DEF Init, Inv, TypeOK, RecType, Recording, ShowsNewest, OnePlays, Playing, Unused, NoRun, SessionStates
<1>2. Inv /\ [Next]_vars => Inv'
  <2> SUFFICES ASSUME Inv, [Next]_vars PROVE Inv'
    OBVIOUS
  <2>1. CASE RunLocal \/ OpenFork
    BY <2>1, StartKeeps DEF RunLocal, OpenFork
  <2>2. CASE Edit
    BY <2>2, EditKeepsRuns
  <2>3. ASSUME NEW r \in Runs, Started(r) \/ Pause(r) \/ Resume(r) PROVE Inv'
    BY <2>3, MovesKeeps DEF Started, Pause, Resume
  <2>4. ASSUME NEW r \in Runs, RunNext(r) PROVE Inv'
    BY <2>3, <2>4, BatchKeeps, CompleteKeeps, SettlesKeeps, CancelKeeps, ContinuationKeeps DEF RunNext, Fail
  <2>5. CASE UNCHANGED vars
    BY <2>5 DEF vars, Inv, TypeOK, Recording, ShowsNewest, OnePlays, Playing
  <2>6. QED
    BY <2>1, <2>2, <2>4, <2>5 DEF Next
<1>3. QED
  BY <1>1, <1>2, PTL DEF Spec

-----------------------------------------------------------------------------
(* The result on screen.  It stays that of the run shown because only a    *)
(* matching completion sets it and everything that moves the store on      *)
(* clears it.  In a private scenario nothing comes late, and the frames on *)
(* screen are then counted by the run that plays.                          *)

ResultMatches ==
  /\ \A r \in Runs : Playing(r) => rec[r].outcome = "none"
  /\ session.run # NoRun => rec[session.run].rev = revision
  /\ result # NoRun => result = session.run /\ rec[result].outcome = "completed"

ShownInOrder ==
  private =>
    /\ \A r \in Runs : rec[r].phase # "recording"
    /\ \A i \in 1 .. Len(shown) : shown[i] = i - 1
    /\ \A r \in Runs : Playing(r) /\ session.run = r => Len(shown) = rec[r].sent
    /\ result # NoRun => Len(shown) = Frames

\* What a step of one run does to its record.
Continues(r, new) ==
  /\ rec' = [rec EXCEPT ![r] = new]
  /\ new.rev = rec[r].rev
  /\ new.phase = "playing" => rec[r].phase = "playing" /\ new.outcome = rec[r].outcome
  /\ rec[r].phase # "playing" => new.outcome = rec[r].outcome
  /\ new.phase = "recording" => ~private \/ rec[r].phase = "recording"
  /\ session'.run = session.run
  /\ UNCHANGED <<revision, private>>

\* Every step of a run changes only its own record, and no outcome twice.
LEMMA RunContinues ==
  ASSUME Inv, NEW r \in Runs, RunNext(r)
  PROVE  \E new \in RecType : Continues(r, new)
<1>1. rec \in [Runs -> RecType] /\ rec[r] \in RecType
  BY DEF Inv, TypeOK, RecType
<1>2. ASSUME NEW from, NEW to \in {"running", "paused"}, Moves(r, from, to)
      PROVE  \E new \in RecType : Continues(r, new)
  <2> DEFINE new == [rec[r] EXCEPT !.play = to]
  <2>1. new \in RecType /\ rec' = [rec EXCEPT ![r] = new]
    BY <1>1, <1>2 DEF RecType, Moves
  <2>2. new.phase = rec[r].phase /\ new.rev = rec[r].rev /\ new.outcome = rec[r].outcome
    BY <1>1 DEF RecType
  <2> HIDE DEF new
  <2>3. session'.run = session.run /\ UNCHANGED <<revision, private>>
    BY <1>2 DEF Moves, Inv, TypeOK
  <2>4. rec[r].phase = "playing"
    BY <1>2 DEF Moves, Playing
  <2>5. Continues(r, new)
    BY <2>1, <2>2, <2>3, <2>4 DEF Continues
  <2>6. QED
    BY <2>1, <2>5
<1>3. CASE Started(r) \/ Pause(r) \/ Resume(r)
  BY <1>2, <1>3 DEF Started, Pause, Resume
<1>4. CASE Batch(r)
  <2> DEFINE new == [rec[r] EXCEPT !.sent = @ + 1]
  <2>1. rec[r].sent \in 0 .. Frames /\ rec[r].sent < Frames
    BY <1>1, <1>4 DEF RecType, Batch, MoreFrames
  <2>2. new \in RecType
    BY <1>1, <2>1, RunsAssumption DEF RecType
  <2>3. rec' = [rec EXCEPT ![r] = new]
    BY <1>1, <1>4 DEF RecType, Batch
  <2>4. new.phase = rec[r].phase /\ new.rev = rec[r].rev /\ new.outcome = rec[r].outcome
    BY <1>1 DEF RecType
  <2> HIDE DEF new
  <2>5. Continues(r, new)
    BY <1>4, <2>2, <2>3, <2>4 DEF Batch, Playing, Continues
  <2>6. QED
    BY <2>2, <2>5
<1>5. CASE Complete(r)
  <2> DEFINE new == [rec[r] EXCEPT !.phase = IF Matches(r) THEN "artifact" ELSE "done",
                                   !.play = "settled", !.outcome = "completed"]
  <2>1. new \in RecType /\ rec' = [rec EXCEPT ![r] = new]
    BY <1>1, <1>5 DEF RecType, Complete
  <2>2. new.phase \in {"artifact", "done"} /\ new.rev = rec[r].rev /\ rec[r].phase = "playing"
    BY <1>1, <1>5 DEF RecType, Complete, Playing
  <2> HIDE DEF new
  <2>3. session'.run = session.run /\ UNCHANGED <<revision, private>>
    BY <1>5 DEF Complete, Inv, TypeOK
  <2>4. Continues(r, new)
    BY <2>1, <2>2, <2>3 DEF Continues
  <2>5. QED
    BY <2>1, <2>4
<1>6. ASSUME NEW outcome \in {"cancelled", "failed"}, Settles(r, outcome)
      PROVE  \E new \in RecType : Continues(r, new)
  <2> DEFINE new == [rec[r] EXCEPT !.phase = IF Matches(r) /\ ~private THEN "recording" ELSE "done",
                                   !.play = "settled", !.outcome = outcome]
  <2>1. new \in RecType /\ rec' = [rec EXCEPT ![r] = new]
    BY <1>1, <1>6 DEF RecType, Settles
  <2>2. session'.run = session.run /\ UNCHANGED <<revision, private>>
    BY <1>6 DEF Settles, Terminate, Inv, TypeOK
  <2>3. new.phase # "playing" /\ rec[r].phase = "playing" /\ new.rev = rec[r].rev
        /\ (new.phase = "recording" => ~private)
    BY <1>1, <1>6 DEF RecType, Settles, Playing
  <2>4. QED
    BY <2>1, <2>2, <2>3 DEF Continues
<1>7. CASE Fail(r) \/ Cancel(r)
  <2>1. CASE Settles(r, "failed") \/ Settles(r, "cancelled")
    BY <1>6, <2>1
  <2>2. CASE UNCHANGED <<private, revision, session, rec>>
    <3>1. rec' = [rec EXCEPT ![r] = rec[r]]
      BY <1>1, <2>2
    <3>2. Continues(r, rec[r])
      BY <2>2, <3>1 DEF Continues
    <3>3. QED
      BY <1>1, <3>2
  <2>3. QED
    BY <1>7, <2>1, <2>2 DEF Fail, Cancel
<1>8. CASE TerminalRecorded(r) \/ CompletedRecorded(r) \/ ArtifactMade(r)
  <2>1. PICK phase \in {"done", "adding"} : rec' = [rec EXCEPT ![r].phase = phase]
    BY <1>8 DEF TerminalRecorded, CompletedRecorded, ArtifactMade
  <2> DEFINE new == [rec[r] EXCEPT !.phase = phase]
  <2>2. new \in RecType /\ rec' = [rec EXCEPT ![r] = new]
    BY <1>1, <2>1 DEF RecType
  <2>3. session'.run = session.run /\ UNCHANGED <<revision, private>> /\ rec[r].phase # "playing"
    BY <1>8 DEF TerminalRecorded, CompletedRecorded, ArtifactMade, Terminate, Inv, TypeOK
  <2>4. new.phase = phase /\ new.rev = rec[r].rev /\ new.outcome = rec[r].outcome
    BY <1>1 DEF RecType
  <2>5. QED
    BY <2>2, <2>3, <2>4 DEF Continues
<1>9. QED
  BY <1>3, <1>4, <1>5, <1>7, <1>8 DEF RunNext

\* Only a completion that matches sets the result.
LEMMA ResultIsSet ==
  ASSUME Inv, NEW r \in Runs, RunNext(r)
  PROVE  \/ result' = result
         \/ result' = r /\ session.run = r /\ Complete(r)
BY DEF RunNext, Started, Pause, Resume, Moves, Batch, Complete, Matches, Fail, Cancel, Settles,
       TerminalRecorded, ArtifactMade, CompletedRecorded

\* A step of one run keeps the result that of the run shown.
LEMMA RunKeepsResult ==
  ASSUME Inv, ResultMatches, NEW r \in Runs, RunNext(r)
  PROVE  ResultMatches'
<1>1. rec \in [Runs -> RecType] /\ session.run \in Runs \cup {NoRun} /\ result \in Runs \cup {NoRun}
  BY DEF Inv, TypeOK, RecType
<1>2. PICK new \in RecType : Continues(r, new)
  BY RunContinues
<1>3. \A q \in Runs : rec'[q] = IF q = r THEN new ELSE rec[q]
  BY <1>1, <1>2 DEF Continues
<1>4. \A q \in Runs : rec'[q].phase = "playing" => rec'[q].outcome = "none"
  BY <1>2, <1>3 DEF Continues, ResultMatches, Playing
<1>5. session'.run # NoRun => rec'[session'.run].rev = revision'
  BY <1>1, <1>2, <1>3 DEF Continues, ResultMatches
<1>6. CASE result' = result
  <2>1. result # NoRun => result \in Runs /\ rec[result].phase # "playing"
    BY <1>1 DEF ResultMatches, Playing
  <2>2. result' # NoRun => result' = session'.run /\ rec'[result'].outcome = "completed"
    BY <1>2, <1>3, <1>6, <2>1 DEF Continues, ResultMatches
  <2>3. QED
    BY <1>4, <1>5, <2>2 DEF ResultMatches, Playing
<1>7. CASE result' = r /\ session.run = r /\ Complete(r)
  <2>1. rec'[r].outcome = "completed" /\ session'.run = r
    BY <1>1, <1>2, <1>7 DEF Complete, Continues, RecType
  <2>2. QED
    BY <1>4, <1>5, <1>7, <2>1 DEF ResultMatches, Playing
<1>8. QED
  BY <1>6, <1>7, ResultIsSet

\* While a run plays, the result of no run is shown under its name.
LEMMA PlayingHasNoResult ==
  ASSUME Inv, ResultMatches, NEW r \in Runs, Playing(r), session.run = r
  PROVE  result = NoRun /\ Matches(r)
BY DEF ResultMatches, Matches, Runs, NoRun

\* In a private scenario a batch is appended behind the frames shown.
LEMMA BatchKeepsOrder ==
  ASSUME Inv, ResultMatches, ShownInOrder, private, NEW r \in Runs, Batch(r)
  PROVE  ShownInOrder'
<1>1. /\ rec \in [Runs -> RecType] /\ rec[r].phase = "playing" /\ rec[r].sent \in Nat
      /\ shown \in Seq(Nat) /\ Len(shown) \in Nat
  BY RunsAssumption DEF Inv, TypeOK, RecType, Batch, Playing
<1> DEFINE new == [rec[r] EXCEPT !.sent = @ + 1]
<1>2. rec' = [rec EXCEPT ![r] = new] /\ new.phase = "playing" /\ new.sent = rec[r].sent + 1
  BY <1>1 DEF Batch, RecType
<1> HIDE DEF new
<1>3. \A q \in Runs : rec'[q] = IF q = r THEN new ELSE rec[q]
  BY <1>1, <1>2
<1>4. UNCHANGED <<private, session, result>>
  BY DEF Batch
<1>5. \A q \in Runs : rec'[q].phase # "recording"
  BY <1>2, <1>3 DEF ShownInOrder
<1>6. CASE session.run = r
  <2>1. result = NoRun /\ Matches(r) /\ Len(shown) = rec[r].sent
    BY <1>1, <1>6, PlayingHasNoResult DEF ShownInOrder, Playing
  <2>2. shown' = Append(shown, rec[r].sent)
    BY <1>1, <2>1 DEF Batch
  <2>3. Len(shown') = rec[r].sent + 1 /\ \A i \in 1 .. Len(shown') : shown'[i] = i - 1
    BY <1>1, <2>1, <2>2 DEF ShownInOrder
  <2>4. QED
    BY <1>2, <1>3, <1>4, <1>5, <1>6, <2>1, <2>3 DEF ShownInOrder, Playing
<1>7. CASE session.run # r
  <2>1. shown' = shown
    BY <1>7 DEF Batch, Matches
  <2>2. QED
    BY <1>3, <1>4, <1>5, <1>7, <2>1 DEF ShownInOrder, Playing
<1>8. QED
  BY <1>6, <1>7

\* So the frames of a private run are shown once and in order, whatever its run does.
LEMMA RunKeepsOrder ==
  ASSUME Inv, ResultMatches, ShownInOrder, NEW r \in Runs, RunNext(r)
  PROVE  ShownInOrder'
<1>1. rec \in [Runs -> RecType] /\ shown \in Seq(Nat)
  BY DEF Inv, TypeOK, RecType
<1>2. PICK new \in RecType : Continues(r, new)
  BY RunContinues
<1>3. \A q \in Runs : rec'[q] = IF q = r THEN new ELSE rec[q]
  BY <1>1, <1>2 DEF Continues
<1>4. SUFFICES ASSUME private PROVE ShownInOrder'
  BY <1>2 DEF ShownInOrder, Continues
<1>5. \A q \in Runs : rec[q].phase # "recording" /\ rec'[q].phase # "recording"
  BY <1>2, <1>3, <1>4 DEF Continues, ShownInOrder
<1>6. CASE Batch(r)
  BY <1>4, <1>6, BatchKeepsOrder
<1>7. ASSUME UNCHANGED <<shown, result>>, rec'[r].phase = "playing" => rec'[r].sent = rec[r].sent
      PROVE  ShownInOrder'
  BY <1>2, <1>3, <1>5, <1>7 DEF ShownInOrder, Playing, Continues
<1>8. CASE Started(r) \/ Pause(r) \/ Resume(r)
  <2>1. UNCHANGED <<shown, result>> /\ rec'[r].sent = rec[r].sent
    BY <1>1, <1>8 DEF Started, Pause, Resume, Moves, RecType
  <2>2. QED
    BY <1>7, <2>1
<1>9. CASE Complete(r)
  <2>1. rec'[r].phase # "playing" /\ UNCHANGED shown /\ rec[r].sent = Frames /\ rec[r].phase = "playing"
    BY <1>1, <1>9 DEF Complete, Playing, RecType
  <2>2. CASE result' = result
    BY <1>7, <2>1, <2>2
  <2>3. CASE result' = r /\ session.run = r
    <3>1. Len(shown) = Frames
      BY <1>4, <2>1, <2>3 DEF ShownInOrder, Playing
    <3>2. QED
      BY <1>2, <1>3, <1>5, <2>1, <3>1 DEF ShownInOrder, Playing, Continues
  <2>4. QED
    BY <1>9, <2>2, <2>3 DEF Complete, Matches
<1>10. ASSUME NEW outcome \in {"cancelled", "failed"}, Settles(r, outcome)
       PROVE  ShownInOrder'
  <2>1. rec'[r].phase # "playing" /\ rec[r].phase = "playing" /\ result' = result
    BY <1>1, <1>10 DEF Settles, Playing, RecType
  <2>2. CASE shown' = shown
    BY <1>7, <2>1, <2>2
  <2>3. CASE shown' = <<>> /\ session.run = r
    <3>1. result' = NoRun
      BY <2>1, <2>3, PlayingHasNoResult DEF Playing
    <3>2. \A q \in Runs : ~(rec'[q].phase = "playing" /\ session'.run = q)
      BY <1>2, <2>1, <2>3 DEF Continues
    <3>3. \A i \in 1 .. Len(shown') : shown'[i] = i - 1
      BY <2>3
    <3>4. QED
      BY <1>5, <3>1, <3>2, <3>3 DEF ShownInOrder, Playing
  <2>4. QED
    BY <1>10, <2>2, <2>3 DEF Settles, Terminate, Matches
<1>11. CASE Fail(r) \/ Cancel(r)
  <2>1. CASE Settles(r, "failed") \/ Settles(r, "cancelled")
    BY <1>10, <2>1
  <2>2. CASE UNCHANGED <<shown, result, rec>>
    BY <1>7, <2>2
  <2>3. QED
    BY <1>11, <2>1, <2>2 DEF Fail, Cancel
<1>12. CASE ArtifactMade(r) \/ CompletedRecorded(r)
  <2>1. UNCHANGED <<shown, result>> /\ rec[r].phase # "playing"
    BY <1>12 DEF ArtifactMade, CompletedRecorded
  <2>2. rec'[r].phase # "playing"
    BY <1>2, <1>3, <2>1 DEF Continues
  <2>3. QED
    BY <1>7, <2>1, <2>2
<1>13. ~TerminalRecorded(r)
  BY <1>5 DEF TerminalRecorded
<1>14. QED
  BY <1>6, <1>8, <1>9, <1>11, <1>12, <1>13 DEF RunNext

\* A new run starts under the design as it is, with the frames it counts as sent.
LEMMA StartKeepsResult ==
  ASSUME Inv, ResultMatches, ShownInOrder, NEW fork \in BOOLEAN, Start(fork)
  PROVE  ResultMatches' /\ ShownInOrder'
<1> DEFINE r == runs + 1
<1> DEFINE begun == [phase |-> "playing", play |-> "starting", sent |-> IF fork THEN Len(shown) ELSE 0,
                     rev |-> revision, fork |-> fork, outcome |-> "none"]
<1>1. r \in Runs /\ r # NoRun
  BY RunsAssumption DEF Start, Inv, TypeOK, Runs, NoRun
<1>2. /\ Superseded \in [Runs -> RecType]
      /\ \A q \in Runs : Superseded[q].phase # "playing"
      /\ \A q \in Runs : Superseded[q].phase \in {rec[q].phase, "done"}
  <2>1. rec \in [Runs -> RecType] /\ active \in Runs \cup {NoRun}
    BY DEF Inv, TypeOK, RecType
  <2>2. \A q \in Runs : Superseded[q].phase \in {rec[q].phase, "done"}
    BY <2>1 DEF Superseded, RecType
  <2>3. QED
    BY <2>2, SupersededStops
<1>3. session'.run = r /\ result' = NoRun /\ UNCHANGED <<private, revision>>
  BY DEF Start
<1>a. /\ begun.rev = revision /\ begun.phase = "playing" /\ begun.outcome = "none"
      /\ begun.sent = Len(FramesAtStart(fork))
      /\ Rejected(begun).rev = revision /\ Rejected(begun).phase # "playing"
      /\ private => Rejected(begun).phase # "recording"
  BY DEF Rejected, FramesAtStart
<1>b. \/ rec' = [Superseded EXCEPT ![r] = begun] /\ shown' = FramesAtStart(fork)
      \/ /\ rec' = [Superseded EXCEPT ![r] = Rejected(begun)]
         /\ shown' = <<>> \/ shown' = FramesAtStart(fork)
  BY DEF Start
<1> HIDE DEF begun, r
<1>4. PICK new : /\ rec' = [Superseded EXCEPT ![r] = new]
                 /\ \/ new = begun /\ shown' = FramesAtStart(fork)
                    \/ new = Rejected(begun) /\ (shown' = <<>> \/ shown' = FramesAtStart(fork))
  BY <1>b
<1>5. /\ new.rev = revision
      /\ new.phase = "playing" => new.outcome = "none" /\ new.sent = Len(FramesAtStart(fork))
                                  /\ shown' = FramesAtStart(fork)
      /\ private => new.phase # "recording"
  BY <1>4, <1>a
<1>6. \A q \in Runs : rec'[q] = IF q = r THEN new ELSE Superseded[q]
  BY <1>1, <1>2, <1>4
<1>7. ResultMatches'
  BY <1>1, <1>2, <1>3, <1>5, <1>6 DEF ResultMatches, Playing
<1>8. shown' = <<>> \/ shown' = shown
  BY <1>4 DEF FramesAtStart
<1>9. ShownInOrder'
  <2>1. SUFFICES ASSUME private PROVE ShownInOrder'
    BY <1>3 DEF ShownInOrder
  <2>2. \A q \in Runs : rec'[q].phase # "recording"
    BY <1>2, <1>5, <1>6, <2>1 DEF ShownInOrder
  <2>3. \A i \in 1 .. Len(shown') : shown'[i] = i - 1
    BY <1>8, <2>1 DEF ShownInOrder
  <2>4. \A q \in Runs : rec'[q].phase = "playing" => Len(shown') = rec'[q].sent
    BY <1>2, <1>5, <1>6
  <2>5. QED
    BY <1>3, <2>2, <2>3, <2>4 DEF ShownInOrder, Playing
<1>10. QED
  BY <1>7, <1>9

\* An edit leaves no result and no run shown.
LEMMA EditKeepsResult ==
  ASSUME Inv, ResultMatches, ShownInOrder, Edit
  PROVE  ResultMatches' /\ ShownInOrder'
<1>1. rec' = Superseded /\ session'.run = NoRun /\ result' = NoRun /\ shown' = <<>> /\ private' = private
  BY DEF Edit, Invalidated
<1>2. \A q \in Runs : rec'[q].phase # "playing"
  BY <1>1, SupersededStops
<1>3. \A q \in Runs : rec'[q].phase \in {rec[q].phase, "done"}
  <2>1. rec \in [Runs -> RecType] /\ active \in Runs \cup {NoRun}
    BY DEF Inv, TypeOK, RecType
  <2>2. QED
    BY <1>1, <2>1 DEF Superseded, RecType
<1>4. QED
  BY <1>1, <1>2, <1>3 DEF ResultMatches, ShownInOrder, Playing

\* Together they are invariant.
LEMMA ResultInvHolds == Spec => [](ResultMatches /\ ShownInOrder)
<1>1. Init => ResultMatches /\ ShownInOrder
  BY DEF Init, ResultMatches, ShownInOrder, Playing, Unused
<1>2. Inv /\ ResultMatches /\ ShownInOrder /\ [Next]_vars => ResultMatches' /\ ShownInOrder'
  <2> SUFFICES ASSUME Inv, ResultMatches, ShownInOrder, [Next]_vars
               PROVE  ResultMatches' /\ ShownInOrder'
    OBVIOUS
  <2>1. CASE RunLocal \/ OpenFork
    BY <2>1, StartKeepsResult DEF RunLocal, OpenFork
  <2>2. CASE Edit
    BY <2>2, EditKeepsResult
  <2>3. ASSUME NEW r \in Runs, RunNext(r) PROVE ResultMatches' /\ ShownInOrder'
    BY <2>3, RunKeepsResult, RunKeepsOrder
  <2>4. CASE UNCHANGED vars
    BY <2>4 DEF vars, ResultMatches, ShownInOrder, Playing
  <2>5. QED
    BY <2>1, <2>2, <2>3, <2>4 DEF Next
<1>3. QED
  BY <1>1, <1>2, InvHolds, PTL DEF Spec

\* Type correctness: whatever overlaps, the store's fields and every run's record
\* keep their types, and a library entry names a run and how it ended.
THEOREM TypeCorrect == Spec => []TypeOK
<1>1. Inv => TypeOK
  BY DEF Inv
<1>2. QED
  BY <1>1, InvHolds, PTL

\* At most one session plays, the one that cancel, pause and resume reach: a new run,
\* a fork or an edit cancels the active one, and a late continuation releases its own.
THEOREM OnlyOnePlays == Spec => []OnePlays
<1>1. Inv => OnePlays
  BY DEF Inv
<1>2. QED
  BY <1>1, InvHolds, PTL

\* The evidence in the store is never replaced by that of an older run, in whatever
\* order the digests come back.
THEOREM EvidenceKept == Spec => EvidenceNeverGoesBack
<1>1. Inv /\ [Next]_vars => [artifact' >= artifact]_artifact
  <2> SUFFICES ASSUME Inv, [Next]_vars, artifact' # artifact PROVE artifact' >= artifact
    OBVIOUS
  <2>1. PICK r \in Runs : ArtifactMade(r)
    BY DEF Next, RunLocal, OpenFork, Start, Edit, RunNext, Started, Pause, Resume, Moves, Batch, Complete,
           Fail, Cancel, Settles, TerminalRecorded, CompletedRecorded, vars
  <2>2. artifact' = r /\ r = runs
    BY <2>1, ArtifactIsNewest
  <2>3. QED
    BY <2>2 DEF Inv, ShowsNewest, TypeOK, Runs, NoRun
<1>2. QED
  BY <1>1, InvHolds, PTL DEF Spec, EvidenceNeverGoesBack

\* The result on screen is that of the run shown, which completed and was started
\* under the design as it is now, however runs, forks, edits and the awaits of their
\* continuations overlap; in a private scenario every frame of it is shown once and
\* in order, also by a fork, which starts with the frames of its source.
THEOREM ResultStaysCurrent == Spec => []ResultIsCurrent
<1>1. Inv /\ ResultMatches /\ ShownInOrder => ResultIsCurrent
  <2> SUFFICES ASSUME Inv, ResultMatches, ShownInOrder, result # NoRun PROVE ResultIsCurrent
    BY DEF ResultIsCurrent
  <2>1. result = session.run /\ rec[result].rev = revision /\ rec[result].outcome = "completed"
    BY DEF ResultMatches
  <2>2. ASSUME private PROVE shown = [i \in 1 .. Frames |-> i - 1]
    <3>1. shown \in Seq(Nat) /\ Len(shown) = Frames /\ \A i \in 1 .. Len(shown) : shown[i] = i - 1
      BY <2>2 DEF Inv, TypeOK, ShownInOrder
    <3>2. QED
      BY <3>1
  <2>3. QED
    BY <2>1, <2>2 DEF ResultIsCurrent
<1>2. QED
  BY <1>1, InvHolds, ResultInvHolds, PTL

-----------------------------------------------------------------------------
(* LabStore                                                                *)

Sessions == {"host", "guest", None}
Results  == [scenario : Scenarios, architecture : Architectures, hidden : BOOLEAN]
Asked    == [scenario : Scenarios, architecture : Architectures, hidden : BOOLEAN,
             latest : BOOLEAN, same : BOOLEAN]

\* Only interviews have private criteria.
Proper == {s \in Scenarios : s.mode = "guided" => s.criteria # "hidden"}

Drawn == [scenario : Proper, architecture : Architectures]

DesignTypes ==
  /\ scenario \in Proper /\ architecture \in Architectures
  /\ role \in {"interviewer", "participant"}
  /\ evidence \in Drawn \cup {None} /\ intent \in Designs \cup {None}
  /\ steps \in Nat /\ page \in {"lab", "away"} /\ link \in Sessions /\ kept \in Sessions
  /\ loading \in Loadings \cup {None}
  /\ snapshots \in SUBSET Architectures /\ shelf \in SUBSET Architectures
  /\ raced \in BOOLEAN

SolverTypes ==
  /\ solver \in Results \cup {None}
  /\ solving \in {"idle", "running", "complete", "error"}
  /\ requests \in SUBSET Asked

\* The two drafts: the one in localStorage never has the private criteria, the
\* interviewer's is of an interview.
DraftTypes ==
  /\ draft \in Drawn \cup {None} /\ privateDraft \in Drawn \cup {None}
  /\ draft # None => draft.scenario.criteria # "hidden"
  /\ privateDraft # None => privateDraft.scenario.mode = "interview"

\* Every state that undo, redo or the end of a drag could bring back.
HistoryInv ==
  /\ committed \in SUBSET Architectures
  /\ undo \in Seq(committed) /\ redo \in Seq(committed)
  /\ transient \in committed \cup {None}
  /\ transient = None => architecture \in committed

\* hydrate at its await: it began with a participant's empty tab, which is so
\* until another scenario is loaded or something was computed.
LoadingInv ==
  loading # None =>
    /\ ~raced
    /\ ~loading.touched =>
         /\ loading.snapshots = shelf /\ solver = None /\ solving = "idle"
         /\ \A r \in requests : ~Lands(r)
    /\ loading.current => role = "participant" /\ link = None
    /\ loading.share = None /\ ~loading.touched => loading.current /\ kept = loading.session
    /\ loading.share # None /\ loading.current => kept = None

\* The storage is that of what is on screen: hydrate is through, or will find that
\* a newer load came before it.
Settled == \/ page = "lab" /\ loading = None
           \/ loading # None /\ loading.share # None /\ ~loading.current

Fits ==
  /\ kept = link
  /\ role = "interviewer" => kept # "guest"
  /\ role = "participant" => kept # "host"
  /\ transient = None =>
       LET again == Restored(kept) IN
       /\ again.architecture = architecture /\ again.scenario = scenario
       /\ scenario.mode = "interview" => again.role = role

StorageInv ==
  /\ Settled /\ ~raced => Fits
  /\ page = "lab" /\ loading = None /\ ~raced => shelf = snapshots

\* An answer that will be shown is of the design and of the role on screen.
RequestInv ==
  \A r \in requests : Lands(r) =>
    r.scenario = scenario /\ r.architecture = architecture /\ r.hidden = (role = "interviewer")

LabInv == /\ DesignTypes /\ SolverTypes /\ DraftTypes /\ HistoryInv
          /\ LoadingInv /\ StorageInv /\ RequestInv
          /\ SolverFits /\ CriteriaStayPrivate

-----------------------------------------------------------------------------
(* What many operations do.                                                *)

LEMMA CandidateIsSafe ==
  ASSUME NEW s \in Scenarios
  PROVE  /\ Candidate(s) \in Proper /\ Candidate(s).criteria # "hidden"
         /\ Candidate(s).mode = s.mode
         /\ s.criteria # "hidden" => Candidate(s) = s
<1>1. Candidate(s) \in Scenarios /\ Candidate(s).criteria # "hidden" /\ Candidate(s).mode = s.mode
  BY DEF Candidate, Scenarios
<1>2. s.criteria # "hidden" => Candidate(s) = s
  BY DEF Candidate, Scenarios
<1> QED
  BY <1>1, <1>2 DEF Proper

\* Commands that clear the solver leave no answer that will be shown.
LEMMA ClearedSolver ==
  ASSUME LabInv, NoSolver, Outrun
  PROVE  SolverTypes' /\ RequestInv' /\ SolverFits' /\ \A r \in requests' : ~Lands(r)
<1>1. requests' = {[r EXCEPT !.latest = FALSE, !.same = FALSE] : r \in requests}
  BY DEF Outrun
<1>2. ASSUME NEW q \in requests'
      PROVE q \in Asked /\ ~q.latest
  <2>1. PICK r \in requests : q = [r EXCEPT !.latest = FALSE, !.same = FALSE]
    BY <1>1
  <2>2. r \in Asked
    BY DEF LabInv, SolverTypes
  <2> QED
    BY <2>1, <2>2 DEF Asked
<1>3. solver' = None /\ solving' = "idle"
  BY DEF NoSolver
<1>4. \A r \in requests' : ~Lands(r)
  BY <1>2 DEF Lands
<1> QED
  BY <1>2, <1>3, <1>4 DEF SolverTypes, RequestInv, SolverFits

LEMMA DraftsAreSaved ==
  ASSUME NEW s \in Proper, NEW a \in Architectures, NEW r, Persist(s, a, r)
  PROVE  DraftTypes'
<1>1. s \in Scenarios
  BY DEF Proper
<1>2. Candidate(s) \in Proper /\ Candidate(s).criteria # "hidden"
  BY <1>1, CandidateIsSafe
<1> QED
  BY <1>1, <1>2 DEF Persist, DraftTypes, Drawn

\* What was persisted is what hydrate restores.
LEMMA SavedIsRestored ==
  ASSUME NEW s \in Proper, NEW a \in Architectures, NEW r \in {"interviewer", "participant"},
         Persist(s, a, r), scenario' = s, architecture' = a, role' = r, kept' = link',
         kept' \in Sessions,
         r = "interviewer" => kept' # "guest",
         r = "participant" => kept' # "host" /\ s.criteria # "hidden"
  PROVE  Fits'
<1>1. s \in Scenarios /\ (s.mode = "guided" => s.criteria # "hidden") /\ s.mode \in {"guided", "interview"}
  BY DEF Proper, Scenarios
<1>2. s.criteria # "hidden" => Candidate(s) = s
  BY <1>1, CandidateIsSafe
<1>3. Candidate(s) \in Scenarios /\ Candidate(s).criteria # "hidden"
  BY <1>1, CandidateIsSafe DEF Proper
<1>4. Candidate(Candidate(s)) = Candidate(s)
  BY <1>3, CandidateIsSafe
<1>5. [scenario |-> s, architecture |-> a] \in Designs /\ [scenario |-> Candidate(s), architecture |-> a] \in Designs
  BY <1>1, <1>3 DEF Designs
<1>6. [scenario |-> s, architecture |-> a] # None /\ [scenario |-> Candidate(s), architecture |-> a] # None
  BY <1>5, StoreAssumption
<1>7. draft' = [scenario |-> Candidate(s), architecture |-> a]
  BY DEF Persist
<1>8. CASE r = "interviewer" /\ s.mode = "interview"
  <2>1. privateDraft' = [scenario |-> s, architecture |-> a]
    BY <1>8 DEF Persist
  <2>2. privateDraft' # None /\ kept' # "guest"
    BY <2>1, <1>6, <1>8
  <2>3. Restored(kept)' = [scenario |-> s, architecture |-> a, role |-> "interviewer"]
    BY <2>1, <2>2 DEF Restored
  <2> QED
    BY <2>2, <2>3, <1>8 DEF Fits
<1>9. CASE ~(r = "interviewer" /\ s.mode = "interview")
  <2>1. privateDraft' = None
    BY <1>9 DEF Persist
  <2>2. s.criteria # "hidden"
    BY <1>9, <1>1
  <2>3. Candidate(s) = s /\ Candidate(Candidate(s)) = s
    BY <2>2, <1>2, <1>4
  <2>4. Restored(kept)' = [scenario |-> s, architecture |-> a,
                           role |-> IF kept' = "host" THEN "interviewer" ELSE "participant"]
    BY <2>1, <2>3, <1>6, <1>7 DEF Restored
  <2>5. s.mode = "interview" => r = "participant"
    BY <1>9, <1>1
  <2> QED
    BY <2>4, <2>5 DEF Fits
<1> QED
  BY <1>8, <1>9

LEMMA TouchedIs ==
  ASSUME loading \in Loadings \cup {None}, Touched
  PROVE  /\ loading' \in Loadings \cup {None}
         /\ (loading' = None) = (loading = None)
         /\ loading # None => /\ loading'.touched /\ loading'.share = loading.share
                              /\ loading'.current = loading.current
                              /\ loading'.session = loading.session
                              /\ loading'.snapshots = loading.snapshots
<1>1. CASE loading = None
  BY <1>1 DEF Touched
<1>2. CASE loading # None
  <2>1. loading \in Loadings /\ loading' = [loading EXCEPT !.touched = TRUE]
    BY <1>2 DEF Touched
  <2>2. loading' \in Loadings
    BY <2>1 DEF Loadings
  <2>3. /\ loading'.touched /\ loading'.share = loading.share
        /\ loading'.current = loading.current
        /\ loading'.session = loading.session
        /\ loading'.snapshots = loading.snapshots
    BY <2>1 DEF Loadings
  <2>4. loading' # None
    BY <2>2, StoreAssumption
  <2> QED
    BY <2>2, <2>3, <2>4, <1>2
<1> QED
  BY <1>1, <1>2

LEMMA SeqGrows ==
  ASSUME NEW S, NEW T, S \subseteq T, NEW h \in Seq(S)
  PROVE  h \in Seq(T)
<1>1. Len(h) \in Nat /\ DOMAIN h = 1 .. Len(h) /\ h = [i \in 1 .. Len(h) |-> h[i]]
  OBVIOUS
<1>2. \A i \in 1 .. Len(h) : h[i] \in T
  OBVIOUS
<1>3. [i \in 1 .. Len(h) |-> h[i]] \in [1 .. Len(h) -> T]
  BY <1>2
<1>4. h \in [1 .. Len(h) -> T]
  BY <1>1, <1>3, Zenon
<1> QED
  BY <1>1, <1>4

LEMMA PushKeeps ==
  ASSUME NEW S, NEW h \in Seq(S), NEW a \in S
  PROVE  Push(h, a) \in Seq(S)
<1>1. Append(h, a) \in Seq(S) /\ Append(h, a) # <<>>
  BY AppendProperties
<1>2. Tail(Append(h, a)) \in Seq(S)
  BY <1>1, HeadTailProperties
<1> QED
  BY <1>1, <1>2 DEF Push

\* A design is put in place, saved and committed; what was on screen goes to the
\* history, or the history stays.
LEMMA HistoryGrows ==
  ASSUME LabInv, NEW S \in SUBSET Architectures, committed' = committed \cup S,
         undo' \in Seq(committed'), redo' \in Seq(committed'),
         transient' \in committed' \cup {None},
         transient' = None => architecture' \in committed'
  PROVE  HistoryInv'
BY DEF LabInv, HistoryInv

\* The edits of scenario and architecture in the tab that saves them.
LEMMA EditKeeps ==
  ASSUME LabInv, NEW s \in Proper, NEW a \in Architectures,
         s.criteria \in {scenario.criteria, "none"},
         scenario' = s, architecture' = a,
         UNCHANGED <<role, evidence, link, page, loading, intent, kept, snapshots, shelf, raced>>,
         NoSolver, Outrun, Persist(s, a, role), steps' = steps + 1, HistoryInv'
  PROVE  LabInv'
<1>1. SolverTypes' /\ RequestInv' /\ SolverFits' /\ \A r \in requests' : ~Lands(r)
  BY ClearedSolver
<1>2. role \in {"interviewer", "participant"}
  BY DEF LabInv, DesignTypes
<1>3. DraftTypes'
  BY DraftsAreSaved
<1>4. DesignTypes'
  BY DEF LabInv, DesignTypes
<1>5. LoadingInv'
  <2>1. \A r \in requests' : ~Lands(r)'
    BY <1>1 DEF Lands
  <2> QED
    BY <2>1 DEF LabInv, LoadingInv, NoSolver
<1>6. role = "participant" /\ ~raced => s.criteria # "hidden"
  BY DEF LabInv, CriteriaStayPrivate
<1>7. CriteriaStayPrivate'
  BY <1>6, <1>3 DEF LabInv, CriteriaStayPrivate, NoSolver, DraftTypes
<1>8. StorageInv'
  <2>1. ASSUME Settled', ~raced' PROVE Fits'
    <3>1. Fits
      BY <2>1 DEF LabInv, StorageInv, Settled
    <3>2. kept' = link' /\ kept' \in Sessions
      BY <3>1 DEF LabInv, DesignTypes, Fits
    <3>3. /\ role = "interviewer" => kept' # "guest"
          /\ role = "participant" => kept' # "host" /\ s.criteria # "hidden"
      BY <3>1, <2>1, <1>6 DEF Fits
    <3> QED
      BY <1>2, <3>2, <3>3, SavedIsRestored
  <2>2. page' = "lab" /\ loading' = None /\ ~raced' => shelf' = snapshots'
    BY DEF LabInv, StorageInv
  <2> QED
    BY <2>1, <2>2 DEF StorageInv
<1> QED
  BY <1>1, <1>3, <1>4, <1>5, <1>7, <1>8 DEF LabInv

-----------------------------------------------------------------------------
(* One operation at a time.                                                *)

LEMMA BaseIsCommitted ==
  ASSUME LabInv
  PROVE  Base \in committed /\ committed \subseteq Architectures
BY DEF LabInv, HistoryInv, Base

LEMMA EditArchitectureKeeps ==
  ASSUME LabInv, NEW a \in Architectures, EditArchitecture(a)
  PROVE  LabInv'
<1>1. Push(undo, Base) \in Seq(committed)
  BY BaseIsCommitted, PushKeeps DEF LabInv, HistoryInv
<1>2. Push(undo, Base) \in Seq(committed \cup {a})
  BY <1>1, SeqGrows
<1>3. HistoryInv'
  <2>1. /\ committed' = committed \cup {a} /\ redo' = <<>> /\ transient' = None
        /\ architecture' = a /\ undo' = Push(undo, Base)
    BY DEF EditArchitecture
  <2>2. redo' \in Seq(committed') /\ {a} \in SUBSET Architectures
    BY <2>1
  <2> QED
    BY <1>2, <2>1, <2>2, HistoryGrows
<1> QED
  BY <1>3, EditKeeps DEF EditArchitecture, LabInv, DesignTypes, User

LEMMA ReturnKeeps ==
  ASSUME LabInv, NEW a \in committed, Return(a), undo' \in Seq(committed), redo' \in Seq(committed)
  PROVE  LabInv'
<1>1. a \in Architectures /\ committed' = committed
  BY BaseIsCommitted DEF Return
<1>2. HistoryInv'
  BY <1>1 DEF LabInv, HistoryInv, Return
<1> QED
  BY <1>1, <1>2, EditKeeps DEF Return, LabInv, DesignTypes, User

LEMMA UndoneKeeps ==
  ASSUME LabInv, CancelDrag \/ Undo \/ Redo
  PROVE  LabInv'
<1>1. undo \in Seq(committed) /\ redo \in Seq(committed)
  BY DEF LabInv, HistoryInv
<1>2. CASE CancelDrag
  <2>1. transient \in committed
    BY <1>2 DEF CancelDrag, LabInv, HistoryInv
  <2> QED
    BY <1>1, <1>2, <2>1, ReturnKeeps DEF CancelDrag
<1>3. CASE Undo
  <2>1. undo # <<>> /\ architecture \in committed
    BY <1>3 DEF Undo, LabInv, HistoryInv
  <2>2. Last(undo) \in committed
    BY <1>1, <2>1 DEF Last
  <2>3. Front(undo) \in Seq(committed)
    <3>1. Len(undo) \in Nat \ {0}
      BY <1>1, <2>1
    <3>2. \A i \in 1 .. Len(undo) - 1 : undo[i] \in committed
      BY <1>1
    <3>3. SubSeq(undo, 1, Len(undo) - 1) = [i \in 1 .. Len(undo) - 1 |-> undo[i]]
      BY <1>1, <3>1
    <3> QED
      BY <3>1, <3>2, <3>3 DEF Front
  <2>4. <<architecture>> \o redo \in Seq(committed) /\ Len(<<architecture>> \o redo) = Len(redo) + 1
    BY <1>1, <2>1
  <2> DEFINE n == IF Len(redo) < HistoryLimit THEN Len(redo) + 1 ELSE HistoryLimit
  <2>5. n \in Nat /\ n <= Len(redo) + 1
    BY <1>1, StoreAssumption
  <2>6. SubSeq(<<architecture>> \o redo, 1, n) \in Seq(committed)
    <3> DEFINE longer == <<architecture>> \o redo
    <3>1. longer \in Seq(committed) /\ n \in Nat /\ n <= Len(longer)
      BY <2>4, <2>5
    <3> HIDE DEF longer, n
    <3>2. \A i \in 1 .. n : longer[i] \in committed
      BY <3>1
    <3>3. SubSeq(longer, 1, n) = [i \in 1 .. n |-> longer[i]]
      BY <3>1
    <3> QED
      BY <3>1, <3>2, <3>3 DEF longer
  <2> HIDE DEF n
  <2>7. Return(Last(undo)) /\ undo' = Front(undo) /\ redo' = SubSeq(<<architecture>> \o redo, 1, n)
    BY <1>3 DEF Undo, n
  <2> QED
    BY <2>2, <2>3, <2>6, <2>7, ReturnKeeps
<1>4. CASE Redo
  <2>1. redo # <<>> /\ architecture \in committed
    BY <1>4 DEF Redo, LabInv, HistoryInv
  <2>2. Head(redo) \in committed /\ Tail(redo) \in Seq(committed)
    BY <1>1, <2>1, HeadTailProperties
  <2>3. Push(undo, architecture) \in Seq(committed)
    BY <1>1, <2>1, PushKeeps
  <2> QED
    BY <1>4, <2>2, <2>3, ReturnKeeps DEF Redo
<1> QED
  BY <1>2, <1>3, <1>4

LEMMA ChangeScenarioKeeps ==
  ASSUME LabInv, NEW s \in Changes, ChangeScenario(s)
  PROVE  LabInv'
<1>1. scenario \in Proper /\ architecture \in Architectures
  BY DEF LabInv, DesignTypes
<1>2. s \in Proper /\ s.criteria \in {scenario.criteria, "none"}
  <2>1. CASE s = Guided
    BY <2>1 DEF Proper, Scenarios, Guided
  <2>2. CASE s = [scenario EXCEPT !.goal = ~scenario.goal]
    <3>1. scenario \in Scenarios /\ scenario.goal \in BOOLEAN
      BY <1>1 DEF Proper, Scenarios
    <3> DEFINE other == ~scenario.goal
    <3>2. other \in BOOLEAN
      OBVIOUS
    <3>3. s = [scenario EXCEPT !.goal = other]
      BY <2>2
    <3> HIDE DEF other
    <3>4. s \in Scenarios /\ s.mode = scenario.mode /\ s.criteria = scenario.criteria
      BY <3>1, <3>2, <3>3 DEF Scenarios
    <3> QED
      BY <1>1, <3>4 DEF Proper
  <2> QED
    BY <2>1, <2>2 DEF Changes
<1>3. HistoryInv'
  <2>1. /\ undo \in Seq(committed) /\ redo \in Seq(committed)
        /\ transient \in committed \cup {None} /\ architecture' = architecture
    BY DEF LabInv, HistoryInv, ChangeScenario
  <2>2. undo \in Seq(committed \cup {architecture}) /\ redo \in Seq(committed \cup {architecture})
    BY <2>1, SeqGrows
  <2> QED
    BY <1>1, <2>1, <2>2, HistoryGrows DEF ChangeScenario
<1> QED
  BY <1>1, <1>2, <1>3, EditKeeps DEF ChangeScenario, User

LEMMA DragKeeps ==
  ASSUME LabInv, NEW a \in Architectures, Drag(a)
  PROVE  LabInv'
<1>1. SolverTypes' /\ RequestInv' /\ SolverFits' /\ \A r \in requests' : ~Lands(r)
  BY ClearedSolver DEF Drag
<1>2. transient' \in committed /\ transient' # None
  BY BaseIsCommitted, StoreAssumption DEF Drag
<1>3. HistoryInv'
  BY <1>2 DEF Drag, LabInv, HistoryInv
<1>4. DesignTypes' /\ DraftTypes'
  BY DEF Drag, User, LabInv, DesignTypes, DraftTypes
<1>5. LoadingInv'
  <2>1. \A r \in requests' : ~Lands(r)'
    BY <1>1 DEF Lands
  <2> QED
    BY <2>1 DEF LabInv, LoadingInv, NoSolver, Drag
<1>6. StorageInv'
  <2>1. Settled' = Settled
    BY DEF Settled, Drag
  <2> QED
    BY <1>2, <2>1 DEF LabInv, StorageInv, Fits, Drag
<1>7. CriteriaStayPrivate'
  BY DEF LabInv, CriteriaStayPrivate, NoSolver, Drag
<1> QED
  BY <1>1, <1>3, <1>4, <1>5, <1>6, <1>7 DEF LabInv

\* What is not about the design, nor about a solver.
LEMMA AsideKeeps ==
  ASSUME LabInv, UNCHANGED <<design, undo, redo, transient, committed, solves, link, draft, privateDraft, kept, raced>>,
         evidence' \in Drawn \cup {None},
         evidence' = evidence \/ (evidence' # None => evidence'.scenario = scenario),
         intent' \in Designs \cup {None}, page' \in {"lab", "away"}, steps' \in Nat,
         snapshots' \in SUBSET Architectures, shelf' \in SUBSET Architectures,
         loading' \in Loadings \cup {None}, LoadingInv',
         Settled' => Settled,
         page' = "lab" /\ loading' = None /\ ~raced' => shelf' = snapshots'
  PROVE  LabInv'
<1>1. /\ UNCHANGED <<scenario, architecture, role, solver, solving, requests>>
      /\ UNCHANGED <<undo, redo, transient, committed, link, draft, privateDraft, kept, raced>>
  BY DEF design, solves
<1>2. DesignTypes' /\ SolverTypes' /\ DraftTypes' /\ HistoryInv'
  BY <1>1 DEF LabInv, DesignTypes, SolverTypes, DraftTypes, HistoryInv
<1>3. RequestInv' /\ SolverFits'
  BY <1>1 DEF LabInv, RequestInv, SolverFits, Lands
<1>4. CriteriaStayPrivate'
  BY <1>1 DEF LabInv, CriteriaStayPrivate
<1>5. Fits' = Fits
  BY <1>1 DEF Fits, Restored
<1>6. StorageInv'
  BY <1>1, <1>5 DEF LabInv, StorageInv
<1> QED
  BY <1>2, <1>3, <1>4, <1>6 DEF LabInv

LEMMA LoadingStays ==
  ASSUME LabInv, UNCHANGED <<role, solver, solving, requests, link, loading, kept, shelf, raced>>
  PROVE  LoadingInv'
BY DEF LabInv, LoadingInv, Lands

LEMMA SnapshotsKeep ==
  ASSUME LabInv, NEW list \in SUBSET Architectures, SaveSnapshots(list)
  PROVE  LabInv'
<1>1. /\ loading \in Loadings \cup {None} /\ steps \in Nat
  BY DEF LabInv, DesignTypes
<1>2. /\ loading' \in Loadings \cup {None}
      /\ (loading' = None) = (loading = None)
      /\ loading # None => /\ loading'.touched /\ loading'.share = loading.share
                           /\ loading'.current = loading.current
                           /\ loading'.session = loading.session
                           /\ loading'.snapshots = loading.snapshots
  BY <1>1, TouchedIs DEF SaveSnapshots
<1>3. LoadingInv'
  BY <1>2 DEF LabInv, LoadingInv, SaveSnapshots
<1>4. Settled' => Settled
  BY <1>2 DEF Settled, SaveSnapshots
<1>5. UNCHANGED <<design, undo, redo, transient, committed, solves, link, draft, privateDraft, kept, raced>>
  BY DEF SaveSnapshots, design, solves
<1>6. /\ evidence' = evidence /\ evidence \in Drawn \cup {None}
      /\ intent' \in Designs \cup {None} /\ page' \in {"lab", "away"} /\ steps' \in Nat
      /\ snapshots' = list /\ shelf' = list
  BY DEF LabInv, DesignTypes, SaveSnapshots, User
<1> QED
  BY <1>2, <1>3, <1>4, <1>5, <1>6, AsideKeeps

LEMMA AsideStepsKeep ==
  ASSUME LabInv,
         CompleteRun \/ Leave \/ \E a \in Architectures : QueueReplay(Guided, a)
  PROVE  LabInv'
<1>1. /\ evidence \in Drawn \cup {None} /\ intent \in Designs \cup {None} /\ page \in {"lab", "away"}
      /\ snapshots \in SUBSET Architectures /\ shelf \in SUBSET Architectures /\ steps \in Nat
      /\ loading \in Loadings \cup {None} /\ scenario \in Proper /\ architecture \in Architectures
  BY DEF LabInv, DesignTypes
<1>2. page = "lab" /\ loading = None /\ ~raced => shelf = snapshots
  BY DEF LabInv, StorageInv
<1>3. CASE CompleteRun
  <2>1. UNCHANGED <<design, undo, redo, transient, committed, solves, link, draft, privateDraft, kept, raced>>
    BY <1>3 DEF CompleteRun, design, solves
  <2>2. LoadingInv' /\ (Settled' => Settled)
    BY <1>3, LoadingStays DEF CompleteRun, Settled
  <2>3. evidence' \in Drawn /\ evidence'.scenario = scenario
    BY <1>1, <1>3 DEF CompleteRun, Drawn
  <2>4. UNCHANGED <<intent, page, snapshots, shelf, loading, raced>> /\ steps' = steps + 1
    BY <1>3 DEF CompleteRun, User
  <2> QED
    BY <1>1, <1>2, <2>1, <2>2, <2>3, <2>4, AsideKeeps
<1>4. CASE Leave
  <2>1. UNCHANGED <<design, undo, redo, transient, committed, solves, link, draft, privateDraft, kept, raced>>
    BY <1>4 DEF Leave, design, solves
  <2>2. LoadingInv' /\ (Settled' => Settled)
    BY <1>4, LoadingStays DEF Leave, Settled
  <2>4. UNCHANGED <<evidence, snapshots, shelf, loading, raced>> /\ steps' = steps + 1 /\ page' = "away" /\ intent' = None
    BY <1>4 DEF Leave, User
  <2> QED
    BY <1>1, <1>2, <2>1, <2>2, <2>4, AsideKeeps
<1>5. ASSUME NEW a \in Architectures, QueueReplay(Guided, a)
      PROVE LabInv'
  <2>1. UNCHANGED <<design, undo, redo, transient, committed, solves, link, draft, privateDraft, kept, raced>>
    BY <1>5 DEF QueueReplay, design, solves
  <2>2. LoadingInv' /\ (Settled' => Settled)
    BY <1>5, LoadingStays DEF QueueReplay, Settled
  <2>3. intent' \in Designs
    BY <1>5 DEF QueueReplay, Designs, Scenarios, Guided
  <2>4. UNCHANGED <<evidence, snapshots, shelf, loading, raced, page>> /\ steps' = steps + 1
    BY <1>5 DEF QueueReplay
  <2> QED
    BY <1>1, <1>2, <2>1, <2>2, <2>3, <2>4, AsideKeeps
<1> QED
  BY <1>3, <1>4, <1>5

LEMMA CommitKeeps ==
  ASSUME LabInv, Commit
  PROVE  LabInv'
<1>1. /\ UNCHANGED <<scenario, architecture, role, solver, solving, requests, evidence, link, page,
                     loading, intent, kept, snapshots, shelf, raced>>
      /\ Persist(scenario, architecture, role) /\ steps' = steps + 1
      /\ undo' = Push(undo, transient) /\ redo' = <<>> /\ transient' = None /\ transient # None
      /\ committed' = committed \cup {architecture}
  BY DEF Commit, User
<1>2. scenario \in Proper /\ architecture \in Architectures /\ role \in {"interviewer", "participant"}
  BY DEF LabInv, DesignTypes
<1>3. DraftTypes'
  BY <1>1, <1>2, DraftsAreSaved
<1>4. DesignTypes' /\ SolverTypes'
  BY <1>1 DEF LabInv, DesignTypes, SolverTypes
<1>5. HistoryInv'
  <2>1. undo \in Seq(committed) /\ transient \in committed
    BY <1>1 DEF LabInv, HistoryInv
  <2>2. undo' \in Seq(committed)
    BY <1>1, <2>1, PushKeeps
  <2>3. undo' \in Seq(committed')
    BY <1>1, <2>2, SeqGrows
  <2>4. redo' \in Seq(committed') /\ {architecture} \in SUBSET Architectures
    BY <1>1, <1>2
  <2> QED
    BY <1>1, <2>3, <2>4, HistoryGrows
<1>6. LoadingInv'
  BY <1>1, LoadingStays
<1>7. RequestInv' /\ SolverFits'
  BY <1>1 DEF LabInv, RequestInv, SolverFits, Lands
<1>8. CriteriaStayPrivate'
  BY <1>1, <1>3 DEF LabInv, CriteriaStayPrivate, DraftTypes
<1>9. StorageInv'
  <2>1. ASSUME Settled', ~raced' PROVE Fits'
    <3>1. Fits
      BY <1>1, <2>1 DEF LabInv, StorageInv, Settled
    <3>2. kept' = link' /\ kept' \in Sessions
      BY <1>1, <3>1 DEF LabInv, DesignTypes, Fits
    <3>3. /\ role = "interviewer" => kept' # "guest"
          /\ role = "participant" => kept' # "host" /\ scenario.criteria # "hidden"
      BY <1>1, <3>1, <2>1 DEF Fits, LabInv, CriteriaStayPrivate
    <3> QED
      BY <1>1, <1>2, <3>2, <3>3, SavedIsRestored
  <2> QED
    BY <1>1, <2>1 DEF LabInv, StorageInv
<1> QED
  BY <1>3, <1>4, <1>5, <1>6, <1>7, <1>8, <1>9 DEF LabInv

\* Solving changes neither the design nor what is stored.
LEMMA SolvingKeeps ==
  ASSUME LabInv,
         UNCHANGED <<design, history, evidence, link, page, intent, storage, snapshots, raced>>,
         steps' \in Nat, SolverTypes', RequestInv', SolverFits',
         loading' \in Loadings \cup {None}, LoadingInv', Settled' => Settled,
         loading' = None => loading = None,
         role = "participant" /\ ~raced /\ solver' # None => ~solver'.hidden
  PROVE  LabInv'
<1>1. /\ UNCHANGED <<scenario, architecture, role, undo, redo, transient, committed>>
      /\ UNCHANGED <<evidence, link, page, intent, snapshots, raced, draft, privateDraft, kept, shelf>>
  BY DEF design, history, storage
<1>2. DesignTypes' /\ DraftTypes' /\ HistoryInv'
  BY <1>1 DEF LabInv, DesignTypes, DraftTypes, HistoryInv
<1>3. CriteriaStayPrivate'
  BY <1>1 DEF LabInv, CriteriaStayPrivate
<1>4. Fits' = Fits
  BY <1>1 DEF Fits, Restored
<1>5. StorageInv'
  BY <1>1, <1>4 DEF LabInv, StorageInv
<1> QED
  BY <1>2, <1>3, <1>5 DEF LabInv

LEMMA SolveKeeps ==
  ASSUME LabInv, Solve
  PROVE  LabInv'
<1> DEFINE new == [scenario |-> scenario, architecture |-> architecture,
                   hidden |-> role = "interviewer", latest |-> TRUE, same |-> TRUE]
<1>1. /\ scenario \in Scenarios /\ architecture \in Architectures /\ (role = "interviewer") \in BOOLEAN
      /\ loading \in Loadings \cup {None} /\ steps \in Nat
  BY DEF LabInv, DesignTypes, Proper
<1>2. new \in Asked /\ Lands(new)
  BY <1>1, Zenon DEF Asked, Lands
<1>3. new.scenario = scenario /\ new.architecture = architecture /\ new.hidden = (role = "interviewer")
  OBVIOUS
<1>4. /\ requests' = {[r EXCEPT !.latest = FALSE] : r \in requests} \cup {new}
      /\ solver' = None /\ solving' = "running"
      /\ UNCHANGED <<scenario, architecture, role, raced, page, kept, link, shelf>>
      /\ steps' = steps + 1
  BY DEF Solve, User
<1>5. UNCHANGED <<design, history, evidence, link, page, intent, storage, snapshots, raced>>
  BY DEF Solve, design, history, storage
<1>6. /\ loading' \in Loadings \cup {None}
      /\ (loading' = None) = (loading = None)
      /\ loading # None => /\ loading'.touched /\ loading'.share = loading.share
                           /\ loading'.current = loading.current
                           /\ loading'.session = loading.session
                           /\ loading'.snapshots = loading.snapshots
  BY <1>1, TouchedIs DEF Solve
<1> HIDE DEF new
<1>7. \A q \in requests' : q \in Asked /\ (Lands(q) => q = new)
  <2> SUFFICES ASSUME NEW q \in requests', q # new
               PROVE  q \in Asked /\ ~Lands(q)
    BY <1>2
  <2>1. PICK r \in requests : q = [r EXCEPT !.latest = FALSE]
    BY <1>4
  <2>2. r \in Asked
    BY DEF LabInv, SolverTypes
  <2> QED
    BY <2>1, <2>2 DEF Asked, Lands
<1>8. SolverTypes'
  BY <1>4, <1>7 DEF SolverTypes
<1>9. RequestInv'
  <2> SUFFICES ASSUME NEW q \in requests', Lands(q)'
               PROVE  q.scenario = scenario /\ q.architecture = architecture /\ q.hidden = (role = "interviewer")
    BY <1>4, Zenon DEF RequestInv
  <2>1. q = new
    BY <1>7 DEF Lands
  <2> QED
    BY <2>1, <1>3
<1>10. SolverFits'
  BY <1>2, <1>4 DEF SolverFits, Lands
<1>11. LoadingInv' /\ (Settled' => Settled)
  BY <1>4, <1>6 DEF LabInv, LoadingInv, Settled
<1> QED
  BY <1>1, <1>4, <1>5, <1>6, <1>8, <1>9, <1>10, <1>11, SolvingKeeps

LEMMA SolvedKeeps ==
  ASSUME LabInv, NEW r \in requests, NEW succeeds \in BOOLEAN, Solved(r, succeeds)
  PROVE  LabInv'
<1>1. /\ requests' = requests \ {r}
      /\ UNCHANGED <<design, history, evidence, link, page, intent, storage, snapshots, raced, loading, steps>>
      /\ UNCHANGED <<scenario, architecture, role, raced, loading, link, kept, shelf, page>>
  BY DEF Solved, design, history, storage
<1>2. /\ r \in Asked /\ requests \in SUBSET Asked /\ loading \in Loadings \cup {None} /\ steps \in Nat
  BY DEF LabInv, SolverTypes, DesignTypes
<1>3. RequestInv'
  BY <1>1 DEF LabInv, RequestInv, Lands
<1>4. CASE ~Lands(r)
  <2>1. UNCHANGED <<solver, solving>>
    BY <1>4 DEF Solved
  <2>2. SolverTypes'
    BY <1>1, <2>1 DEF LabInv, SolverTypes
  <2>3. SolverFits'
    BY <1>1, <1>4, <2>1 DEF LabInv, SolverFits, Lands
  <2>4. LoadingInv' /\ (Settled' => Settled)
    BY <1>1, <2>1 DEF LabInv, LoadingInv, Settled, Lands
  <2>5. role = "participant" /\ ~raced /\ solver' # None => ~solver'.hidden
    BY <2>1 DEF LabInv, CriteriaStayPrivate
  <2> QED
    BY <1>1, <1>2, <1>3, <2>2, <2>3, <2>4, <2>5, SolvingKeeps
<1>5. CASE Lands(r)
  <2>1. /\ solving' \in {"complete", "error"}
        /\ solver' = solver \/ solver' = [scenario |-> r.scenario, architecture |-> r.architecture, hidden |-> r.hidden]
    BY <1>5 DEF Solved
  <2>2. r.scenario = scenario /\ r.architecture = architecture /\ r.hidden = (role = "interviewer")
    BY <1>5 DEF LabInv, RequestInv
  <2>3. [scenario |-> r.scenario, architecture |-> r.architecture, hidden |-> r.hidden] \in Results
    BY <1>2 DEF Asked, Results
  <2>4. SolverTypes'
    BY <1>1, <1>2, <2>1, <2>3 DEF LabInv, SolverTypes
  <2>5. SolverFits'
    BY <1>1, <2>1, <2>2 DEF LabInv, SolverFits
  <2>6. LoadingInv' /\ (Settled' => Settled)
    <3>1. loading # None => loading.touched
      BY <1>5 DEF LabInv, LoadingInv
    <3>2. loading # None => loading.touched \in BOOLEAN
      BY <1>2 DEF Loadings
    <3> QED
      BY <1>1, <3>1 DEF LabInv, LoadingInv, Settled
  <2>7. role = "participant" /\ ~raced /\ solver' # None => ~solver'.hidden
    <3>1. CASE solver' = solver
      BY <3>1 DEF LabInv, CriteriaStayPrivate
    <3>2. CASE solver' = [scenario |-> r.scenario, architecture |-> r.architecture, hidden |-> r.hidden]
      <4>1. solver'.hidden = r.hidden
        BY <3>2
      <4>2. role = "participant" => r.hidden = FALSE
        BY <2>2
      <4> QED
        BY <4>1, <4>2
    <3> QED
      BY <2>1, <3>1, <3>2
  <2> QED
    BY <1>1, <1>2, <1>3, <2>4, <2>5, <2>6, <2>7, SolvingKeeps
<1> QED
  BY <1>4, <1>5

LEMMA ReopenKeeps ==
  ASSUME LabInv, NEW s \in Proper, NEW a \in Architectures, NEW r, Reopen(s, a, r)
  PROVE  /\ SolverTypes' /\ RequestInv' /\ SolverFits' /\ solver' = None /\ solving' = "idle"
         /\ \A q \in requests' : ~Lands(q)'
         /\ DraftTypes' /\ HistoryInv'
         /\ scenario' = s /\ architecture' = a /\ role' = r /\ Persist(s, a, r)
<1>1. /\ SolverTypes' /\ RequestInv' /\ SolverFits' /\ \A q \in requests' : ~Lands(q)
  BY ClearedSolver DEF Reopen
<1>2. DraftTypes'
  BY DraftsAreSaved DEF Reopen
<1>3. architecture \in Architectures /\ undo \in Seq(committed)
  BY DEF LabInv, DesignTypes, HistoryInv
<1> DEFINE S == {architecture, a}
<1>4. /\ undo' = Push(undo, architecture) /\ redo' = <<>> /\ transient' = None
      /\ committed' = committed \cup S /\ architecture' = a
  BY DEF Reopen
<1>5. S \in SUBSET Architectures /\ architecture \in S /\ a \in S
  BY <1>3
<1> HIDE DEF S
<1>6. undo \in Seq(committed')
  BY <1>3, <1>4, SeqGrows
<1>7. undo' \in Seq(committed')
  BY <1>4, <1>5, <1>6, PushKeeps
<1>8. redo' \in Seq(committed')
  BY <1>4
<1>9. HistoryInv'
  BY <1>4, <1>5, <1>7, <1>8, HistoryGrows
<1> QED
  BY <1>1, <1>2, <1>9 DEF Reopen, NoSolver, Lands

LEMMA ReplayKeeps ==
  ASSUME LabInv, Replay \/ Fork
  PROVE  LabInv'
<1>1. /\ evidence \in Drawn \cup {None} /\ role \in {"interviewer", "participant"}
      /\ loading \in Loadings \cup {None} /\ link \in Sessions /\ kept \in Sessions /\ steps \in Nat
  BY DEF LabInv, DesignTypes
<1>2. /\ Reopen(evidence.scenario, evidence.architecture, role) /\ evidence # None
      /\ UNCHANGED <<evidence, page, intent, snapshots, shelf, raced>> /\ steps' = steps + 1
  BY DEF Replay, Fork, User
<1>3. evidence.scenario \in Proper /\ evidence.architecture \in Architectures
  BY <1>1, <1>2 DEF Drawn
<1>4. /\ SolverTypes' /\ RequestInv' /\ SolverFits' /\ solver' = None /\ solving' = "idle"
      /\ \A q \in requests' : ~Lands(q)'
      /\ DraftTypes' /\ HistoryInv'
      /\ scenario' = evidence.scenario /\ architecture' = evidence.architecture /\ role' = role
      /\ Persist(evidence.scenario, evidence.architecture, role)
  BY <1>2, <1>3, ReopenKeeps
<1>5. \/ UNCHANGED <<link, kept, loading>>
      \/ /\ link' = None /\ kept' = None /\ loading' \in Loadings \cup {None}
         /\ (loading' = None) = (loading = None)
         /\ loading # None => /\ loading'.touched /\ loading'.share = loading.share
                              /\ loading'.current = loading.current
                              /\ loading'.session = loading.session
                              /\ loading'.snapshots = loading.snapshots
  <2>1. CASE Replay
    BY <2>1 DEF Replay
  <2>2. CASE Fork
    BY <2>2, <1>1, TouchedIs DEF Fork
  <2> QED
    BY <2>1, <2>2
<1>6. DesignTypes'
  <2>1. link' \in Sessions /\ kept' \in Sessions /\ loading' \in Loadings \cup {None}
    BY <1>1, <1>5 DEF Sessions
  <2>2. scenario' \in Proper /\ architecture' \in Architectures /\ steps' \in Nat
    BY <1>1, <1>2, <1>3, <1>4
  <2> QED
    BY <1>2, <1>4, <2>1, <2>2 DEF LabInv, DesignTypes
<1>7. LoadingInv'
  BY <1>2, <1>4, <1>5 DEF LabInv, LoadingInv
<1>8. role = "participant" /\ ~raced => evidence.scenario.criteria # "hidden"
  BY <1>2 DEF LabInv, CriteriaStayPrivate
<1>9. CriteriaStayPrivate'
  BY <1>2, <1>4, <1>8 DEF CriteriaStayPrivate, DraftTypes
<1>10. StorageInv'
  <2>1. ASSUME Settled', ~raced' PROVE Fits'
    <3>1. Settled
      BY <2>1, <1>2, <1>5 DEF Settled
    <3>2. Fits
      BY <3>1, <2>1, <1>2 DEF LabInv, StorageInv
    <3>3. kept' = link' /\ kept' \in Sessions
      BY <1>5, <1>6, <3>2 DEF Fits, DesignTypes
    <3>4. kept' = kept \/ kept' = None
      BY <1>5
    <3>5. /\ role = "interviewer" => kept' # "guest"
          /\ role = "participant" => kept' # "host" /\ evidence.scenario.criteria # "hidden"
      BY <1>2, <1>8, <2>1, <3>2, <3>4, StoreAssumption DEF Fits
    <3> QED
      BY <1>1, <1>3, <1>4, <3>3, <3>5, SavedIsRestored
  <2>2. page' = "lab" /\ loading' = None /\ ~raced' => shelf' = snapshots'
    BY <1>2, <1>5 DEF LabInv, StorageInv
  <2> QED
    BY <2>1, <2>2 DEF StorageInv
<1> QED
  BY <1>4, <1>6, <1>7, <1>9, <1>10 DEF LabInv

LEMMA ConsumeKeeps ==
  ASSUME LabInv, ConsumeReplay
  PROVE  LabInv'
<1>1. /\ intent \in Designs \cup {None} /\ evidence \in Drawn \cup {None} /\ steps \in Nat
      /\ snapshots \in SUBSET Architectures /\ shelf \in SUBSET Architectures /\ raced \in BOOLEAN
  BY DEF LabInv, DesignTypes
<1>2. /\ page = "lab" /\ loading = None /\ intent # None /\ intent' = None
      /\ UNCHANGED <<page, loading, snapshots, shelf, steps, raced>>
  BY DEF ConsumeReplay
<1>3. CASE UNCHANGED <<scenario, architecture, role, undo, redo, transient, committed, solver,
                       solving, requests, evidence, link, draft, privateDraft, kept>>
  <2>1. UNCHANGED <<design, undo, redo, transient, committed, solves, link, draft, privateDraft, kept, raced>>
    BY <1>2, <1>3 DEF design, solves
  <2>2. LoadingInv' /\ (Settled' => Settled)
    BY <1>2, <1>3, LoadingStays DEF Settled
  <2>3. page' = "lab" /\ loading' = None /\ ~raced' => shelf' = snapshots'
    BY <1>2 DEF LabInv, StorageInv
  <2> QED
    BY <1>1, <1>2, <1>3, <2>1, <2>2, <2>3, AsideKeeps
<1>4. CASE /\ Reopen(Candidate(intent.scenario), intent.architecture, "participant")
           /\ NoEvidence /\ link' = None /\ kept' = None
  <2>1. intent.scenario \in Scenarios /\ intent.architecture \in Architectures
    BY <1>1, <1>2 DEF Designs
  <2> DEFINE s == Candidate(intent.scenario)
  <2>2. s \in Proper /\ s.criteria # "hidden"
    BY <2>1, CandidateIsSafe
  <2> HIDE DEF s
  <2>3. /\ SolverTypes' /\ RequestInv' /\ SolverFits' /\ solver' = None /\ solving' = "idle"
        /\ DraftTypes' /\ HistoryInv'
        /\ scenario' = s /\ architecture' = intent.architecture /\ role' = "participant"
        /\ Persist(s, intent.architecture, "participant")
    BY <1>4, <2>1, <2>2, ReopenKeeps DEF s
  <2>4. DesignTypes'
    BY <1>1, <1>2, <1>4, <2>1, <2>2, <2>3 DEF DesignTypes, NoEvidence, Sessions
  <2>5. LoadingInv'
    BY <1>2 DEF LoadingInv
  <2>6. CriteriaStayPrivate'
    BY <1>4, <2>2, <2>3 DEF CriteriaStayPrivate, DraftTypes, NoEvidence
  <2>7. Fits'
    <3>1. kept' = link' /\ kept' \in Sessions /\ kept' # "host"
      BY <1>4, StoreAssumption DEF Sessions
    <3> QED
      BY <2>1, <2>2, <2>3, <3>1, SavedIsRestored
  <2>8. StorageInv'
    BY <1>2, <2>7 DEF StorageInv, LabInv
  <2> QED
    BY <2>3, <2>4, <2>5, <2>6, <2>8 DEF LabInv
<1> QED
  BY <1>3, <1>4 DEF ConsumeReplay

LEMMA LoadsAreSafe ==
  ASSUME NEW l \in Loads
  PROVE  /\ l[1] \in Proper /\ l[2] \in {"interviewer", "participant"} /\ l[3] \in Sessions
         /\ l[2] = "interviewer" => l[3] # "guest"
         /\ l[2] = "participant" => l[3] # "host" /\ l[1].criteria # "hidden"
<1>1. None # "host" /\ None # "guest"
  BY StoreAssumption
<1>2. /\ Guided \in Proper /\ Guided.criteria # "hidden"
      /\ \A c \in {"none", "hidden", "public"} : Interview(c) \in Proper /\ Interview(c).criteria = c
  BY DEF Guided, Interview, Proper, Scenarios
<1>3. CASE l = <<Guided, "participant", None>>
  BY <1>1, <1>2, <1>3 DEF Sessions
<1>4. CASE l = <<Interview("hidden"), "interviewer", None>>
  BY <1>1, <1>2, <1>4 DEF Sessions
<1>5. CASE l = <<Interview("hidden"), "interviewer", "host">>
  BY <1>1, <1>2, <1>5 DEF Sessions
<1>6. CASE l = <<Interview("none"), "participant", "guest">> \/ l = <<Interview("public"), "participant", "guest">>
  BY <1>1, <1>2, <1>6 DEF Sessions
<1> QED
  BY <1>3, <1>4, <1>5, <1>6 DEF Loads

LEMMA LoadKeeps ==
  ASSUME LabInv, NEW l \in Loads, NEW a \in Architectures, Load(l[1], a, l[2], l[3])
  PROVE  LabInv'
<1> DEFINE s == l[1]
           r == l[2]
           via == l[3]
<1>1. /\ s \in Proper /\ r \in {"interviewer", "participant"} /\ via \in Sessions
      /\ r = "interviewer" => via # "guest"
      /\ r = "participant" => via # "host" /\ s.criteria # "hidden"
  BY LoadsAreSafe
<1>2. /\ page = "away" /\ steps' = steps + 1
      /\ scenario' = s /\ architecture' = a /\ role' = r /\ link' = via /\ kept' = via
      /\ evidence' = None /\ transient' = None /\ NoSolver /\ Outrun
      /\ Persist(s, a, r) /\ committed' = committed \cup {a}
      /\ loading' = IF loading = None THEN None
                    ELSE [loading EXCEPT !.current = FALSE, !.touched = @ \/ loading.share = None]
      /\ UNCHANGED <<undo, redo, page, intent, snapshots, shelf, raced>>
  BY DEF Load, NoEvidence
<1> HIDE DEF s, r, via
<1>3. /\ SolverTypes' /\ RequestInv' /\ SolverFits' /\ \A q \in requests' : ~Lands(q)
  BY <1>2, ClearedSolver
<1>4. DraftTypes'
  BY <1>1, <1>2, DraftsAreSaved
<1>5. HistoryInv'
  <2>1. undo \in Seq(committed) /\ redo \in Seq(committed)
    BY DEF LabInv, HistoryInv
  <2>2. undo' \in Seq(committed') /\ redo' \in Seq(committed')
    BY <1>2, <2>1, SeqGrows
  <2>3. {a} \in SUBSET Architectures
    OBVIOUS
  <2> QED
    BY <1>2, <2>2, <2>3, HistoryGrows
<1>6. /\ loading' \in Loadings \cup {None}
      /\ loading' # None => /\ loading # None /\ ~loading'.current
                            /\ loading'.share = loading.share /\ loading'.snapshots = loading.snapshots
                            /\ ~loading'.touched => ~loading.touched /\ loading.share # None
  <2>1. loading \in Loadings \cup {None}
    BY DEF LabInv, DesignTypes
  <2>2. CASE loading = None
    BY <1>2, <2>2
  <2>3. CASE loading # None
    <3> DEFINE t == loading.touched \/ loading.share = None
    <3>1. loading \in Loadings /\ loading.touched \in BOOLEAN
      BY <2>1, <2>3 DEF Loadings
    <3>2. t \in BOOLEAN /\ (~t => ~loading.touched /\ loading.share # None)
      BY <3>1
    <3>3. loading' = [loading EXCEPT !.current = FALSE, !.touched = t]
      BY <1>2, <2>3
    <3> HIDE DEF t
    <3>4. /\ loading' \in Loadings /\ loading'.touched = t /\ loading'.current = FALSE
          /\ loading'.share = loading.share /\ loading'.snapshots = loading.snapshots
      BY <3>1, <3>2, <3>3 DEF Loadings
    <3> QED
      BY <2>3, <3>2, <3>4
  <2> QED
    BY <2>2, <2>3
<1>7. DesignTypes'
  BY <1>1, <1>2, <1>6 DEF LabInv, DesignTypes
<1>8. LoadingInv'
  <2>1. \A q \in requests' : ~Lands(q)'
    BY <1>3 DEF Lands
  <2>2. solver' = None /\ solving' = "idle"
    BY <1>2 DEF NoSolver
  <2> QED
    BY <1>2, <1>6, <2>1, <2>2 DEF LabInv, LoadingInv
<1>9. CriteriaStayPrivate'
  BY <1>1, <1>2, <1>4 DEF CriteriaStayPrivate, DraftTypes, NoSolver
<1>10. Fits'
  BY <1>1, <1>2, SavedIsRestored
<1>11. StorageInv'
  BY <1>2, <1>10 DEF StorageInv
<1> QED
  BY <1>3, <1>4, <1>5, <1>7, <1>8, <1>9, <1>11 DEF LabInv

LEMMA RefreshKeeps ==
  ASSUME LabInv, NEW revealed \in BOOLEAN, Refresh(revealed)
  PROVE  LabInv'
<1> DEFINE s == [Interview(IF revealed THEN "public" ELSE "none") EXCEPT !.goal = scenario.goal]
<1>1. s \in Proper /\ s.criteria # "hidden"
  <2>1. scenario.goal \in BOOLEAN
    BY DEF LabInv, DesignTypes, Proper, Scenarios
  <2>2. CASE revealed
    BY <2>1, <2>2 DEF Interview, Proper, Scenarios
  <2>3. CASE ~revealed
    BY <2>1, <2>3 DEF Interview, Proper, Scenarios
  <2> QED
    BY <2>2, <2>3
<1>2. /\ page = "lab" /\ link = "guest" /\ role = "participant"
      /\ scenario' = s /\ NoSolver
      /\ IF s # scenario THEN Outrun ELSE Replaced
      /\ Persist(s, architecture, role) /\ committed' = committed \cup {architecture}
      /\ kept' = link
      /\ UNCHANGED <<architecture, role, undo, redo, transient, evidence, link, page, loading, intent,
                     snapshots, shelf, steps, raced>>
  BY DEF Refresh
<1> HIDE DEF s
<1>3. architecture \in Architectures /\ link # "host" /\ link \in Sessions
  BY <1>2 DEF LabInv, DesignTypes
<1>4. \A q \in requests' : q \in Asked /\ ~Lands(q)'
  <2> SUFFICES ASSUME NEW q \in requests' PROVE q \in Asked /\ ~q.same
    BY DEF Lands
  <2>1. \/ requests' = {[r EXCEPT !.latest = FALSE, !.same = FALSE] : r \in requests}
        \/ requests' = {[r EXCEPT !.same = FALSE] : r \in requests}
    BY <1>2 DEF Outrun, Replaced
  <2>2. \E r \in requests : q = [r EXCEPT !.latest = FALSE, !.same = FALSE] \/ q = [r EXCEPT !.same = FALSE]
    BY <2>1
  <2>3. PICK r \in requests : q = [r EXCEPT !.latest = FALSE, !.same = FALSE] \/ q = [r EXCEPT !.same = FALSE]
    BY <2>2
  <2>4. r \in Asked
    BY DEF LabInv, SolverTypes
  <2> QED
    BY <2>3, <2>4 DEF Asked
<1>5. solver' = None /\ solving' = "idle"
  BY <1>2 DEF NoSolver
<1>6. SolverTypes' /\ RequestInv' /\ SolverFits'
  BY <1>4, <1>5 DEF SolverTypes, RequestInv, SolverFits
<1>7. DraftTypes'
  BY <1>1, <1>2, <1>3, DraftsAreSaved
<1>8. HistoryInv'
  <2>1. /\ undo \in Seq(committed) /\ redo \in Seq(committed) /\ transient \in committed \cup {None}
    BY DEF LabInv, HistoryInv
  <2>2. undo' \in Seq(committed') /\ redo' \in Seq(committed')
    BY <1>2, <2>1, SeqGrows
  <2>3. {architecture} \in SUBSET Architectures
    BY <1>3
  <2> QED
    BY <1>2, <2>1, <2>2, <2>3, HistoryGrows
<1>9. DesignTypes'
  BY <1>1, <1>2 DEF LabInv, DesignTypes
<1>10. loading # None => ~loading.current
  BY <1>2, StoreAssumption DEF LabInv, LoadingInv
<1>11. LoadingInv'
  BY <1>2, <1>4, <1>5, <1>10 DEF LabInv, LoadingInv
<1>12. CriteriaStayPrivate'
  BY <1>1, <1>2, <1>5, <1>7 DEF LabInv, CriteriaStayPrivate, DraftTypes
<1>13. Fits'
  BY <1>1, <1>2, <1>3, SavedIsRestored
<1>14. StorageInv'
  BY <1>2, <1>13 DEF LabInv, StorageInv
<1> QED
  BY <1>6, <1>7, <1>8, <1>9, <1>11, <1>12, <1>14 DEF LabInv

LEMMA MountKeeps ==
  ASSUME LabInv, NEW share \in {None} \cup Shares, Mount(share)
  PROVE  LabInv'
<1>1. /\ page = "away" /\ page' = "lab" /\ steps' = steps + 1
      /\ UNCHANGED <<architecture, undo, redo, intent, draft, snapshots, shelf>>
  BY DEF Mount
<1>2. /\ scenario \in Proper /\ architecture \in Architectures /\ steps \in Nat
      /\ evidence \in Drawn \cup {None} /\ intent \in Designs \cup {None}
      /\ loading \in Loadings \cup {None} /\ kept \in Sessions
      /\ snapshots \in SUBSET Architectures /\ shelf \in SUBSET Architectures
  BY DEF LabInv, DesignTypes
<1>3. CASE loading # None
  <2>1. UNCHANGED <<scenario, role, transient, solver, solving, requests, evidence, link,
                    loading, privateDraft, kept, raced, committed>>
    BY <1>3 DEF Mount
  <2>2. UNCHANGED <<design, undo, redo, transient, committed, solves, link, draft, privateDraft, kept, raced>>
    BY <1>1, <2>1 DEF design, solves
  <2>3. LoadingInv' /\ (Settled' => Settled)
    BY <1>1, <1>3, <2>1, LoadingStays DEF Settled
  <2> QED
    BY <1>1, <1>2, <1>3, <2>1, <2>2, <2>3, AsideKeeps
<1>4. CASE loading = None
  <2> DEFINE new == [share |-> share, session |-> kept, snapshots |-> shelf,
                     current |-> TRUE, touched |-> FALSE]
  <2>1. /\ committed' = committed \cup {architecture}
        /\ scenario' = Candidate(scenario) /\ role' = "participant"
        /\ transient' = None /\ evidence' = None /\ link' = None
        /\ NoSolver /\ Outrun /\ loading' = new
        /\ IF share = None THEN UNCHANGED <<privateDraft, kept>>
           ELSE privateDraft' = None /\ kept' = None
        /\ raced' = FALSE
    BY <1>4 DEF Mount, NoEvidence
  <2>2. new \in Loadings /\ new.share = share /\ new.session = kept /\ new.snapshots = shelf /\ new.current /\ ~new.touched
    BY <1>2 DEF Loadings, Sessions
  <2> HIDE DEF new
  <2>3. /\ SolverTypes' /\ RequestInv' /\ SolverFits' /\ \A q \in requests' : ~Lands(q)
    BY <2>1, ClearedSolver
  <2>4. Candidate(scenario) \in Proper /\ Candidate(scenario).criteria # "hidden"
    BY <1>2, CandidateIsSafe DEF Proper
  <2>5. DraftTypes'
    BY <1>1, <2>1 DEF LabInv, DraftTypes
  <2>6. HistoryInv'
    <3>1. undo \in Seq(committed) /\ redo \in Seq(committed)
      BY DEF LabInv, HistoryInv
    <3>2. undo' \in Seq(committed') /\ redo' \in Seq(committed')
      BY <1>1, <2>1, <3>1, SeqGrows
    <3>3. {architecture} \in SUBSET Architectures
      BY <1>2
    <3> QED
      BY <1>1, <2>1, <3>2, <3>3, HistoryGrows
  <2>7. DesignTypes'
    <3>1. kept' \in Sessions /\ link' \in Sessions
      BY <1>2, <2>1 DEF Sessions
    <3>2. loading' \in Loadings \cup {None} /\ steps' \in Nat
      BY <1>1, <1>2, <2>1, <2>2
    <3>3. scenario' \in Proper /\ architecture' \in Architectures /\ role' \in {"interviewer", "participant"}
      BY <1>1, <1>2, <2>1, <2>4
    <3> QED
      BY <1>1, <1>2, <2>1, <3>1, <3>2, <3>3 DEF DesignTypes
  <2>8. LoadingInv'
    <3>1. \A q \in requests' : ~Lands(q)'
      BY <2>3 DEF Lands
    <3>2. solver' = None /\ solving' = "idle"
      BY <2>1 DEF NoSolver
    <3> QED
      BY <1>1, <2>1, <2>2, <3>1, <3>2 DEF LoadingInv
  <2>9. ~Settled' /\ loading' # None
    BY <2>1, <2>2, StoreAssumption DEF Settled
  <2>10. CriteriaStayPrivate'
    BY <2>1, <2>4, <2>5 DEF CriteriaStayPrivate, DraftTypes, NoSolver
  <2> QED
    BY <2>3, <2>5, <2>6, <2>7, <2>8, <2>9, <2>10 DEF LabInv, StorageInv
<1> QED
  BY <1>3, <1>4

LEMMA ReloadKeeps ==
  ASSUME LabInv, Reload
  PROVE  LabInv'
<1>1. /\ steps' = steps + 1
      /\ scenario' = Guided /\ architecture' = DefaultArchitecture /\ role' = "participant"
      /\ undo' = <<>> /\ redo' = <<>> /\ transient' = None /\ committed' = {DefaultArchitecture}
      /\ solver' = None /\ solving' = "idle" /\ requests' = {}
      /\ evidence' = None /\ link' = None /\ page' = "away" /\ loading' = None /\ intent' = None
      /\ raced' = FALSE /\ snapshots' = {}
      /\ UNCHANGED <<draft, privateDraft, kept, shelf>>
  BY DEF Reload, NoSolver
<1>2. Guided \in Proper /\ Guided.criteria # "hidden"
  BY DEF Guided, Proper, Scenarios
<1>3. DesignTypes'
  <2>1. /\ kept \in Sessions /\ shelf \in SUBSET Architectures /\ steps \in Nat
    BY DEF LabInv, DesignTypes
  <2>2. None \in Sessions /\ DefaultArchitecture \in Architectures
    BY StoreAssumption DEF Sessions
  <2>3. /\ scenario' \in Proper /\ architecture' \in Architectures
        /\ role' \in {"interviewer", "participant"} /\ steps' \in Nat
    BY <1>1, <1>2, <2>1, <2>2
  <2>4. /\ evidence' \in Drawn \cup {None} /\ intent' \in Designs \cup {None}
        /\ page' \in {"lab", "away"} /\ link' \in Sessions /\ kept' \in Sessions
        /\ loading' \in Loadings \cup {None}
    BY <1>1, <2>1, <2>2
  <2>5. snapshots' \in SUBSET Architectures /\ shelf' \in SUBSET Architectures /\ raced' \in BOOLEAN
    BY <1>1, <2>1
  <2> QED
    BY <2>3, <2>4, <2>5 DEF DesignTypes
<1>4. SolverTypes' /\ RequestInv' /\ SolverFits'
  BY <1>1 DEF SolverTypes, RequestInv, SolverFits
<1>5. DraftTypes'
  BY <1>1 DEF LabInv, DraftTypes
<1>6. HistoryInv'
  BY <1>1, StoreAssumption DEF HistoryInv
<1>7. LoadingInv' /\ StorageInv'
  BY <1>1 DEF LoadingInv, StorageInv, Settled
<1>8. CriteriaStayPrivate'
  BY <1>1, <1>2, <1>5 DEF CriteriaStayPrivate, DraftTypes
<1> QED
  BY <1>3, <1>4, <1>5, <1>6, <1>7, <1>8 DEF LabInv

LEMMA LabStarts == LabInit => LabInv
<1> SUFFICES ASSUME LabInit PROVE LabInv
  OBVIOUS
<1> USE DEF LabInit
<1>1. Guided \in Proper /\ Guided.criteria # "hidden"
  BY DEF Guided, Proper, Scenarios
<1>2. DesignTypes
  BY <1>1, StoreAssumption DEF DesignTypes, Sessions
<1>3. SolverTypes /\ RequestInv /\ SolverFits
  BY DEF SolverTypes, RequestInv, SolverFits
<1>4. DraftTypes
  BY DEF DraftTypes
<1>5. HistoryInv
  BY StoreAssumption DEF HistoryInv
<1>6. LoadingInv /\ StorageInv
  BY DEF LoadingInv, StorageInv, Settled
<1>7. CriteriaStayPrivate
  BY <1>1 DEF CriteriaStayPrivate
<1> QED
  BY <1>2, <1>3, <1>4, <1>5, <1>6, <1>7 DEF LabInv

-----------------------------------------------------------------------------
(* The end of hydrate.                                                     *)

\* What a plain hydrate restores could have been persisted with that session.
LEMMA RestoredIsSafe ==
  ASSUME LabInv, NEW via \in Sessions
  PROVE  LET next == Restored(via) IN
         /\ next.scenario \in Proper /\ next.architecture \in Architectures
         /\ next.role \in {"interviewer", "participant"}
         /\ next.role = "interviewer" => via # "guest"
         /\ next.role = "participant" => next.scenario.criteria # "hidden"
         /\ next.role = "participant" /\ draft # None => via # "host"
<1>1. /\ draft \in Drawn \cup {None} /\ privateDraft \in Drawn \cup {None}
      /\ draft # None => draft.scenario.criteria # "hidden"
  BY DEF LabInv, DraftTypes
<1>2. CASE privateDraft # None /\ via # "guest"
  <2>1. Restored(via) = [scenario |-> privateDraft.scenario, architecture |-> privateDraft.architecture,
                             role |-> "interviewer"]
    BY <1>2 DEF Restored
  <2> QED
    BY <1>1, <1>2, <2>1 DEF Drawn
<1>3. CASE ~(privateDraft # None /\ via # "guest") /\ draft # None
  <2> DEFINE s == IF via = "host" THEN draft.scenario ELSE Candidate(draft.scenario)
             r == IF via = "host" THEN "interviewer" ELSE "participant"
  <2>1. Restored(via) = [scenario |-> s, architecture |-> draft.architecture, role |-> r]
    BY <1>3 DEF Restored
  <2>2. draft.scenario \in Scenarios /\ draft.scenario \in Proper /\ draft.architecture \in Architectures
    BY <1>1, <1>3 DEF Drawn, Proper
  <2>3. s \in Proper /\ s.criteria # "hidden"
    BY <1>1, <1>3, <2>2, CandidateIsSafe
  <2>4. r \in {"interviewer", "participant"} /\ (r = "interviewer" => via # "guest") /\ (r = "participant" => via # "host")
    OBVIOUS
  <2> HIDE DEF s, r
  <2> QED
    BY <2>1, <2>2, <2>3, <2>4
<1>4. CASE ~(privateDraft # None /\ via # "guest") /\ draft = None
  <2>1. Restored(via) = [scenario |-> Guided, architecture |-> DefaultArchitecture, role |-> "participant"]
    BY <1>4 DEF Restored
  <2>2. Guided \in Proper /\ Guided.criteria # "hidden"
    BY DEF Guided, Proper, Scenarios
  <2> QED
    BY <1>4, <2>1, <2>2, StoreAssumption
<1> QED
  BY <1>2, <1>3, <1>4

LEMMA OpenedIsSafe ==
  ASSUME LabInv, NEW share \in Shares
  PROVE  LET next == Opened(share) IN
         /\ next.scenario \in Proper /\ next.architecture \in Architectures
         /\ next.role \in {"interviewer", "participant"}
         /\ next.role = "participant" => next.scenario.criteria # "hidden"
<1>1. scenario \in Scenarios /\ architecture \in Architectures
  BY DEF LabInv, DesignTypes, Proper
<1>2. Candidate(scenario) \in Proper /\ Candidate(scenario).criteria # "hidden"
  BY <1>1, CandidateIsSafe
<1>3. Interview("hidden") \in Proper /\ Interview("hidden") \in Scenarios
  BY DEF Interview, Proper, Scenarios
<1>4. Candidate(Interview("hidden")) \in Proper /\ Candidate(Interview("hidden")).criteria # "hidden"
  BY <1>3, CandidateIsSafe
<1>5. CASE share = [scenario |-> Interview("hidden"), role |-> "interviewer"]
  <2>1. Opened(share) = [scenario |-> Interview("hidden"), architecture |-> DefaultArchitecture, role |-> "interviewer"]
    BY <1>5 DEF Opened
  <2> QED
    BY <1>3, <2>1, StoreAssumption
<1>6. CASE share = [scenario |-> Interview("hidden"), role |-> "participant"]
  <2>1. Opened(share) = [scenario |-> Candidate(Interview("hidden")), architecture |-> DefaultArchitecture, role |-> "participant"]
    BY <1>6 DEF Opened
  <2> QED
    BY <1>4, <2>1, StoreAssumption
<1>7. CASE share = [scenario |-> Guided, role |-> "invalid"]
  <2>1. Opened(share) = [scenario |-> Candidate(scenario), architecture |-> architecture, role |-> "participant"]
    BY <1>7 DEF Opened
  <2> QED
    BY <1>1, <1>2, <2>1
<1> QED
  BY <1>5, <1>6, <1>7 DEF Shares

\* hydrate puts a design in place whose requests have lost their objects.
LEMMA ReplacedSolver ==
  ASSUME LabInv, Replaced, UNCHANGED <<solver, solving>>
  PROVE  SolverTypes' /\ RequestInv' /\ \A q \in requests' : ~Lands(q)'
<1>1. requests' = {[r EXCEPT !.same = FALSE] : r \in requests}
  BY DEF Replaced
<1>2. ASSUME NEW q \in requests'
      PROVE q \in Asked /\ ~q.same
  <2>1. PICK r \in requests : q = [r EXCEPT !.same = FALSE]
    BY <1>1
  <2>2. r \in Asked
    BY DEF LabInv, SolverTypes
  <2> QED
    BY <2>1, <2>2 DEF Asked
<1>3. \A q \in requests' : ~Lands(q)'
  BY <1>2 DEF Lands
<1> QED
  BY <1>2, <1>3 DEF LabInv, SolverTypes, RequestInv

\* A newer load came before the link was decoded: nothing is put in place.
LEMMA OvertakenKeeps ==
  ASSUME LabInv, HydrateEnds, loading.share # None, ~loading.current
  PROVE  LabInv'
<1>1. /\ loading # None /\ loading' = None /\ snapshots' = loading.snapshots /\ raced' = loading.touched
      /\ UNCHANGED <<scenario, architecture, role, committed, requests, link, draft, privateDraft, kept>>
      /\ UNCHANGED <<undo, redo, transient, solver, solving, evidence, page, intent, shelf, steps>>
  BY DEF HydrateEnds
<1>2. /\ ~raced
      /\ ~loading.touched => loading.snapshots = shelf /\ solver = None /\ solving = "idle"
  BY <1>1 DEF LabInv, LoadingInv
<1>3. loading \in Loadings
  BY <1>1 DEF LabInv, DesignTypes
<1>4. loading.snapshots \in SUBSET Architectures /\ loading.touched \in BOOLEAN
  BY <1>3 DEF Loadings
<1>5. DesignTypes'
  BY <1>1, <1>4 DEF LabInv, DesignTypes
<1>6. SolverTypes' /\ DraftTypes' /\ HistoryInv' /\ RequestInv'
  BY <1>1 DEF LabInv, SolverTypes, DraftTypes, HistoryInv, RequestInv, Lands
<1>7. LoadingInv'
  BY <1>1 DEF LoadingInv
<1>8. SolverFits' /\ CriteriaStayPrivate'
  BY <1>1, <1>2 DEF LabInv, SolverFits, CriteriaStayPrivate
<1>9. Fits
  BY <1>1, <1>2 DEF LabInv, StorageInv, Settled
<1>10. Fits'
  BY <1>1, <1>9 DEF Fits, Restored
<1>11. StorageInv'
  BY <1>1, <1>2, <1>10 DEF StorageInv
<1> QED
  BY <1>5, <1>6, <1>7, <1>8, <1>11 DEF LabInv

LEMMA HydrateKeeps ==
  ASSUME LabInv, HydrateEnds
  PROVE  LabInv'
<1> DEFINE plain == loading.share = None
           next == IF plain THEN Restored(loading.session) ELSE Opened(loading.share)
           nothing == plain /\ draft = None /\ (privateDraft = None \/ loading.session = "guest")
           s == next.scenario
           a == next.architecture
           r == next.role
<1>1. SUFFICES ASSUME plain \/ loading.current PROVE LabInv'
  BY OvertakenKeeps
<1>2. /\ loading # None /\ loading' = None /\ snapshots' = loading.snapshots /\ raced' = loading.touched
      /\ scenario' = s /\ architecture' = a /\ role' = r /\ Replaced
      /\ link' = IF plain /\ ~nothing THEN loading.session ELSE None
      /\ IF nothing THEN draft' = None /\ privateDraft' = None /\ kept' = None
         ELSE Persist(s, a, r) /\ UNCHANGED kept
      /\ committed' = committed \cup {a}
      /\ UNCHANGED <<undo, redo, transient, solver, solving, evidence, page, intent, shelf, steps>>
  BY <1>1 DEF HydrateEnds
<1>3. loading \in Loadings
  BY <1>2 DEF LabInv, DesignTypes
<1>4. /\ loading.snapshots \in SUBSET Architectures /\ loading.touched \in BOOLEAN
      /\ loading.session \in Sessions /\ loading.share \in {None} \cup Shares
  BY <1>3 DEF Loadings, Sessions
<1>5. s \in Proper /\ a \in Architectures /\ r \in {"interviewer", "participant"}
  BY <1>4, RestoredIsSafe, OpenedIsSafe
<1>6. /\ r = "participant" => s.criteria # "hidden"
      /\ plain => /\ r = "interviewer" => loading.session # "guest"
                  /\ r = "participant" /\ draft # None => loading.session # "host"
  BY <1>4, RestoredIsSafe, OpenedIsSafe
<1>7. nothing => /\ s = Guided /\ a = DefaultArchitecture /\ r = "participant"
  BY DEF Restored
<1>8. ~nothing /\ plain /\ draft = None => r = "interviewer"
  BY DEF Restored
<1>9. /\ ~raced
      /\ ~loading.touched => /\ loading.snapshots = shelf /\ solver = None /\ solving = "idle"
                             /\ plain => kept = loading.session
                             /\ role = "participant"
      /\ ~plain => kept = None
  BY <1>1, <1>2 DEF LabInv, LoadingInv
<1> HIDE DEF next, s, a, r, nothing
<1>10. SolverTypes' /\ RequestInv' /\ \A q \in requests' : ~Lands(q)'
  BY <1>2, ReplacedSolver
<1>11. kept' \in Sessions /\ link' \in Sessions
  BY <1>2, <1>4 DEF LabInv, DesignTypes, Sessions
<1>12. DesignTypes'
  BY <1>2, <1>4, <1>5, <1>11 DEF LabInv, DesignTypes
<1>13. DraftTypes'
  <2>1. CASE nothing
    BY <1>2, <2>1 DEF DraftTypes
  <2>2. CASE ~nothing
    BY <1>2, <1>5, <2>2, DraftsAreSaved
  <2> QED
    BY <2>1, <2>2
<1>14. HistoryInv'
  <2>1. undo \in Seq(committed) /\ redo \in Seq(committed) /\ transient \in committed \cup {None}
    BY DEF LabInv, HistoryInv
  <2>2. undo' \in Seq(committed') /\ redo' \in Seq(committed')
    BY <1>2, <2>1, SeqGrows
  <2>3. {a} \in SUBSET Architectures
    BY <1>5
  <2> QED
    BY <1>2, <2>1, <2>2, <2>3, HistoryGrows
<1>15. LoadingInv'
  BY <1>2 DEF LoadingInv
<1>16. SolverFits'
  BY <1>2, <1>9 DEF SolverFits
<1>17. CriteriaStayPrivate'
  <2>1. draft' # None => draft'.scenario.criteria # "hidden"
    BY <1>13 DEF DraftTypes
  <2>2. ~raced' /\ evidence' # None => evidence'.scenario.criteria # "hidden"
    BY <1>2, <1>9 DEF LabInv, CriteriaStayPrivate
  <2> QED
    BY <1>2, <1>6, <1>9, <2>1, <2>2 DEF CriteriaStayPrivate
<1>18. ~raced' => Fits'
  <2> SUFFICES ASSUME ~loading.touched PROVE Fits'
    BY <1>2
  <2>1. CASE nothing
    <3>1. Restored(kept)' = [scenario |-> Guided, architecture |-> DefaultArchitecture, role |-> "participant"]
      BY <1>2, <2>1 DEF Restored
    <3>2. kept' = None /\ link' = None
      BY <1>2, <2>1
    <3> QED
      BY <1>2, <1>7, <2>1, <3>1, <3>2, StoreAssumption DEF Fits, Guided
  <2>2. CASE ~nothing
    <3>1. kept' = link'
      BY <1>2, <1>9, <2>2
    <3>2. r = "interviewer" => kept' # "guest"
      BY <1>2, <1>6, <1>9, <2>2, StoreAssumption
    <3>3. r = "participant" => kept' # "host" /\ s.criteria # "hidden"
      BY <1>2, <1>6, <1>8, <1>9, <2>2, StoreAssumption
    <3>4. Persist(s, a, r)
      BY <1>2, <2>2
    <3> QED
      BY <1>2, <1>5, <1>11, <3>1, <3>2, <3>3, <3>4, SavedIsRestored
  <2> QED
    BY <2>1, <2>2
<1>19. StorageInv'
  BY <1>2, <1>9, <1>18 DEF StorageInv
<1> QED
  BY <1>10, <1>12, <1>13, <1>14, <1>15, <1>16, <1>17, <1>19 DEF LabInv

-----------------------------------------------------------------------------

LEMMA LabStep == LabInv /\ [LabNext]_labVars => LabInv'
<1> SUFFICES ASSUME LabInv, [LabNext]_labVars PROVE LabInv'
  OBVIOUS
<1>1. CASE UNCHANGED labVars
  <2>1. /\ UNCHANGED <<scenario, architecture, role, undo, redo, transient, committed, solver, solving>>
        /\ UNCHANGED <<requests, evidence, link, page, loading, intent, draft, privateDraft, kept, shelf>>
        /\ UNCHANGED <<snapshots, steps, raced>>
    BY <1>1 DEF labVars, design, history, solves, storage
  <2> QED
    BY <2>1 DEF LabInv, DesignTypes, SolverTypes, DraftTypes, HistoryInv, LoadingInv, StorageInv,
      Fits, Restored, Settled, RequestInv, Lands, SolverFits, CriteriaStayPrivate
<1>2. architecture \in Architectures /\ snapshots \in SUBSET Architectures
  BY DEF LabInv, DesignTypes
<1>3. snapshots \cup {architecture} \in SUBSET Architectures /\ \A b \in snapshots : snapshots \ {b} \in SUBSET Architectures
  BY <1>2
<1>4. CASE \E b \in Architectures : EditArchitecture(b) \/ Drag(b) \/ QueueReplay(Guided, b)
                                    \/ \E l \in Loads : Load(l[1], b, l[2], l[3])
  BY <1>4, EditArchitectureKeeps, DragKeeps, AsideStepsKeep, LoadKeeps
<1>5. CASE SaveSnapshots(snapshots \cup {architecture}) \/ \E b \in snapshots : SaveSnapshots(snapshots \ {b})
  BY <1>3, <1>5, SnapshotsKeep
<1>6. CASE Commit \/ CancelDrag \/ Undo \/ Redo
  BY <1>6, CommitKeeps, UndoneKeeps
<1>7. CASE \E s \in Changes : ChangeScenario(s)
  BY <1>7, ChangeScenarioKeeps
<1>8. CASE Solve \/ \E r \in requests, succeeds \in BOOLEAN : Solved(r, succeeds)
  BY <1>8, SolveKeeps, SolvedKeeps
<1>9. CASE CompleteRun \/ Replay \/ Fork \/ ConsumeReplay
  BY <1>9, AsideStepsKeep, ReplayKeeps, ConsumeKeeps
<1>10. CASE \E revealed \in BOOLEAN : Refresh(revealed)
  BY <1>10, RefreshKeeps
<1>11. CASE \E share \in {None} \cup Shares : Mount(share)
  BY <1>11, MountKeeps
<1>12. CASE HydrateEnds \/ Leave \/ Reload
  BY <1>12, HydrateKeeps, AsideStepsKeep, ReloadKeeps
<1> QED
  BY <1>1, <1>4, <1>5, <1>6, <1>7, <1>8, <1>9, <1>10, <1>11, <1>12 DEF LabNext

LEMMA LabInvHolds == LabSpec => []LabInv
BY LabStarts, LabStep, PTL DEF LabSpec

\* hydrate, edits, drags, undo, solves, replays, forks, loads and reloads interleave:
\* a comparison on screen is of the design on screen, a solve shown as running will
\* be answered, and nothing of the private criteria stays in a candidate's tab.
THEOREM ComputedIsOfDesign == LabSpec => []ComputedFits
<1>1. LabInv => ComputedFits
  BY DEF LabInv, ComputedFits
<1> QED
  BY <1>1, LabInvHolds, PTL

\* Whenever the tab is reloaded, hydrate brings back what is on screen, and the
\* history of changes has no step of a drag in it.
THEOREM DesignStays == LabSpec => []DesignIsKept
<1>1. LabInv => ReloadRestores
  BY DEF LabInv, StorageInv, ReloadRestores, Quiet, Settled, Fits
<1>2. ASSUME LabInv PROVE HistoryIsCommitted
  <2>1. /\ undo \in Seq(committed) /\ redo \in Seq(committed)
        /\ transient \in committed \cup {None}
    BY <1>2 DEF LabInv, HistoryInv
  <2>2. Range(undo) \subseteq committed /\ Range(redo) \subseteq committed
    BY <2>1 DEF Range
  <2> QED
    BY <2>1, <2>2 DEF HistoryIsCommitted
<1>3. LabInv => DesignIsKept
  BY <1>1, <1>2 DEF DesignIsKept
<1> QED
  BY <1>3, LabInvHolds, PTL

-----------------------------------------------------------------------------
(* ArchitectureEditing.  Sequences of things with identifiers.             *)

IdsIn(s) == {s[k].id : k \in DOMAIN s}
Apart(s) == \A j, k \in DOMAIN s : s[j].id = s[k].id => j = k

\* A canvas in terms of the two.
LEMMA IdsOfCanvas ==
  ASSUME NEW d PROVE NodeIds(d) = IdsIn(d.nodes) /\ EdgeIds(d) = IdsIn(d.edges)
BY DEF NodeIds, EdgeIds, IdsIn, Range

\* A function on the first numbers is a sequence.
LEMMA ListOf ==
  ASSUME NEW S, NEW N \in Nat, NEW f \in [1..N -> S]
  PROVE  f \in Seq(S) /\ Len(f) = N
OBVIOUS

\* What a filter keeps.
LEMMA KeepApart ==
  ASSUME NEW S, NEW s \in Seq(S), NEW places \in SUBSET (1..Len(s))
  PROVE  /\ Keep(s, places) \in Seq(S)
         /\ Range(Keep(s, places)) = {s[k] : k \in places}
         /\ IdsIn(Keep(s, places)) = {s[k].id : k \in places}
         /\ Apart(s) => Apart(Keep(s, places))
<1> DEFINE N == Cardinality(places)
           ours == Keep(s, places)
<1>0. ours \in Seq(S) /\ Len(ours) = N /\ N \in Nat
  BY KeepKeeps
<1>1. \E at \in [1..N -> places] :
        /\ \A n \in 1..N : ours[n] = s[at[n]]
        /\ \A m, n \in 1..N : m < n => at[m] < at[n]
        /\ \A k \in places : \E n \in 1..N : at[n] = k
  <2>1. /\ Keep(s, places) \in Seq(S) /\ Len(Keep(s, places)) = N /\ IsFiniteSet(places) /\ N \in Nat
        /\ \E at \in [1..N -> places] :
             /\ \A n \in 1..N : Keep(s, places)[n] = s[at[n]]
             /\ \A m, n \in 1..N : m < n => at[m] < at[n]
             /\ \A k \in places : \E n \in 1..N : at[n] = k
    BY KeepKeeps
  <2>2. QED
    BY <2>1
<1> HIDE DEF N, ours
<1>2. PICK at \in [1..N -> places] :
        /\ \A n \in 1..N : ours[n] = s[at[n]]
        /\ \A m, n \in 1..N : m < n => at[m] < at[n]
        /\ \A k \in places : \E n \in 1..N : at[n] = k
  BY <1>0, <1>1
<1>3. DOMAIN ours = 1..N /\ DOMAIN s = 1..Len(s) /\ places \subseteq DOMAIN s /\ places \subseteq Nat
  BY <1>0, <1>1
<1>4. Range(ours) = {s[k] : k \in places}
  <2>1. Range(ours) \subseteq {s[k] : k \in places}
    BY <1>2, <1>3 DEF Range
  <2>2. \A k \in places : s[k] \in Range(ours)
    BY <1>2, <1>3 DEF Range
  <2> QED
    BY <2>1, <2>2
<1>5. IdsIn(ours) = {s[k].id : k \in places}
  <2>1. IdsIn(ours) \subseteq {s[k].id : k \in places}
    BY <1>2, <1>3 DEF IdsIn
  <2>2. \A k \in places : s[k].id \in IdsIn(ours)
    BY <1>2, <1>3 DEF IdsIn
  <2> QED
    BY <2>1, <2>2
<1>6. ASSUME Apart(s) PROVE Apart(ours)
  <2>1. SUFFICES ASSUME NEW m \in 1..N, NEW n \in 1..N, ours[m].id = ours[n].id PROVE m = n
    BY <1>3 DEF Apart
  <2>2. at[m] \in places /\ at[n] \in places /\ s[at[m]].id = s[at[n]].id
    BY <1>2, <2>1
  <2>3. at[m] = at[n]
    BY <1>3, <1>6, <2>2 DEF Apart
  <2>4. ~(at[m] < at[n]) /\ ~(at[n] < at[m])
    BY <1>3, <2>2, <2>3
  <2>5. ~(m < n) /\ ~(n < m)
    BY <1>2, <2>4
  <2> QED
    BY <1>0, <1>1, <2>5
<1> QED
  BY <1>0, <1>1, <1>4, <1>5, <1>6 DEF ours

\* One more, with an identifier of its own.
LEMMA AppendApart ==
  ASSUME NEW S, NEW s \in Seq(S), NEW x \in S
  PROVE  /\ Append(s, x) \in Seq(S)
         /\ Range(Append(s, x)) = Range(s) \cup {x}
         /\ IdsIn(Append(s, x)) = IdsIn(s) \cup {x.id}
         /\ Apart(s) /\ x.id \notin IdsIn(s) => Apart(Append(s, x))
<1> DEFINE N == Len(s)
<1>1. N \in Nat /\ DOMAIN s = 1..N
  OBVIOUS
<1>2. Append(s, x) \in Seq(S) /\ Len(Append(s, x)) = N + 1
  OBVIOUS
<1>3. PICK t \in Seq(S) : t = Append(s, x)
  BY <1>2
<1>4. Len(t) = N + 1 /\ DOMAIN t = 1..(N + 1)
  BY <1>2, <1>3
<1>5. \A k \in 1..N : t[k] = s[k]
  BY <1>1, <1>3
<1>6. t[N + 1] = x
  BY <1>1, <1>3
<1> HIDE DEF N
<1>7. 1..(N + 1) = 1..N \cup {N + 1}
  BY <1>1
<1>8. Range(t) = Range(s) \cup {x}
  <2>1. Range(t) \subseteq Range(s) \cup {x}
    BY <1>1, <1>4, <1>5, <1>6, <1>7 DEF Range
  <2>2. Range(s) \cup {x} \subseteq Range(t)
    BY <1>1, <1>4, <1>5, <1>6, <1>7 DEF Range
  <2> QED
    BY <2>1, <2>2
<1>9. IdsIn(t) = IdsIn(s) \cup {x.id}
  <2>1. IdsIn(t) \subseteq IdsIn(s) \cup {x.id}
    BY <1>1, <1>4, <1>5, <1>6, <1>7 DEF IdsIn
  <2>2. IdsIn(s) \cup {x.id} \subseteq IdsIn(t)
    BY <1>1, <1>4, <1>5, <1>6, <1>7 DEF IdsIn
  <2> QED
    BY <2>1, <2>2
<1>10. ASSUME Apart(s), x.id \notin IdsIn(s) PROVE Apart(t)
  <2>1. \A k \in 1..N : t[k].id # t[N + 1].id
    BY <1>1, <1>5, <1>6, <1>10 DEF IdsIn
  <2>2. \A j, k \in 1..N : t[j].id = t[k].id => j = k
    BY <1>1, <1>5, <1>10 DEF Apart
  <2> QED
    BY <1>4, <1>7, <2>1, <2>2 DEF Apart
<1> QED
  BY <1>3, <1>8, <1>9, <1>10

\* Two sequences one after the other.
LEMMA ConcatApart ==
  ASSUME NEW S, NEW s \in Seq(S), NEW t \in Seq(S)
  PROVE  /\ s \o t \in Seq(S) /\ Len(s \o t) = Len(s) + Len(t)
         /\ \A k \in 1..Len(s) : (s \o t)[k] = s[k]
         /\ \A k \in 1..Len(t) : (s \o t)[Len(s) + k] = t[k]
         /\ Range(s \o t) = Range(s) \cup Range(t)
         /\ IdsIn(s \o t) = IdsIn(s) \cup IdsIn(t)
         /\ Apart(s) /\ Apart(t) /\ IdsIn(s) \cap IdsIn(t) = {} => Apart(s \o t)
<1> DEFINE M == Len(s)
           N == Len(t)
<1>1. M \in Nat /\ DOMAIN s = 1..M /\ N \in Nat /\ DOMAIN t = 1..N
  OBVIOUS
<1>2. s \o t \in Seq(S) /\ Len(s \o t) = M + N
  OBVIOUS
<1>3. PICK u \in Seq(S) : u = s \o t
  BY <1>2
<1>4. Len(u) = M + N /\ DOMAIN u = 1..(M + N)
  BY <1>2, <1>3
<1>5. \A k \in 1..M : u[k] = s[k]
  BY <1>1, <1>3
<1>6. \A k \in 1..N : u[M + k] = t[k]
  BY <1>1, <1>3
<1> HIDE DEF M, N
<1>7. /\ \A k \in 1..(M + N) : k \in 1..M \/ (k - M \in 1..N /\ k = M + (k - M))
      /\ \A k \in 1..M : k \in 1..(M + N)
      /\ \A k \in 1..N : M + k \in 1..(M + N)
  BY <1>1
<1>8. Range(u) = Range(s) \cup Range(t)
  <2>1. \A k \in 1..(M + N) : u[k] \in Range(s) \cup Range(t)
    <3>1. ASSUME NEW k \in 1..(M + N) PROVE u[k] \in Range(s) \cup Range(t)
      <4>1. CASE k \in 1..M
        BY <1>1, <1>5, <4>1 DEF Range
      <4>2. CASE k - M \in 1..N /\ k = M + (k - M)
        <5>1. u[k] = t[k - M]
          BY <1>6, <4>2
        <5> QED
          BY <1>1, <4>2, <5>1 DEF Range
      <4> QED
        BY <1>7, <4>1, <4>2
    <3> QED
      BY <3>1
  <2>2. Range(s) \subseteq Range(u)
    BY <1>1, <1>4, <1>5, <1>7 DEF Range
  <2>3. Range(t) \subseteq Range(u)
    <3> SUFFICES ASSUME NEW x \in Range(t) PROVE x \in Range(u)
      OBVIOUS
    <3>1. PICK k \in 1..N : x = t[k]
      BY <1>1 DEF Range
    <3>2. M + k \in DOMAIN u /\ u[M + k] = x
      BY <1>4, <1>6, <1>7, <3>1
    <3> QED
      BY <3>2 DEF Range
  <2>4. Range(u) \subseteq Range(s) \cup Range(t)
    <3> SUFFICES ASSUME NEW x \in Range(u) PROVE x \in Range(s) \cup Range(t)
      OBVIOUS
    <3>1. PICK k \in DOMAIN u : x = u[k]
      BY DEF Range
    <3> QED
      BY <1>4, <2>1, <3>1
  <2> QED
    BY <2>2, <2>3, <2>4
<1>9. IdsIn(u) = IdsIn(s) \cup IdsIn(t)
  <2>1. \A v : IdsIn(v) = {x.id : x \in Range(v)}
    BY DEF IdsIn, Range
  <2> QED
    BY <1>8, <2>1
<1>10. ASSUME Apart(s), Apart(t), IdsIn(s) \cap IdsIn(t) = {} PROVE Apart(u)
  <2>1. ASSUME NEW j \in 1..(M + N), NEW k \in 1..(M + N), u[j].id = u[k].id PROVE j = k
    <3>1. CASE j \in 1..M /\ k \in 1..M
      <4>1. s[j].id = s[k].id
        BY <1>5, <2>1, <3>1
      <4> QED
        BY <1>1, <1>10, <3>1, <4>1 DEF Apart
    <3>2. CASE (j - M \in 1..N /\ j = M + (j - M)) /\ (k - M \in 1..N /\ k = M + (k - M))
      <4>1. t[j - M].id = t[k - M].id
        BY <1>6, <2>1, <3>2
      <4>2. j - M = k - M
        BY <1>1, <1>10, <3>2, <4>1 DEF Apart
      <4> QED
        BY <1>1, <3>2, <4>2
    <3>3. ASSUME NEW a \in 1..M, NEW b \in 1..N, u[a].id = u[M + b].id PROVE FALSE
      <4>1. s[a].id = t[b].id
        BY <1>5, <1>6, <3>3
      <4>2. s[a].id \in IdsIn(s) /\ t[b].id \in IdsIn(t)
        BY <1>1 DEF IdsIn
      <4> QED
        BY <1>10, <4>1, <4>2
    <3>4. CASE j \in 1..M /\ (k - M \in 1..N /\ k = M + (k - M))
      BY <2>1, <3>3, <3>4
    <3>5. CASE k \in 1..M /\ (j - M \in 1..N /\ j = M + (j - M))
      BY <2>1, <3>3, <3>5
    <3> QED
      BY <1>7, <3>1, <3>2, <3>4, <3>5
  <2> QED
    BY <1>4, <2>1 DEF Apart
<1> QED
  BY <1>2, <1>3, <1>5, <1>6, <1>8, <1>9, <1>10 DEF M, N

\* As many identifiers as elements: no two share one.
LEMMA ApartCounts ==
  ASSUME NEW S, NEW s \in Seq(S)
  PROVE  /\ (Cardinality(IdsIn(s)) = Len(s)) <=> Apart(s)
         /\ IsFiniteSet(IdsIn(s)) /\ Cardinality(IdsIn(s)) <= Len(s)
<1> DEFINE N == Len(s)
           f == [k \in 1..N |-> s[k].id]
<1>1. N \in Nat /\ DOMAIN s = 1..N
  OBVIOUS
<1>2. IsFiniteSet(1..N) /\ Cardinality(1..N) = N
  <2>1. IsFiniteSet(1..N) /\ Cardinality(1..N) = IF 1 > N THEN 0 ELSE N - 1 + 1
    BY <1>1, FS_Interval
  <2> QED
    BY <1>1, <2>1
<1>3. f \in Surjection(1..N, IdsIn(s))
  <2>1. f \in [1..N -> IdsIn(s)]
    BY <1>1 DEF IdsIn
  <2>2. \A x \in IdsIn(s) : \E k \in 1..N : f[k] = x
    BY <1>1 DEF IdsIn
  <2> HIDE DEF f
  <2> QED
    BY <2>1, <2>2 DEF Surjection
<1>4. IsFiniteSet(IdsIn(s)) /\ Cardinality(IdsIn(s)) <= N
        /\ (Cardinality(IdsIn(s)) = N <=> f \in Injection(1..N, IdsIn(s)))
  <2> HIDE DEF f, N
  <2> QED
    BY <1>2, <1>3, FS_Surjection
<1>5. f \in Injection(1..N, IdsIn(s)) <=> Apart(s)
  <2>1. f \in [1..N -> IdsIn(s)]
    BY <1>1 DEF IdsIn
  <2>2. (\A j, k \in 1..N : f[j] = f[k] => j = k) <=> Apart(s)
    BY <1>1 DEF Apart
  <2>3. f \in Injection(1..N, IdsIn(s)) <=> (\A j, k \in 1..N : f[j] = f[k] => j = k)
    <3> HIDE DEF f
    <3> QED
      BY <2>1 DEF Injection, IsInjective
  <2> QED
    BY <2>2, <2>3
<1> QED
  BY <1>4, <1>5

-----------------------------------------------------------------------------
(* Identifiers, and designs whose identifiers were given out.              *)

DesignIsSound(d, n) ==
  /\ d \in Canvases /\ Apart(d.nodes) /\ Apart(d.edges) /\ EndsExist(d)
  /\ \A id \in NodeIds(d) \cup EdgeIds(d) : Given(id, n)

\* An identifier of one part.
LEMMA SpelledIs ==
  ASSUME NEW word \in Spellings, NEW n \in Nat, NEW length \in Nat
  PROVE  /\ Spelled(word, n, length) \in Identifiers
         /\ Last(Spelled(word, n, length).name) = <<word, n>>
<1>1. <<word, n>> \in Parts
  BY DEF Parts
<1>2. <<<<word, n>>>> \in Seq(Parts) /\ Len(<<<<word, n>>>>) = 1 /\ <<<<word, n>>>>[1] = <<word, n>>
  <2> DEFINE part == <<word, n>>
  <2>1. part \in Parts
    BY <1>1
  <2> HIDE DEF part
  <2>2. <<part>> \in Seq(Parts) /\ Len(<<part>>) = 1 /\ <<part>>[1] = part
    BY <2>1
  <2> QED
    BY <2>2 DEF part
<1>3. <<<<word, n>>>> # <<>>
  BY <1>2
<1> QED
  BY <1>2, <1>3 DEF Spelled, Identifiers, Last

\* An identifier of several parts ends as its last one does.
LEMMA JoinedIs ==
  ASSUME NEW a \in Identifiers, NEW b \in Identifiers
  PROVE  Joined(a, b) \in Identifiers /\ Last(Joined(a, b).name) = Last(b.name)
<1> DEFINE s == a.name
           t == b.name
<1>1. s \in Seq(Parts) /\ t \in Seq(Parts) /\ t # <<>> /\ a.length \in Nat /\ b.length \in Nat
  BY DEF Identifiers
<1>2. Joined(a, b) = [name |-> s \o t, length |-> a.length + 1 + b.length]
  BY DEF Joined
<1> HIDE DEF s, t
<1>3. Len(s) \in Nat /\ Len(t) \in Nat /\ Len(t) > 0
  BY <1>1
<1>4. /\ s \o t \in Seq(Parts) /\ Len(s \o t) = Len(s) + Len(t)
      /\ \A k \in 1..Len(t) : (s \o t)[Len(s) + k] = t[k]
  BY <1>1, ConcatApart
<1>5. s \o t # <<>> /\ (s \o t)[Len(s \o t)] = t[Len(t)]
  BY <1>3, <1>4
<1>6. a.length + 1 + b.length \in Nat
  BY <1>1
<1>7. Joined(a, b) \in [name : Seq(Parts), length : Nat]
  BY <1>2, <1>4, <1>6
<1> QED
  BY <1>2, <1>5, <1>7 DEF Identifiers, Last, t

\* The last part of an identifier.
LEMMA LastIs ==
  ASSUME NEW id \in Identifiers PROVE Last(id.name) \in Parts /\ Last(id.name)[2] \in Nat
<1>1. id.name \in Seq(Parts) /\ id.name # <<>>
  BY DEF Identifiers
<1>2. Len(id.name) \in 1..Len(id.name)
  BY <1>1
<1>3. Last(id.name) \in Parts
  BY <1>1, <1>2 DEF Last
<1> QED
  BY <1>3 DEF Parts

\* Identifiers of a design are identifiers.
LEMMA IdsAreIds ==
  ASSUME NEW d \in Canvases
  PROVE  /\ d.nodes \in Seq(CanvasNodes) /\ d.edges \in Seq(CanvasEdges)
         /\ d = [nodes |-> d.nodes, edges |-> d.edges]
         /\ DOMAIN d.nodes = 1..Len(d.nodes) /\ Len(d.nodes) \in Nat
         /\ DOMAIN d.edges = 1..Len(d.edges) /\ Len(d.edges) \in Nat
         /\ \A k \in DOMAIN d.nodes : d.nodes[k] \in CanvasNodes /\ d.nodes[k].id \in NodeIds(d)
         /\ \A k \in DOMAIN d.edges : d.edges[k] \in CanvasEdges /\ d.edges[k].id \in EdgeIds(d)
         /\ NodeIds(d) \subseteq Identifiers /\ EdgeIds(d) \subseteq Identifiers
         /\ EndsExist(d) => \A k \in DOMAIN d.edges : d.edges[k].source \in NodeIds(d) /\ d.edges[k].target \in NodeIds(d)
<1>1. d.nodes \in Seq(CanvasNodes) /\ d.edges \in Seq(CanvasEdges) /\ d = [nodes |-> d.nodes, edges |-> d.edges]
  BY DEF Canvases
<1>2. DOMAIN d.nodes = 1..Len(d.nodes) /\ Len(d.nodes) \in Nat /\ DOMAIN d.edges = 1..Len(d.edges) /\ Len(d.edges) \in Nat
  BY <1>1
<1>3. \A k \in DOMAIN d.nodes : d.nodes[k] \in CanvasNodes
  BY <1>1
<1>4. \A k \in DOMAIN d.edges : d.edges[k] \in CanvasEdges
  BY <1>1
<1>5. \A k \in DOMAIN d.nodes : d.nodes[k].id \in NodeIds(d)
  BY IdsOfCanvas DEF IdsIn
<1>6. \A k \in DOMAIN d.edges : d.edges[k].id \in EdgeIds(d)
  BY IdsOfCanvas DEF IdsIn
<1>7. NodeIds(d) \subseteq Identifiers
  BY <1>3, IdsOfCanvas DEF IdsIn, CanvasNodes
<1>8. EdgeIds(d) \subseteq Identifiers
  BY <1>4, IdsOfCanvas DEF IdsIn, CanvasEdges
<1>9. EndsExist(d) => \A k \in DOMAIN d.edges : d.edges[k].source \in NodeIds(d) /\ d.edges[k].target \in NodeIds(d)
  BY DEF EndsExist, Range
<1> QED
  BY <1>1, <1>2, <1>3, <1>4, <1>5, <1>6, <1>7, <1>8, <1>9

\* What is given out next is nowhere in a design.
LEMMA FreshIsNew ==
  ASSUME NEW d, NEW n \in Nat, DesignIsSound(d, n), NEW id, NEW k \in Nat, k > n,
         Last(id.name) = <<"part", k>>
  PROVE  id \notin NodeIds(d) /\ id \notin EdgeIds(d)
<1>1. ~Given(id, n)
  <2>1. <<"part", k>>[1] = "part" /\ <<"part", k>>[2] = k
    OBVIOUS
  <2>2. ~(k <= n)
    OBVIOUS
  <2> QED
    BY <2>1, <2>2 DEF Given
<1> QED
  BY <1>1 DEF DesignIsSound

\* What was given out stays given out.
LEMMA GivenStays ==
  ASSUME NEW id \in Identifiers, NEW m \in Nat, NEW n \in Nat, m <= n, Given(id, m) PROVE Given(id, n)
BY LastIs DEF Given

LEMMA SoundLater ==
  ASSUME NEW d, NEW m \in Nat, NEW n \in Nat, m <= n, DesignIsSound(d, m) PROVE DesignIsSound(d, n)
<1>1. NodeIds(d) \cup EdgeIds(d) \subseteq Identifiers
  BY IdsAreIds DEF DesignIsSound
<1>2. \A id \in NodeIds(d) \cup EdgeIds(d) : Given(id, n)
  BY <1>1, GivenStays DEF DesignIsSound
<1> QED
  BY <1>2 DEF DesignIsSound

\* An identifier that ends in a part given out, and one that ends in none.
LEMMA GivenIs ==
  ASSUME NEW id, NEW n \in Nat
  PROVE  /\ \A k \in Nat : Last(id.name) = <<"part", k>> /\ k <= n => Given(id, n)
         /\ \A word, k : Last(id.name) = <<word, k>> /\ word # "part" => Given(id, n)
BY DEF Given

\* The ends of links among the components, said of the sequences.
LEMMA EndsOf ==
  ASSUME NEW d \in Canvases
  PROVE  EndsExist(d) <=> \A e \in Range(d.edges) : e.source \in IdsIn(d.nodes) /\ e.target \in IdsIn(d.nodes)
BY IdsOfCanvas DEF EndsExist

-----------------------------------------------------------------------------
(* The graph functions keep a design sound.                                *)

\* Adding a component.
LEMMA AddedIsSound ==
  ASSUME NEW d, NEW n \in Nat, DesignIsSound(d, n), NEW kind \in DOMAIN Lengths
  PROVE  /\ DesignIsSound([nodes |-> Append(d.nodes, NewNode(kind, n + 1)), edges |-> d.edges], n + 1)
         /\ NewNode(kind, n + 1).id \in Identifiers
<1> DEFINE node == NewNode(kind, n + 1)
           w == [nodes |-> Append(d.nodes, node), edges |-> d.edges]
<1>1. kind \in Spellings /\ Lengths[kind] \in Nat
  <2>1. kind \in {"users", "cdn", "api", "cache", "database", "queue", "stream", "worker"}
    BY DEF Lengths
  <2>2. kind \in Spellings
    BY DEF Spellings
  <2>3. Lengths[kind] \in {5, 3, 8, 6}
    BY <2>1 DEF Lengths
  <2> QED
    BY <2>2, <2>3
<1>2. Named(kind, Lengths[kind]) \in Identifiers
  BY <1>1, SpelledIs DEF Named
<1>3. Clock(n + 1) \in Identifiers /\ Last(Clock(n + 1).name) = <<"part", n + 1>>
  <2>1. "part" \in Spellings /\ n + 1 \in Nat /\ 13 \in Nat
    BY DEF Spellings
  <2> QED
    BY <2>1, SpelledIs DEF Clock
<1>4. node.id = Joined(Named(kind, Lengths[kind]), Clock(n + 1)) /\ node.kind = kind /\ node.replicas \in Nat
      /\ node = [id |-> node.id, kind |-> node.kind, replicas |-> node.replicas]
  BY DEF NewNode
<1>5. node.id \in Identifiers /\ Last(node.id.name) = <<"part", n + 1>>
  BY <1>2, <1>3, <1>4, JoinedIs
<1> HIDE DEF node
<1>6. node \in CanvasNodes
  BY <1>4, <1>5 DEF CanvasNodes
<1>7. node.id \notin NodeIds(d)
  BY <1>5, FreshIsNew
<1>8. DesignIsSound(d, n + 1) /\ d \in Canvases
  BY SoundLater DEF DesignIsSound
<1>9. /\ Append(d.nodes, node) \in Seq(CanvasNodes) /\ IdsIn(Append(d.nodes, node)) = IdsIn(d.nodes) \cup {node.id}
      /\ Apart(Append(d.nodes, node))
  <2>1. d.nodes \in Seq(CanvasNodes) /\ Apart(d.nodes) /\ node.id \notin IdsIn(d.nodes)
    BY <1>7, <1>8, IdsAreIds, IdsOfCanvas DEF DesignIsSound
  <2> QED
    BY <1>6, <2>1, AppendApart
<1>10. w.nodes = Append(d.nodes, node) /\ w.edges = d.edges
  OBVIOUS
<1> HIDE DEF w
<1>11. w \in Canvases
  BY <1>8, <1>9, IdsAreIds DEF Canvases, w
<1>12. NodeIds(w) = NodeIds(d) \cup {node.id} /\ EdgeIds(w) = EdgeIds(d)
  BY <1>9, <1>10, IdsOfCanvas
<1>13. EndsExist(w)
  BY <1>8, <1>10, <1>12 DEF EndsExist, DesignIsSound
<1>14. Given(node.id, n + 1)
  BY <1>5, GivenIs
<1>15. DesignIsSound(w, n + 1)
  BY <1>8, <1>9, <1>10, <1>11, <1>12, <1>13, <1>14 DEF DesignIsSound
<1> QED
  BY <1>5, <1>15 DEF w, node

\* Connecting two components.
LEMMA ConnectedIsSound ==
  ASSUME NEW d, NEW n \in Nat, DesignIsSound(d, n), NEW source \in NodeIds(d), NEW target \in NodeIds(d)
  PROVE  DesignIsSound(Connected(d, source, target, n + 1), n + 1)
<1> DEFINE name == Joined(Joined(Joined(Named("edge", 4), source), target), Uuid(n + 1))
           edge == Edge(name, source, target)
           w == Connected(d, source, target, n + 1)
<1>1. DesignIsSound(d, n + 1) /\ d \in Canvases
  BY SoundLater DEF DesignIsSound
<1>2. source \in Identifiers /\ target \in Identifiers
  BY <1>1, IdsAreIds
<1>3. Named("edge", 4) \in Identifiers
  <2>1. "edge" \in Spellings /\ 0 \in Nat /\ 4 \in Nat
    BY DEF Spellings
  <2> QED
    BY <2>1, SpelledIs DEF Named
<1>4. Uuid(n + 1) \in Identifiers /\ Last(Uuid(n + 1).name) = <<"part", n + 1>>
  <2>1. "part" \in Spellings /\ n + 1 \in Nat /\ 36 \in Nat
    BY DEF Spellings
  <2> QED
    BY <2>1, SpelledIs DEF Uuid
<1>5. name \in Identifiers /\ Last(name.name) = <<"part", n + 1>>
  <2>1. Joined(Named("edge", 4), source) \in Identifiers
    BY <1>2, <1>3, JoinedIs
  <2>2. Joined(Joined(Named("edge", 4), source), target) \in Identifiers
    BY <1>2, <2>1, JoinedIs
  <2> QED
    BY <1>4, <2>2, JoinedIs
<1>6. w = [nodes |-> d.nodes, edges |-> Append(d.edges, edge)]
  BY DEF Connected
<1> HIDE DEF name, w
<1>7. edge.id = name /\ edge.source = source /\ edge.target = target /\ edge \in CanvasEdges
  BY <1>2, <1>5 DEF Edge, CanvasEdges
<1> HIDE DEF edge
<1>8. edge.id \notin EdgeIds(d)
  BY <1>5, <1>7, FreshIsNew
<1>9. /\ Append(d.edges, edge) \in Seq(CanvasEdges) /\ IdsIn(Append(d.edges, edge)) = IdsIn(d.edges) \cup {edge.id}
      /\ Apart(Append(d.edges, edge)) /\ Range(Append(d.edges, edge)) = Range(d.edges) \cup {edge}
  <2>1. d.edges \in Seq(CanvasEdges) /\ Apart(d.edges) /\ edge.id \notin IdsIn(d.edges)
    BY <1>8, <1>1, IdsAreIds, IdsOfCanvas DEF DesignIsSound
  <2> QED
    BY <1>7, <2>1, AppendApart
<1>10. w.edges = Append(d.edges, edge) /\ w.nodes = d.nodes
  BY <1>6
<1>11. w \in Canvases
  BY <1>1, <1>6, <1>9, IdsAreIds DEF Canvases
<1>12. NodeIds(w) = NodeIds(d) /\ EdgeIds(w) = EdgeIds(d) \cup {edge.id}
  BY <1>9, <1>10, IdsOfCanvas
<1>13. EndsExist(w)
  BY <1>1, <1>7, <1>9, <1>10, <1>12 DEF EndsExist, DesignIsSound
<1>14. Given(edge.id, n + 1)
  BY <1>5, <1>7, GivenIs
<1> QED
  BY <1>1, <1>9, <1>10, <1>11, <1>12, <1>13, <1>14 DEF DesignIsSound, w

\* Removing components and links, with the links of what is removed.
LEMMA WithoutIsSound ==
  ASSUME NEW d, NEW n \in Nat, DesignIsSound(d, n), NEW nodeIds, NEW edgeIds
  PROVE  DesignIsSound(Without(d, nodeIds, edgeIds), n)
<1> DEFINE here == {k \in DOMAIN d.nodes : d.nodes[k].id \notin nodeIds}
           there == {k \in DOMAIN d.edges : /\ d.edges[k].id \notin edgeIds
                                            /\ {d.edges[k].source, d.edges[k].target} \cap nodeIds = {}}
           w == Without(d, nodeIds, edgeIds)
<1>1. d \in Canvases /\ Apart(d.nodes) /\ Apart(d.edges) /\ EndsExist(d)
  BY DEF DesignIsSound
<1>2. /\ d.nodes \in Seq(CanvasNodes) /\ d.edges \in Seq(CanvasEdges)
      /\ DOMAIN d.nodes = 1..Len(d.nodes) /\ DOMAIN d.edges = 1..Len(d.edges)
  BY <1>1, IdsAreIds
<1>3. here \in SUBSET (1..Len(d.nodes)) /\ there \in SUBSET (1..Len(d.edges))
  BY <1>2
<1>4. w.nodes = Keep(d.nodes, here) /\ w.edges = Keep(d.edges, there) /\ w = [nodes |-> w.nodes, edges |-> w.edges]
  BY DEF Without
<1> HIDE DEF w
<1>5. /\ w.nodes \in Seq(CanvasNodes) /\ Apart(w.nodes)
      /\ IdsIn(w.nodes) = {d.nodes[k].id : k \in here}
  <2> HIDE DEF here
  <2>1. here \in SUBSET (1..Len(d.nodes)) /\ d.nodes \in Seq(CanvasNodes)
    BY <1>2, <1>3
  <2> QED
    BY <1>1, <1>4, <2>1, KeepApart
<1>6. /\ w.edges \in Seq(CanvasEdges) /\ Apart(w.edges) /\ Range(w.edges) = {d.edges[k] : k \in there}
      /\ IdsIn(w.edges) = {d.edges[k].id : k \in there}
  <2> HIDE DEF there
  <2>1. there \in SUBSET (1..Len(d.edges)) /\ d.edges \in Seq(CanvasEdges)
    BY <1>2, <1>3
  <2> QED
    BY <1>1, <1>4, <2>1, KeepApart
<1>7. w \in Canvases
  BY <1>4, <1>5, <1>6 DEF Canvases
<1>8. NodeIds(w) \subseteq NodeIds(d) /\ EdgeIds(w) \subseteq EdgeIds(d)
  <2>1. \A k \in here : d.nodes[k].id \in NodeIds(d)
    BY <1>1, IdsAreIds
  <2>2. \A k \in there : d.edges[k].id \in EdgeIds(d)
    BY <1>1, IdsAreIds
  <2> HIDE DEF here, there
  <2> QED
    BY <1>5, <1>6, <2>1, <2>2, IdsOfCanvas
<1>9. EndsExist(w)
  <2>1. ASSUME NEW k \in there PROVE d.edges[k].source \in IdsIn(w.nodes) /\ d.edges[k].target \in IdsIn(w.nodes)
    <3>1. d.edges[k].source \in NodeIds(d) \ nodeIds /\ d.edges[k].target \in NodeIds(d) \ nodeIds
      BY <1>1, IdsAreIds
    <3>2. \A id \in NodeIds(d) \ nodeIds : id \in {d.nodes[j].id : j \in here}
      BY IdsOfCanvas DEF IdsIn
    <3> QED
      BY <1>5, <3>1, <3>2
  <2>2. \A e \in Range(w.edges) : e.source \in IdsIn(w.nodes) /\ e.target \in IdsIn(w.nodes)
    BY <1>6, <2>1
  <2> QED
    BY <1>7, <2>2, EndsOf
<1> QED
  BY <1>5, <1>6, <1>7, <1>8, <1>9 DEF DesignIsSound, w

\* No components and no links.
LEMMA EmptyIsSound ==
  ASSUME NEW n \in Nat PROVE DesignIsSound([nodes |-> <<>>, edges |-> <<>>], n)
<1> DEFINE w == [nodes |-> <<>>, edges |-> <<>>]
<1>1. w.nodes = <<>> /\ w.edges = <<>> /\ w \in Canvases
  BY DEF Canvases
<1> HIDE DEF w
<1>2. \A k \in DOMAIN <<>> : FALSE
  OBVIOUS
<1>3. Apart(w.nodes) /\ Apart(w.edges) /\ NodeIds(w) = {} /\ EdgeIds(w) = {} /\ Range(w.edges) = {}
  BY <1>1, <1>2, IdsOfCanvas DEF Apart, IdsIn, Range
<1> QED
  BY <1>1, <1>3 DEF DesignIsSound, EndsExist, w

\* The copy of an identifier ends in a part of its own.
LEMMA CopyIs ==
  ASSUME NEW id \in Identifiers, NEW k \in Nat
  PROVE  CopyOf(id, k) \in Identifiers /\ Last(CopyOf(id, k).name) = <<"part", k>>
<1>1. Named("copy", 4) \in Identifiers
  <2>1. "copy" \in Spellings /\ 0 \in Nat /\ 4 \in Nat
    BY DEF Spellings
  <2> QED
    BY <2>1, SpelledIs DEF Named
<1>2. Uuid(k) \in Identifiers /\ Last(Uuid(k).name) = <<"part", k>>
  <2>1. "part" \in Spellings /\ 36 \in Nat
    BY DEF Spellings
  <2> QED
    BY <2>1, SpelledIs DEF Uuid
<1>3. Joined(id, Named("copy", 4)) \in Identifiers
  BY <1>1, JoinedIs
<1> QED
  BY <1>2, <1>3, JoinedIs DEF CopyOf

\* The place of an identifier among those to copy says which part.
LEMMA CopiedIs ==
  ASSUME NEW T, NEW sourceIds \in Seq(T), NEW n \in Nat
  PROVE  \E at \in [Range(sourceIds) -> 1..Len(sourceIds)] :
           /\ \A id \in Range(sourceIds) : sourceIds[at[id]] = id
           /\ \A id \in Range(sourceIds) : Copied(sourceIds, id, n) = CopyOf(id, n + at[id])
<1> DEFINE at == [id \in Range(sourceIds) |-> CHOOSE k \in DOMAIN sourceIds : sourceIds[k] = id]
<1>1. \A id \in Range(sourceIds) : at[id] \in DOMAIN sourceIds /\ sourceIds[at[id]] = id
  BY DEF Range
<1>2. DOMAIN sourceIds = 1..Len(sourceIds)
  OBVIOUS
<1>3. \A id \in Range(sourceIds) : Copied(sourceIds, id, n) = CopyOf(id, n + at[id])
  BY DEF Copied
<1>4. at \in [Range(sourceIds) -> 1..Len(sourceIds)]
  BY <1>1, <1>2
<1> HIDE DEF at
<1> QED
  BY <1>1, <1>3, <1>4

\* Copies of components: new identifiers, one for each.
LEMMA CopiedNodesAre ==
  ASSUME NEW T, NEW sourceIds \in Seq(T), NEW n \in Nat, NEW nodes \in Seq(CanvasNodes), Apart(nodes),
         \A k \in DOMAIN nodes : nodes[k].id \in Range(sourceIds)
  PROVE  LET copies == CopiedNodes(nodes, sourceIds, n)
         IN /\ copies \in Seq(CanvasNodes) /\ Len(copies) = Len(nodes) /\ Apart(copies)
            /\ IdsIn(copies) = {Copied(sourceIds, nodes[k].id, n) : k \in DOMAIN nodes}
            /\ \A id \in IdsIn(copies) : \E k \in 1..Len(sourceIds) : Last(id.name) = <<"part", n + k>>
<1> DEFINE copies == CopiedNodes(nodes, sourceIds, n)
<1>1. PICK at \in [Range(sourceIds) -> 1..Len(sourceIds)] :
        /\ \A id \in Range(sourceIds) : sourceIds[at[id]] = id
        /\ \A id \in Range(sourceIds) : Copied(sourceIds, id, n) = CopyOf(id, n + at[id])
  BY CopiedIs
<1>2. DOMAIN nodes = 1..Len(nodes) /\ Len(nodes) \in Nat /\ Len(sourceIds) \in Nat
  OBVIOUS
<1>3. DOMAIN copies = 1..Len(nodes) /\ \A k \in DOMAIN nodes :
        copies[k] = [nodes[k] EXCEPT !.id = Copied(sourceIds, nodes[k].id, n)]
  BY <1>2 DEF CopiedNodes
<1> HIDE DEF copies
<1>4. ASSUME NEW k \in DOMAIN nodes
      PROVE  /\ copies[k] \in CanvasNodes /\ copies[k].id = Copied(sourceIds, nodes[k].id, n)
             /\ at[nodes[k].id] \in 1..Len(sourceIds) /\ sourceIds[at[nodes[k].id]] = nodes[k].id
             /\ Last(copies[k].id.name) = <<"part", n + at[nodes[k].id]>>
  <2> DEFINE id == nodes[k].id
  <2>1. nodes[k] \in CanvasNodes /\ id \in Range(sourceIds)
    BY <1>2
  <2>2. id \in Identifiers
    BY <2>1 DEF CanvasNodes
  <2>3. at[id] \in 1..Len(sourceIds) /\ sourceIds[at[id]] = id /\ n + at[id] \in Nat
    BY <1>1, <1>2, <2>1
  <2>4. Copied(sourceIds, id, n) = CopyOf(id, n + at[id])
    BY <1>1, <2>1
  <2>5. Copied(sourceIds, id, n) \in Identifiers /\ Last(Copied(sourceIds, id, n).name) = <<"part", n + at[id]>>
    BY <2>2, <2>3, <2>4, CopyIs
  <2>6. copies[k] = [nodes[k] EXCEPT !.id = Copied(sourceIds, id, n)]
    BY <1>3
  <2>7. copies[k] \in CanvasNodes /\ copies[k].id = Copied(sourceIds, id, n)
    BY <2>1, <2>5, <2>6 DEF CanvasNodes
  <2> QED
    BY <2>3, <2>5, <2>7
<1>5. copies \in Seq(CanvasNodes) /\ Len(copies) = Len(nodes)
  <2>1. copies \in [1..Len(nodes) -> CanvasNodes]
    <3>1. copies = [k \in DOMAIN nodes |-> [nodes[k] EXCEPT !.id = Copied(sourceIds, @, n)]]
      BY DEF copies, CopiedNodes
    <3> QED
      BY <1>2, <1>3, <1>4, <3>1
  <2> QED
    BY <1>2, <2>1, ListOf, Zenon
<1>6. Apart(copies)
  <2>1. ASSUME NEW j \in DOMAIN nodes, NEW k \in DOMAIN nodes, copies[j].id = copies[k].id PROVE j = k
    <3>1. <<"part", n + at[nodes[j].id]>> = <<"part", n + at[nodes[k].id]>>
      BY <1>4, <2>1
    <3>2. n + at[nodes[j].id] = n + at[nodes[k].id]
      BY <3>1
    <3>3. at[nodes[j].id] \in Nat /\ at[nodes[k].id] \in Nat
      BY <1>2, <1>4
    <3>4. at[nodes[j].id] = at[nodes[k].id]
      BY <3>2, <3>3
    <3>5. nodes[j].id = nodes[k].id
      BY <1>4, <3>4
    <3> QED
      BY <3>5 DEF Apart
  <2> QED
    BY <1>2, <1>3, <2>1 DEF Apart
<1>7. IdsIn(copies) = {Copied(sourceIds, nodes[k].id, n) : k \in DOMAIN nodes}
  BY <1>2, <1>3, <1>4 DEF IdsIn
<1>8. \A id \in IdsIn(copies) : \E k \in 1..Len(sourceIds) : Last(id.name) = <<"part", n + k>>
  <2>1. \A k \in DOMAIN nodes : \E h \in 1..Len(sourceIds) : Last(copies[k].id.name) = <<"part", n + h>>
    BY <1>4
  <2>2. IdsIn(copies) = {copies[k].id : k \in DOMAIN nodes}
    BY <1>2, <1>3 DEF IdsIn
  <2> QED
    BY <2>1, <2>2
<1> QED
  BY <1>5, <1>6, <1>7, <1>8 DEF copies

\* Copies of links between copied components.
LEMMA CopiedEdgesAre ==
  ASSUME NEW T, NEW sourceIds \in Seq(T), NEW n \in Nat, NEW edges \in Seq(CanvasEdges),
         \A k \in DOMAIN edges : edges[k].source \in Range(sourceIds) /\ edges[k].target \in Range(sourceIds)
  PROVE  LET copies == CopiedEdges(edges, sourceIds, n)
         IN /\ copies \in Seq(CanvasEdges) /\ Len(copies) = Len(edges) /\ Apart(copies)
            /\ \A e \in Range(copies) : \E k \in DOMAIN edges :
                 /\ e.source = Copied(sourceIds, edges[k].source, n)
                 /\ e.target = Copied(sourceIds, edges[k].target, n)
            /\ \A id \in IdsIn(copies) : \E k \in 1..Len(edges) :
                 Last(id.name) = <<"part", n + Len(sourceIds) + k>>
<1> DEFINE copies == CopiedEdges(edges, sourceIds, n)
<1>1. PICK at \in [Range(sourceIds) -> 1..Len(sourceIds)] :
        /\ \A id \in Range(sourceIds) : sourceIds[at[id]] = id
        /\ \A id \in Range(sourceIds) : Copied(sourceIds, id, n) = CopyOf(id, n + at[id])
  BY CopiedIs
<1>2. DOMAIN edges = 1..Len(edges) /\ Len(edges) \in Nat /\ Len(sourceIds) \in Nat
  OBVIOUS
<1>3. copies = [k \in DOMAIN edges |->
                  Edge(CopyOf(edges[k].id, n + Len(sourceIds) + k),
                       Copied(sourceIds, edges[k].source, n), Copied(sourceIds, edges[k].target, n))]
  BY DEF CopiedEdges
<1> HIDE DEF copies
<1>4. ASSUME NEW id \in Identifiers, id \in Range(sourceIds) PROVE Copied(sourceIds, id, n) \in Identifiers
  <2>1. at[id] \in 1..Len(sourceIds) /\ n + at[id] \in Nat
    BY <1>1, <1>2, <1>4
  <2> QED
    BY <1>1, <1>4, <2>1, CopyIs
<1>5. ASSUME NEW k \in DOMAIN edges
      PROVE  /\ copies[k] \in CanvasEdges
             /\ copies[k].source = Copied(sourceIds, edges[k].source, n)
             /\ copies[k].target = Copied(sourceIds, edges[k].target, n)
             /\ Last(copies[k].id.name) = <<"part", n + Len(sourceIds) + k>>
  <2>1. edges[k] \in CanvasEdges /\ k \in Nat /\ n + Len(sourceIds) + k \in Nat
    BY <1>2
  <2>2. edges[k].id \in Identifiers /\ edges[k].source \in Identifiers /\ edges[k].target \in Identifiers
    BY <2>1 DEF CanvasEdges
  <2>3. CopyOf(edges[k].id, n + Len(sourceIds) + k) \in Identifiers
        /\ Last(CopyOf(edges[k].id, n + Len(sourceIds) + k).name) = <<"part", n + Len(sourceIds) + k>>
    BY <2>1, <2>2, CopyIs
  <2>4. Copied(sourceIds, edges[k].source, n) \in Identifiers /\ Copied(sourceIds, edges[k].target, n) \in Identifiers
    BY <1>4, <2>2
  <2>5. copies[k] = [id |-> CopyOf(edges[k].id, n + Len(sourceIds) + k),
                     source |-> Copied(sourceIds, edges[k].source, n),
                     target |-> Copied(sourceIds, edges[k].target, n)]
    BY <1>3 DEF Edge
  <2> QED
    BY <2>3, <2>4, <2>5 DEF CanvasEdges
<1>6. copies \in Seq(CanvasEdges) /\ Len(copies) = Len(edges) /\ DOMAIN copies = 1..Len(edges)
  <2>1. copies \in [1..Len(edges) -> CanvasEdges]
    BY <1>2, <1>3, <1>5
  <2> QED
    BY <1>2, <2>1
<1>7. Apart(copies)
  <2>1. ASSUME NEW j \in DOMAIN edges, NEW k \in DOMAIN edges, copies[j].id = copies[k].id PROVE j = k
    <3>1. <<"part", n + Len(sourceIds) + j>> = <<"part", n + Len(sourceIds) + k>>
      BY <1>5, <2>1
    <3>2. n + Len(sourceIds) + j = n + Len(sourceIds) + k
      BY <3>1
    <3> QED
      BY <1>2, <3>2
  <2> QED
    BY <1>2, <1>6, <2>1 DEF Apart
<1>8. \A e \in Range(copies) : \E k \in DOMAIN edges :
        /\ e.source = Copied(sourceIds, edges[k].source, n)
        /\ e.target = Copied(sourceIds, edges[k].target, n)
  BY <1>2, <1>5, <1>6 DEF Range
<1>9. \A id \in IdsIn(copies) : \E k \in 1..Len(edges) : Last(id.name) = <<"part", n + Len(sourceIds) + k>>
  BY <1>2, <1>5, <1>6 DEF IdsIn
<1> QED
  BY <1>6, <1>7, <1>8, <1>9 DEF copies

\* Copying what is selected.
LEMMA DuplicatedIsSound ==
  ASSUME NEW d, NEW n \in Nat, DesignIsSound(d, n), NEW T, NEW sourceIds \in Seq(T)
  PROVE  /\ DesignIsSound(Duplicated(d, sourceIds, n), n + Len(sourceIds) + Len(Inner(d, Range(sourceIds))))
         /\ Len(Duplicated(d, sourceIds, n).nodes) - Len(d.nodes) \in Nat
         /\ Len(Inner(d, Range(sourceIds))) \in Nat
<1> DEFINE sources == Range(sourceIds)
           here == {k \in DOMAIN d.nodes : d.nodes[k].id \in sources}
           there == {k \in DOMAIN d.edges : {d.edges[k].source, d.edges[k].target} \subseteq sources}
           nodes == Picked(d, sources)
           edges == Inner(d, sources)
           others == CopiedNodes(nodes, sourceIds, n)
           wires == CopiedEdges(edges, sourceIds, n)
           w == Duplicated(d, sourceIds, n)
           m == n + Len(sourceIds) + Len(edges)
<1>1. d \in Canvases /\ Apart(d.nodes) /\ Apart(d.edges) /\ EndsExist(d)
  BY DEF DesignIsSound
<1>2. /\ d.nodes \in Seq(CanvasNodes) /\ d.edges \in Seq(CanvasEdges)
      /\ DOMAIN d.nodes = 1..Len(d.nodes) /\ DOMAIN d.edges = 1..Len(d.edges)
      /\ Len(d.nodes) \in Nat /\ Len(sourceIds) \in Nat
  BY <1>1, IdsAreIds
<1>3. nodes \in Seq(CanvasNodes) /\ Apart(nodes) /\ IdsIn(nodes) = {d.nodes[k].id : k \in here}
  <2>1. here \in SUBSET (1..Len(d.nodes)) /\ nodes = Keep(d.nodes, here)
    BY <1>2 DEF Picked
  <2> HIDE DEF here, nodes
  <2>2. d.nodes \in Seq(CanvasNodes) /\ here \in SUBSET (1..Len(d.nodes)) /\ Apart(d.nodes)
    BY <1>1, <1>2, <2>1
  <2>3. /\ Keep(d.nodes, here) \in Seq(CanvasNodes)
        /\ IdsIn(Keep(d.nodes, here)) = {d.nodes[k].id : k \in here}
        /\ Apart(d.nodes) => Apart(Keep(d.nodes, here))
    BY <2>2, KeepApart
  <2> QED
    BY <2>1, <2>2, <2>3
<1>4. edges \in Seq(CanvasEdges) /\ Range(edges) = {d.edges[k] : k \in there}
  <2>1. there \in SUBSET (1..Len(d.edges)) /\ edges = Keep(d.edges, there)
    BY <1>2 DEF Inner
  <2> HIDE DEF there, edges
  <2> QED
    BY <1>2, <2>1, KeepApart
<1>5. \A k \in DOMAIN nodes : nodes[k].id \in sources
  <2>1. \A id \in IdsIn(nodes) : id \in sources
    BY <1>3
  <2> QED
    BY <2>1 DEF IdsIn
<1>6. \A k \in DOMAIN edges : edges[k].source \in sources /\ edges[k].target \in sources
                              /\ edges[k].source \in IdsIn(nodes) /\ edges[k].target \in IdsIn(nodes)
  <2>1. ASSUME NEW k \in there
        PROVE  /\ d.edges[k].source \in sources /\ d.edges[k].target \in sources
               /\ d.edges[k].source \in IdsIn(nodes) /\ d.edges[k].target \in IdsIn(nodes)
    <3>1. d.edges[k].source \in NodeIds(d) /\ d.edges[k].target \in NodeIds(d)
      BY <1>1, IdsAreIds
    <3>2. d.edges[k].source \in sources /\ d.edges[k].target \in sources
      OBVIOUS
    <3>3. \A id \in NodeIds(d) : id \in sources => id \in {d.nodes[j].id : j \in here}
      BY IdsOfCanvas DEF IdsIn
    <3> QED
      BY <1>3, <3>1, <3>2, <3>3
  <2>2. \A e \in Range(edges) : /\ e.source \in sources /\ e.target \in sources
                                /\ e.source \in IdsIn(nodes) /\ e.target \in IdsIn(nodes)
    BY <1>4, <2>1
  <2>3. \A k \in DOMAIN edges : edges[k] \in Range(edges)
    BY DEF Range
  <2> QED
    BY <2>2, <2>3
<1> HIDE DEF sources, here, there, nodes, edges
<1>7. /\ others \in Seq(CanvasNodes) /\ Len(others) = Len(nodes) /\ Apart(others)
      /\ IdsIn(others) = {Copied(sourceIds, nodes[k].id, n) : k \in DOMAIN nodes}
      /\ \A id \in IdsIn(others) : \E k \in 1..Len(sourceIds) : Last(id.name) = <<"part", n + k>>
  <2>1. \A k \in DOMAIN nodes : nodes[k].id \in Range(sourceIds)
    BY <1>5 DEF sources
  <2> QED
    BY <1>3, <2>1, CopiedNodesAre
<1>8. /\ wires \in Seq(CanvasEdges) /\ Len(wires) = Len(edges) /\ Apart(wires)
      /\ \A e \in Range(wires) : \E k \in DOMAIN edges :
           /\ e.source = Copied(sourceIds, edges[k].source, n)
           /\ e.target = Copied(sourceIds, edges[k].target, n)
      /\ \A id \in IdsIn(wires) : \E k \in 1..Len(edges) : Last(id.name) = <<"part", n + Len(sourceIds) + k>>
  <2>1. \A k \in DOMAIN edges : edges[k].source \in Range(sourceIds) /\ edges[k].target \in Range(sourceIds)
    BY <1>6 DEF sources
  <2> QED
    BY <1>4, <2>1, CopiedEdgesAre
<1>9. w = [nodes |-> d.nodes \o others, edges |-> d.edges \o wires]
  BY DEF Duplicated, nodes, edges, sources
<1> HIDE DEF others, wires, w
<1>10. Len(edges) \in Nat /\ m \in Nat /\ n <= m
  BY <1>2, <1>4
<1>11. \A id \in IdsIn(others) : id \notin NodeIds(d) /\ Given(id, m)
  <2>1. ASSUME NEW id \in IdsIn(others) PROVE id \notin NodeIds(d) /\ Given(id, m)
    <3>1. PICK k \in 1..Len(sourceIds) : Last(id.name) = <<"part", n + k>>
      BY <1>7
    <3>2. n + k \in Nat /\ n + k > n /\ n + k <= m
      BY <1>2, <1>10
    <3> QED
      BY <1>10, <3>1, <3>2, FreshIsNew, GivenIs
  <2> QED
    BY <2>1
<1>12. \A id \in IdsIn(wires) : id \notin EdgeIds(d) /\ Given(id, m)
  <2>1. ASSUME NEW id \in IdsIn(wires) PROVE id \notin EdgeIds(d) /\ Given(id, m)
    <3>1. PICK k \in 1..Len(edges) : Last(id.name) = <<"part", n + Len(sourceIds) + k>>
      BY <1>8
    <3> DEFINE part == n + Len(sourceIds) + k
    <3>2. part \in Nat /\ part > n /\ part <= m
      BY <1>2, <1>10
    <3>3. Last(id.name) = <<"part", part>>
      BY <3>1
    <3> HIDE DEF part
    <3> QED
      BY <1>10, <3>2, <3>3, FreshIsNew, GivenIs
  <2> QED
    BY <2>1
<1> HIDE DEF m
<1>13. w.nodes = d.nodes \o others /\ w.edges = d.edges \o wires
  BY <1>9
<1>14. /\ w.nodes \in Seq(CanvasNodes) /\ Len(w.nodes) = Len(d.nodes) + Len(others)
       /\ IdsIn(w.nodes) = IdsIn(d.nodes) \cup IdsIn(others) /\ Apart(w.nodes)
  <2>1. IdsIn(d.nodes) \cap IdsIn(others) = {}
    BY <1>11, IdsOfCanvas
  <2>2. w.nodes = d.nodes \o others
    BY <1>13
  <2>3. d.nodes \in Seq(CanvasNodes) /\ others \in Seq(CanvasNodes)
    BY <1>2, <1>7
  <2>4. /\ d.nodes \o others \in Seq(CanvasNodes) /\ Len(d.nodes \o others) = Len(d.nodes) + Len(others)
        /\ IdsIn(d.nodes \o others) = IdsIn(d.nodes) \cup IdsIn(others)
        /\ Apart(d.nodes) /\ Apart(others) /\ IdsIn(d.nodes) \cap IdsIn(others) = {} => Apart(d.nodes \o others)
    BY <2>3, ConcatApart
  <2> QED
    BY <1>1, <1>7, <2>1, <2>2, <2>4
<1>15. /\ w.edges \in Seq(CanvasEdges) /\ Range(w.edges) = Range(d.edges) \cup Range(wires)
       /\ IdsIn(w.edges) = IdsIn(d.edges) \cup IdsIn(wires) /\ Apart(w.edges)
  <2>1. IdsIn(d.edges) \cap IdsIn(wires) = {}
    BY <1>12, IdsOfCanvas
  <2> QED
    BY <1>1, <1>2, <1>8, <1>13, <2>1, ConcatApart
<1>16. w \in Canvases
  BY <1>9, <1>13, <1>14, <1>15 DEF Canvases
<1>17. EndsExist(w)
  <2>1. \A e \in Range(d.edges) : e.source \in IdsIn(w.nodes) /\ e.target \in IdsIn(w.nodes)
    BY <1>1, <1>14, EndsOf
  <2>2. \A id \in IdsIn(nodes) : Copied(sourceIds, id, n) \in IdsIn(others)
    BY <1>7 DEF IdsIn
  <2>3. \A e \in Range(wires) : e.source \in IdsIn(w.nodes) /\ e.target \in IdsIn(w.nodes)
    BY <1>6, <1>8, <1>14, <2>2
  <2>4. \A e \in Range(w.edges) : e.source \in IdsIn(w.nodes) /\ e.target \in IdsIn(w.nodes)
    BY <1>15, <2>1, <2>3
  <2> QED
    BY <1>16, <2>4, EndsOf
<1>18. DesignIsSound(d, m)
  BY <1>10, SoundLater
<1>19. \A id \in NodeIds(w) \cup EdgeIds(w) : Given(id, m)
  BY <1>11, <1>12, <1>14, <1>15, <1>18, IdsOfCanvas DEF DesignIsSound
<1>20. DesignIsSound(w, m)
  BY <1>14, <1>15, <1>16, <1>17, <1>19 DEF DesignIsSound
<1>21. Len(w.nodes) - Len(d.nodes) \in Nat
  <2>1. Len(others) \in Nat
    BY <1>7
  <2> QED
    BY <1>2, <1>14, <2>1
<1> QED
  BY <1>10, <1>20, <1>21 DEF w, m, edges, sources

-----------------------------------------------------------------------------
(* Proposals keep a design sound when the schema accepts it.               *)

\* A set of natural numbers has a first one.
LEMMA HasFirst ==
  ASSUME NEW S, S \subseteq Nat, S # {} PROVE Min(S) \in S /\ \A x \in S : Min(S) <= x
<1>1. PICK x \in S : \A y \in S : ~(<<y, x>> \in OpToRel(<, Nat))
  BY NatLessThanWellFounded, WFMin, Zenon
<1>2. \A y \in S : x <= y
  <2>1. ASSUME NEW y \in S PROVE ~(y < x)
    <3>1. x \in Nat /\ y \in Nat
      OBVIOUS
    <3>2. y < x => <<y, x>> \in OpToRel(<, Nat)
      BY <3>1 DEF OpToRel
    <3> QED
      BY <1>1, <3>2
  <2> QED
    BY <2>1
<1> QED
  BY <1>2 DEF Min

\* The first component of a kind there is.
LEMMA FirstIs ==
  ASSUME NEW d \in Canvases, NEW kind \in Kinds(d) PROVE FirstOf(d, kind) \in NodeIds(d)
<1> DEFINE found == {k \in DOMAIN d.nodes : d.nodes[k].kind = kind}
<1>1. DOMAIN d.nodes \subseteq Nat /\ \A k \in DOMAIN d.nodes : d.nodes[k].id \in NodeIds(d)
  BY IdsAreIds
<1>2. found \subseteq Nat /\ found # {}
  BY <1>1 DEF Kinds, Range
<1>3. Min(found) \in found
  <2> HIDE DEF found
  <2> QED
    BY <1>2, HasFirst
<1>4. FirstOf(d, kind) = d.nodes[Min(found)].id
  BY <1>2 DEF FirstOf
<1> QED
  BY <1>1, <1>3, <1>4

\* A suffix not taken is found among one more of them than there are components.
LEMMA UniqueIs ==
  ASSUME NEW d, NEW n \in Nat, DesignIsSound(d, n), NEW base \in Identifiers, Last(base.name)[1] # "part"
  PROVE  UniqueId(d, base) \in Identifiers /\ Given(UniqueId(d, base), n)
         /\ UniqueId(d, base) \notin NodeIds(d)
<1> DEFINE N == Len(d.nodes)
           free == {k \in 2..(N + 2) : Suffixed(base, k) \notin NodeIds(d)}
           f == [k \in 2..(N + 2) |-> Suffixed(base, k)]
<1>1. d.nodes \in Seq(CanvasNodes) /\ N \in Nat
  BY IdsAreIds DEF DesignIsSound
<1>2. IsFiniteSet(NodeIds(d)) /\ Cardinality(NodeIds(d)) <= N
  BY <1>1, ApartCounts, IdsOfCanvas
<1> HIDE DEF N
<1>3. ASSUME NEW k \in Nat
      PROVE  Suffixed(base, k) \in Identifiers /\ Last(Suffixed(base, k).name) = <<"suffix", k>>
  <2> DEFINE length == IF k < 10 THEN 1 ELSE IF k < 100 THEN 2 ELSE 3
  <2>1. "suffix" \in Spellings /\ length \in Nat
    BY DEF Spellings
  <2> HIDE DEF length
  <2>2. Spelled("suffix", k, length) \in Identifiers /\ Last(Spelled("suffix", k, length).name) = <<"suffix", k>>
    BY <2>1, SpelledIs
  <2>3. Suffixed(base, k) = Joined(base, Spelled("suffix", k, length))
    BY DEF Suffixed, length
  <2> QED
    BY <2>2, <2>3, JoinedIs
<1>4. free # {}
  <2>1. SUFFICES ASSUME free = {} PROVE FALSE
    OBVIOUS
  <2>2. \A k \in 2..(N + 2) : f[k] \in NodeIds(d)
    BY <2>1
  <2>3. \A j, k \in 2..(N + 2) : f[j] = f[k] => j = k
    <3>1. ASSUME NEW j \in 2..(N + 2), NEW k \in 2..(N + 2), f[j] = f[k] PROVE j = k
      <4>1. j \in Nat /\ k \in Nat
        BY <1>1
      <4>2. <<"suffix", j>> = <<"suffix", k>>
        BY <1>3, <3>1, <4>1
      <4> QED
        BY <4>2
    <3> QED
      BY <3>1
  <2>4. f \in [2..(N + 2) -> NodeIds(d)]
    BY <2>2
  <2> HIDE DEF f
  <2>5. f \in Injection(2..(N + 2), NodeIds(d))
    BY <2>3, <2>4 DEF Injection, IsInjective
  <2>6. Cardinality(2..(N + 2)) <= Cardinality(NodeIds(d))
    BY <1>2, <2>5, FS_Injection
  <2>7. Cardinality(2..(N + 2)) = N + 1
    <3>1. 2 \in Int /\ N + 2 \in Int
      BY <1>1
    <3>2. IsFiniteSet(2..(N + 2)) /\ Cardinality(2..(N + 2)) = IF 2 > N + 2 THEN 0 ELSE (N + 2) - 2 + 1
      BY <3>1, FS_Interval
    <3> QED
      BY <1>1, <3>2
  <2>8. Cardinality(NodeIds(d)) \in Nat
    BY <1>2, FS_CardinalityType
  <2> QED
    BY <1>1, <1>2, <2>6, <2>7, <2>8
<1>5. Min(free) \in free /\ free \subseteq Nat
  <2>1. free \subseteq Nat
    BY <1>1
  <2> HIDE DEF free
  <2> QED
    BY <1>4, <2>1, HasFirst
<1>6. CASE base \in NodeIds(d)
  <2>1. UniqueId(d, base) = Suffixed(base, Min(free))
    BY <1>6 DEF UniqueId, N
  <2>2. Min(free) \in Nat /\ Suffixed(base, Min(free)) \notin NodeIds(d)
    BY <1>5
  <2> HIDE DEF free
  <2>3. UniqueId(d, base) \in Identifiers /\ Last(UniqueId(d, base).name) = <<"suffix", Min(free)>>
    BY <1>3, <2>1, <2>2
  <2>4. "suffix" # "part"
    OBVIOUS
  <2> QED
    BY <2>1, <2>2, <2>3, <2>4, GivenIs
<1>7. CASE base \notin NodeIds(d)
  <2>1. UniqueId(d, base) = base
    BY <1>7 DEF UniqueId
  <2> QED
    BY <1>7, <2>1 DEF Given
<1> QED
  BY <1>6, <1>7

\* A sequence of one.
LEMMA OneIs ==
  ASSUME NEW S, NEW x \in S
  PROVE  <<x>> \in Seq(S) /\ Len(<<x>>) = 1 /\ Range(<<x>>) = {x}
<1>1. DOMAIN <<x>> = {1} /\ <<x>>[1] = x
  OBVIOUS
<1>2. Range(<<x>>) = {x}
  BY <1>1 DEF Range
<1> QED
  BY <1>2

\* A sequence between two ends.
Ahead(s, t) == s \o t
Between(first, s, last) == <<first>> \o s \o <<last>>

LEMMA AheadIs ==
  ASSUME NEW S, NEW s \in Seq(S), NEW t \in Seq(S)
  PROVE  /\ Ahead(s, t) \in Seq(S) /\ Len(Ahead(s, t)) = Len(s) + Len(t)
         /\ Range(Ahead(s, t)) = Range(s) \cup Range(t)
BY ConcatApart DEF Ahead

LEMMA BetweenIs ==
  ASSUME NEW S, NEW first \in S, NEW s \in Seq(S), NEW last \in S
  PROVE  /\ Between(first, s, last) \in Seq(S)
         /\ Len(Between(first, s, last)) = Len(s) + 2
         /\ Range(Between(first, s, last)) = {first, last} \cup Range(s)
<1> DEFINE one == <<first>>
           other == <<last>>
<1>1. Between(first, s, last) = Ahead(Ahead(one, s), other)
  BY DEF Between, Ahead
<1>2. one \in Seq(S) /\ other \in Seq(S)
  OBVIOUS
<1>3. Len(one) = 1 /\ Range(one) = {first} /\ Len(other) = 1 /\ Range(other) = {last} /\ Len(s) \in Nat
  BY OneIs
<1> HIDE DEF one, other
<1>4. /\ Ahead(one, s) \in Seq(S) /\ Len(Ahead(one, s)) = Len(one) + Len(s)
      /\ Range(Ahead(one, s)) = Range(one) \cup Range(s)
  BY <1>2, AheadIs
<1>5. \A t \in Seq(S) : /\ Ahead(t, other) \in Seq(S) /\ Len(Ahead(t, other)) = Len(t) + Len(other)
                        /\ Range(Ahead(t, other)) = Range(t) \cup Range(other)
  BY <1>2, AheadIs
<1> QED
  BY <1>1, <1>3, <1>4, <1>5

\* A chain of links is named after its ends.
LEMMA ChainIs ==
  ASSUME NEW ids \in Seq(Identifiers), Len(ids) >= 1, NEW n \in Nat, \A k \in DOMAIN ids : Given(ids[k], n)
  PROVE  Chain(ids) \in Seq(CanvasEdges) /\ \A id \in IdsIn(Chain(ids)) : Given(id, n)
<1> DEFINE N == Len(ids) - 1
           c == Chain(ids)
<1>1. N \in Nat /\ \A k \in 1..N : k \in DOMAIN ids /\ k + 1 \in DOMAIN ids
  OBVIOUS
<1>2. c = [k \in 1..N |-> Edge(Joined(ids[k], ids[k + 1]), ids[k], ids[k + 1])]
  BY DEF Chain
<1> HIDE DEF c, N
<1>3. ASSUME NEW k \in 1..N PROVE c[k] \in CanvasEdges /\ Given(c[k].id, n)
  <2>1. ids[k] \in Identifiers /\ ids[k + 1] \in Identifiers /\ Given(ids[k + 1], n)
    BY <1>1
  <2>2. Joined(ids[k], ids[k + 1]) \in Identifiers
        /\ Last(Joined(ids[k], ids[k + 1]).name) = Last(ids[k + 1].name)
    BY <2>1, JoinedIs
  <2>3. c[k] = [id |-> Joined(ids[k], ids[k + 1]), source |-> ids[k], target |-> ids[k + 1]]
    BY <1>2 DEF Edge
  <2>4. Given(Joined(ids[k], ids[k + 1]), n)
    BY <2>1, <2>2 DEF Given
  <2> QED
    BY <2>1, <2>2, <2>3, <2>4 DEF CanvasEdges
<1>4. c \in Seq(CanvasEdges) /\ DOMAIN c = 1..N
  <2>1. c \in [1..N -> CanvasEdges]
    BY <1>2, <1>3
  <2> QED
    BY <1>1, <2>1
<1> QED
  BY <1>3, <1>4 DEF IdsIn, c

\* The chain between two ends.
LEMMA WiresAre ==
  ASSUME NEW n \in Nat, NEW api \in Identifiers, NEW database \in Identifiers,
         Given(api, n), Given(database, n),
         NEW names \in Seq(Identifiers), \A x \in Range(names) : Given(x, n)
  PROVE  /\ Chain(Between(api, names, database)) \in Seq(CanvasEdges)
         /\ \A id \in IdsIn(Chain(Between(api, names, database))) : Given(id, n)
<1> DEFINE ids == Between(api, names, database)
<1>1. /\ ids \in Seq(Identifiers) /\ Len(ids) = Len(names) + 2
      /\ Range(ids) = {api, database} \cup Range(names)
  BY BetweenIs
<1>2. Len(names) \in Nat
  OBVIOUS
<1> HIDE DEF ids
<1>3. Len(ids) >= 1
  BY <1>1, <1>2
<1>4. \A x \in Range(ids) : Given(x, n)
  BY <1>1, Zenon
<1>5. \A k \in DOMAIN ids : Given(ids[k], n)
  BY <1>4 DEF Range
<1>6. Chain(ids) \in Seq(CanvasEdges) /\ \A id \in IdsIn(Chain(ids)) : Given(id, n)
  BY <1>1, <1>3, <1>5, ChainIs
<1> QED
  BY <1>6 DEF ids

\* New components between two there are, as far as the schema accepts it.
LEMMA InsertedIsSound ==
  ASSUME NEW d, NEW n \in Nat, DesignIsSound(d, n),
         NEW new \in Seq(CanvasNodes), \A k \in DOMAIN new : Given(new[k].id, n),
         NEW api \in NodeIds(d), NEW database \in NodeIds(d)
  PROVE  \A w :
           /\ w = [nodes |-> d.nodes \o new,
                   edges |-> d.edges \o Chain(<<api>> \o [k \in DOMAIN new |-> new[k].id] \o <<database>>)]
           /\ Parses(w)
           => DesignIsSound(w, n)
<1> DEFINE names == [k \in DOMAIN new |-> new[k].id]
           wires == Chain(Between(api, names, database))
<1>1. d \in Canvases /\ d.nodes \in Seq(CanvasNodes) /\ d.edges \in Seq(CanvasEdges)
      /\ api \in Identifiers /\ database \in Identifiers /\ Given(api, n) /\ Given(database, n)
  BY IdsAreIds DEF DesignIsSound
<1>2. names \in Seq(Identifiers) /\ \A x \in Range(names) : Given(x, n)
  <2>1. \A k \in DOMAIN new : new[k] \in CanvasNodes /\ new[k].id \in Identifiers
    <3>1. \A k \in DOMAIN new : new[k] \in CanvasNodes
      OBVIOUS
    <3> QED
      BY <3>1 DEF CanvasNodes
  <2>2. DOMAIN new = 1..Len(new) /\ Len(new) \in Nat
    OBVIOUS
  <2>3. names \in [1..Len(new) -> Identifiers]
    BY <2>1, <2>2
  <2>4. names \in Seq(Identifiers)
    BY <2>2, <2>3
  <2>5. \A k \in DOMAIN names : Given(names[k], n)
    OBVIOUS
  <2> HIDE DEF names
  <2> QED
    BY <2>4, <2>5 DEF Range
<1> HIDE DEF names
<1>5. wires \in Seq(CanvasEdges) /\ \A id \in IdsIn(wires) : Given(id, n)
  BY <1>1, <1>2, WiresAre, Zenon
<1> SUFFICES ASSUME NEW w, w = [nodes |-> d.nodes \o new, edges |-> d.edges \o wires], Parses(w)
             PROVE  DesignIsSound(w, n)
  BY DEF names, Between
<1> HIDE DEF wires
<1>4. w.nodes = d.nodes \o new /\ w.edges = d.edges \o wires /\ w = [nodes |-> w.nodes, edges |-> w.edges]
  OBVIOUS
<1>6. w.nodes \in Seq(CanvasNodes) /\ IdsIn(w.nodes) = IdsIn(d.nodes) \cup IdsIn(new)
  <2>1. d.nodes \o new \in Seq(CanvasNodes) /\ IdsIn(d.nodes \o new) = IdsIn(d.nodes) \cup IdsIn(new)
    BY <1>1, ConcatApart
  <2> QED
    BY <1>4, <2>1
<1>7. w.edges \in Seq(CanvasEdges) /\ IdsIn(w.edges) = IdsIn(d.edges) \cup IdsIn(wires)
  <2>1. d.edges \o wires \in Seq(CanvasEdges) /\ IdsIn(d.edges \o wires) = IdsIn(d.edges) \cup IdsIn(wires)
    BY <1>1, <1>5, ConcatApart
  <2> QED
    BY <1>4, <2>1
<1>8. w \in Canvases
  BY <1>4, <1>6, <1>7 DEF Canvases
<1>9. Apart(w.nodes) /\ Apart(w.edges) /\ EndsExist(w)
  <2>1. Cardinality(IdsIn(w.nodes)) = Len(w.nodes) /\ Cardinality(IdsIn(w.edges)) = Len(w.edges)
    BY IdsOfCanvas DEF Parses, UniqueIds
  <2> QED
    BY <1>6, <1>7, <2>1, ApartCounts DEF Parses
<1>10. \A id \in NodeIds(w) \cup EdgeIds(w) : Given(id, n)
  <2>1. \A id \in IdsIn(new) : Given(id, n)
    BY DEF IdsIn
  <2>2. \A id \in IdsIn(d.nodes) \cup IdsIn(d.edges) : Given(id, n)
    BY IdsOfCanvas DEF DesignIsSound
  <2> QED
    BY <1>5, <1>6, <1>7, <2>1, <2>2, IdsOfCanvas
<1> QED
  BY <1>8, <1>9, <1>10 DEF DesignIsSound

\* A base of a proposal.
LEMMA BaseIs ==
  ASSUME NEW word \in {"assisted-cache", "assisted-queue", "assisted-worker"}, NEW length \in Nat
  PROVE  Named(word, length) \in Identifiers /\ Last(Named(word, length).name)[1] # "part"
<1>1. word \in Spellings /\ 0 \in Nat /\ word # "part"
  BY DEF Spellings
<1>2. Named(word, length) \in Identifiers /\ Last(Named(word, length).name) = <<word, 0>>
  BY <1>1, SpelledIs DEF Named
<1> QED
  BY <1>1, <1>2

\* More replicas.
LEMMA StrengthenedIsSound ==
  ASSUME NEW d, NEW n \in Nat, DesignIsSound(d, n), NEW database, NEW w,
         w = [nodes |-> [k \in DOMAIN d.nodes |->
                IF d.nodes[k].id = database THEN [d.nodes[k] EXCEPT !.replicas = 2] ELSE d.nodes[k]],
              edges |-> d.edges]
  PROVE  DesignIsSound(w, n)
<1>1. d \in Canvases /\ d.nodes \in Seq(CanvasNodes) /\ d.edges \in Seq(CanvasEdges)
      /\ DOMAIN d.nodes = 1..Len(d.nodes) /\ Len(d.nodes) \in Nat
  BY IdsAreIds DEF DesignIsSound
<1>2. w.edges = d.edges /\ DOMAIN w.nodes = DOMAIN d.nodes /\ w = [nodes |-> w.nodes, edges |-> w.edges]
  OBVIOUS
<1>3. ASSUME NEW k \in DOMAIN d.nodes PROVE w.nodes[k] \in CanvasNodes /\ w.nodes[k].id = d.nodes[k].id
  <2>1. d.nodes[k] \in CanvasNodes /\ 2 \in Nat
    BY <1>1
  <2>2. w.nodes[k] = IF d.nodes[k].id = database THEN [d.nodes[k] EXCEPT !.replicas = 2] ELSE d.nodes[k]
    OBVIOUS
  <2> QED
    BY <2>1, <2>2 DEF CanvasNodes
<1>4. w.nodes \in Seq(CanvasNodes)
  <2>1. w.nodes = [k \in DOMAIN d.nodes |->
                IF d.nodes[k].id = database THEN [d.nodes[k] EXCEPT !.replicas = 2] ELSE d.nodes[k]]
    OBVIOUS
  <2>2. w.nodes \in [1..Len(d.nodes) -> CanvasNodes]
    BY <1>1, <1>3, <2>1
  <2> QED
    BY <1>1, <2>2
<1>5. w \in Canvases
  BY <1>1, <1>2, <1>4 DEF Canvases
<1>6. IdsIn(w.nodes) = IdsIn(d.nodes) /\ (Apart(d.nodes) => Apart(w.nodes))
  BY <1>2, <1>3 DEF IdsIn, Apart
<1>7. NodeIds(w) = NodeIds(d) /\ EdgeIds(w) = EdgeIds(d)
  BY <1>2, <1>6, IdsOfCanvas
<1> QED
  BY <1>2, <1>5, <1>6, <1>7 DEF DesignIsSound, EndsExist

LEMMA ProposedIsSound ==
  ASSUME NEW d, NEW n \in Nat, DesignIsSound(d, n), NEW proposal \in Proposals(d), "api" \in Kinds(d),
         Parses(Proposed(d, proposal))
  PROVE  DesignIsSound(Proposed(d, proposal), n)
<1> DEFINE api == FirstOf(d, "api")
           database == FirstOf(d, "database")
           cache == UniqueId(d, Named("assisted-cache", 14))
           queue == UniqueId(d, Named("assisted-queue", 14))
           worker == UniqueId(d, Named("assisted-worker", 15))
           w == Proposed(d, proposal)
<1>1. d \in Canvases /\ "database" \in Kinds(d) /\ proposal \in {"add-cache", "add-async-lane", "strengthen-replication"}
  BY DEF DesignIsSound, Proposals
<1>2. api \in NodeIds(d) /\ database \in NodeIds(d)
  BY <1>1, FirstIs
<1>3. /\ cache \in Identifiers /\ Given(cache, n)
      /\ queue \in Identifiers /\ Given(queue, n)
      /\ worker \in Identifiers /\ Given(worker, n)
  BY UniqueIs, BaseIs
<1> HIDE DEF cache, queue, worker, api, database
<1>4. CASE proposal = "add-cache"
  <2> DEFINE new == <<[id |-> cache, kind |-> "cache", replicas |-> 1]>>
  <2>1. w = [nodes |-> d.nodes \o new,
             edges |-> d.edges \o Chain(<<api>> \o [k \in DOMAIN new |-> new[k].id] \o <<database>>)]
    BY <1>4 DEF Proposed, cache, api, database
  <2>2. [id |-> cache, kind |-> "cache", replicas |-> 1] \in CanvasNodes
    BY <1>3 DEF CanvasNodes, Lengths
  <2>3. new \in Seq(CanvasNodes) /\ \A k \in DOMAIN new : Given(new[k].id, n)
    BY <1>3, <2>2
  <2> HIDE DEF new
  <2> QED
    BY <1>2, <2>1, <2>3, InsertedIsSound
<1>5. CASE proposal = "add-async-lane"
  <2> DEFINE first == [id |-> queue, kind |-> "queue", replicas |-> 2]
             second == [id |-> worker, kind |-> "worker", replicas |-> 0]
             new == <<first, second>>
  <2>1. w = [nodes |-> d.nodes \o new,
             edges |-> d.edges \o Chain(<<api>> \o [k \in DOMAIN new |-> new[k].id] \o <<database>>)]
    BY <1>5 DEF Proposed, queue, worker, api, database
  <2>2. first \in CanvasNodes /\ second \in CanvasNodes /\ Given(first.id, n) /\ Given(second.id, n)
    BY <1>3 DEF CanvasNodes, Lengths
  <2> HIDE DEF first, second
  <2>3. new \in Seq(CanvasNodes) /\ \A k \in DOMAIN new : Given(new[k].id, n)
    BY <2>2
  <2> HIDE DEF new
  <2> QED
    BY <1>2, <2>1, <2>3, InsertedIsSound
<1>6. CASE proposal = "strengthen-replication"
  <2>1. w = [nodes |-> [k \in DOMAIN d.nodes |->
                IF d.nodes[k].id = database THEN [d.nodes[k] EXCEPT !.replicas = 2] ELSE d.nodes[k]],
             edges |-> d.edges]
    BY <1>6 DEF Proposed, database
  <2> HIDE DEF w
  <2> QED
    BY <2>1, StrengthenedIsSound DEF w
<1> QED
  BY <1>1, <1>4, <1>5, <1>6

-----------------------------------------------------------------------------
(* The handlers keep the canvas and what undo brings back sound.           *)

LinksFit(l, known) ==
  /\ l.ids \in Seq(known) /\ l.primary \in Range(l.ids) \cup {NoId}
  /\ (l.primary = NoId) <=> (l.ids = <<>>)

\* The inductive invariant: what can be brought back is as sound as what is
\* shown, and no identifier ends in a part not given out yet.
EditSound(d, older, nodeIds, l, n) ==
  /\ n \in Nat /\ DesignIsSound(d, n)
  /\ older \in Seq(Canvases) /\ \A k \in DOMAIN older : DesignIsSound(older[k], n)
  /\ nodeIds \in Seq(NodeIds(d)) /\ LinksFit(l, EdgeIds(d))
EditInv == EditSound(canvas, past, selected, links, fresh)

\* What is kept of a selection exists.
LEMMA KeptIs ==
  ASSUME NEW T, NEW ids \in Seq(T), NEW known
  PROVE  Kept(ids, known) \in Seq(known) /\ Range(Kept(ids, known)) = Range(ids) \cap known
<1> DEFINE places == {k \in DOMAIN ids : ids[k] \in known}
           rest == Kept(ids, known)
<1>1. places \in SUBSET (1..Len(ids)) /\ rest = Keep(ids, places)
  BY DEF Kept
<1>2. rest \in Seq(T) /\ Range(rest) = {ids[k] : k \in places}
  <2> HIDE DEF places, rest
  <2> QED
    BY <1>1, KeepApart
<1>3. Range(rest) = Range(ids) \cap known
  <2> HIDE DEF rest
  <2> QED
    BY <1>2 DEF Range
<1> HIDE DEF rest
<1>4. rest \in Seq(known)
  <2>1. \A k \in 1..Len(rest) : rest[k] \in known
    BY <1>2, <1>3 DEF Range
  <2>2. rest \in [1..Len(rest) -> T] /\ Len(rest) \in Nat
    BY <1>2, LenProperties
  <2>3. rest \in [1..Len(rest) -> known]
    BY <2>1, <2>2
  <2> QED
    BY <2>2, <2>3
<1> QED
  BY <1>3, <1>4 DEF rest

\* An empty sequence, and the last of one that is not.
LEMMA LastOf ==
  ASSUME NEW T, NEW ids \in Seq(T)
  PROVE  /\ ids # <<>> => Last(ids) \in Range(ids)
         /\ Range(ids) \subseteq T
         /\ ids = <<>> <=> Range(ids) = {}
<1>1. DOMAIN ids = 1..Len(ids) /\ Len(ids) \in Nat
  OBVIOUS
<1>2. ids # <<>> => Len(ids) \in DOMAIN ids
  BY <1>1
<1>3. ids = <<>> => Range(ids) = {}
  BY DEF Range
<1>4. ids # <<>> => Last(ids) \in Range(ids)
  BY <1>2 DEF Last, Range
<1>5. Range(ids) \subseteq T
  BY <1>1 DEF Range
<1> QED
  BY <1>3, <1>4, <1>5

LEMMA KeptLinksFit ==
  ASSUME NEW T, NEW l, l.ids \in Seq(T), l.primary \in Range(l.ids) \cup {NoId}, NEW known, NoId \notin known
  PROVE  LinksFit(KeptLinks(l, known), known)
<1> DEFINE rest == Kept(l.ids, known)
           m == KeptLinks(l, known)
<1>1. rest \in Seq(known) /\ Range(rest) = Range(l.ids) \cap known
  BY KeptIs
<1>2. m.ids = rest /\ m.primary = IF l.primary \in known THEN l.primary
                                  ELSE IF rest = <<>> THEN NoId ELSE Last(rest)
  BY DEF KeptLinks
<1> HIDE DEF rest, m
<1>3. /\ rest # <<>> => Last(rest) \in Range(rest)
      /\ Range(rest) \subseteq known /\ (rest = <<>> <=> Range(rest) = {})
  BY <1>1, LastOf
<1>4. CASE l.primary \in known
  <2>1. l.primary # NoId /\ l.primary \in Range(rest)
    BY <1>1, <1>4
  <2> QED
    BY <1>1, <1>2, <1>3, <1>4, <2>1 DEF LinksFit, m
<1>5. CASE l.primary \notin known
  BY <1>1, <1>2, <1>3, <1>5 DEF LinksFit, m
<1> QED
  BY <1>4, <1>5

\* What undo brings back after one more edit.
LEMMA PastIs ==
  ASSUME NEW d \in Canvases, NEW older \in Seq(Canvases), NEW n \in Nat,
         DesignIsSound(d, n), \A k \in DOMAIN older : DesignIsSound(older[k], n)
  PROVE  LET rest == SubSeq(<<d>> \o older, 1, Min({Undone, Len(older) + 1}))
         IN rest \in Seq(Canvases) /\ \A k \in DOMAIN rest : DesignIsSound(rest[k], n)
<1> DEFINE all == <<d>> \o older
           m == Min({Undone, Len(older) + 1})
           rest == SubSeq(all, 1, m)
<1>1. Len(older) \in Nat /\ Undone \in Nat
  BY EditingAssumption
<1>2. all \in Seq(Canvases) /\ Len(all) = 1 + Len(older) /\ Range(all) = {d} \cup Range(older)
  <2> DEFINE one == <<d>>
  <2>1. one \in Seq(Canvases) /\ Len(one) = 1 /\ Range(one) = {d}
    BY OneIs
  <2> HIDE DEF one
  <2>0. one \in Seq(Canvases)
    BY <2>1
  <2>2. one \o older \in Seq(Canvases) /\ Len(one \o older) = Len(one) + Len(older)
        /\ Range(one \o older) = Range(one) \cup Range(older)
    BY <2>0, AheadIs DEF Ahead
  <2> QED
    BY <2>1, <2>2 DEF one
<1>3. m \in Nat /\ m <= Len(older) + 1
  <2> DEFINE both == {Undone, Len(older) + 1}
  <2>1. both \subseteq Nat /\ both # {}
    BY <1>1
  <2> HIDE DEF both
  <2>2. Min(both) \in both /\ \A x \in both : Min(both) <= x
    BY <2>1, HasFirst
  <2> QED
    BY <2>1, <2>2 DEF both
<1> HIDE DEF all, m
<1>4. \A k \in 1..Len(all) : DesignIsSound(all[k], n)
  <2>1. \A x \in Range(all) : DesignIsSound(x, n)
    BY <1>2 DEF Range
  <2>2. \A k \in 1..Len(all) : all[k] \in Range(all)
    BY <1>2 DEF Range
  <2> QED
    BY <2>1, <2>2
<1>5. rest \in Seq(Canvases) /\ Len(rest) = m /\ \A k \in 1..m : rest[k] = all[k] /\ k \in 1..Len(all)
  <2>1. rest = [k \in 1..m |-> all[k]]
    BY <1>1, <1>2, <1>3
  <2>2. \A k \in 1..m : k \in 1..Len(all) /\ all[k] \in Canvases
    BY <1>1, <1>2, <1>3
  <2> HIDE DEF rest
  <2> QED
    BY <1>3, <2>1, <2>2
<1> HIDE DEF rest
<1>6. \A k \in DOMAIN rest : DesignIsSound(rest[k], n)
  <2>1. DOMAIN rest = 1..m
    BY <1>5
  <2> QED
    BY <1>4, <1>5, <2>1
<1> QED
  BY <1>5, <1>6 DEF rest, all, m

\* A commit of a sound design, followed by the effects on the selection.
LEMMA DrawnKeeps ==
  ASSUME EditInv, NEW d, NEW n \in Nat, fresh <= n, DesignIsSound(d, n), Committed(d), fresh' = n,
         NEW T, NEW nodeIds \in Seq(T), NEW l, NEW U, l.ids \in Seq(U), l.primary \in Range(l.ids) \cup {NoId},
         Select(nodeIds, l)
  PROVE  EditInv'
<1>1. canvas' = d /\ past' = SubSeq(<<canvas>> \o past, 1, Min({Undone, Len(past) + 1}))
  BY DEF Committed
<1>2. /\ fresh \in Nat /\ DesignIsSound(canvas, fresh) /\ past \in Seq(Canvases)
      /\ \A k \in DOMAIN past : DesignIsSound(past[k], fresh)
  BY DEF EditInv, EditSound
<1>3. canvas \in Canvases /\ d \in Canvases /\ DesignIsSound(canvas, n)
      /\ \A k \in DOMAIN past : DesignIsSound(past[k], n)
  <2>1. canvas \in Canvases /\ d \in Canvases
    BY <1>2 DEF DesignIsSound
  <2>2. DesignIsSound(canvas, n)
    BY <1>2, SoundLater
  <2>3. \A k \in DOMAIN past : DesignIsSound(past[k], n)
    BY <1>2, SoundLater
  <2> QED
    BY <2>1, <2>2, <2>3
<1>4. past' \in Seq(Canvases) /\ \A k \in DOMAIN past' : DesignIsSound(past'[k], n)
  BY <1>1, <1>2, <1>3, PastIs
<1>5. selected' = Kept(nodeIds, NodeIds(d)) /\ links' = KeptLinks(l, EdgeIds(d))
  BY <1>1 DEF Select
<1>6. selected' \in Seq(NodeIds(d))
  BY <1>5, KeptIs
<1>7. NoId \notin EdgeIds(d)
  BY <1>3, IdsAreIds, EditingAssumption
<1>8. LinksFit(links', EdgeIds(d))
  BY <1>5, <1>7, KeptLinksFit
<1>9. EditSound(canvas', past', selected', links', fresh')
  BY <1>1, <1>4, <1>6, <1>8 DEF EditSound
<1> QED
  BY <1>9 DEF EditInv

\* The selection there is.
LEMMA SelectionIs ==
  ASSUME EditInv
  PROVE  /\ selected \in Seq(NodeIds(canvas)) /\ links.ids \in Seq(EdgeIds(canvas))
         /\ links.primary \in Range(links.ids) \cup {NoId}
         /\ fresh \in Nat /\ DesignIsSound(canvas, fresh) /\ canvas \in Canvases
BY DEF EditInv, EditSound, LinksFit, DesignIsSound

LEMMA NoLinkIs == NoLink.ids \in Seq({}) /\ NoLink.primary \in Range(NoLink.ids) \cup {NoId}
<1>1. <<>> \in Seq({})
  OBVIOUS
<1> QED
  BY <1>1 DEF NoLink

LEMMA AddKeeps ==
  ASSUME EditInv, NEW kind \in Palette, AddComponent(kind) PROVE EditInv'
<1> DEFINE node == NewNode(kind, fresh + 1)
           d == [nodes |-> Append(canvas.nodes, node), edges |-> canvas.edges]
<1>1. Committed(d) /\ Select(<<node.id>>, NoLink) /\ fresh' = fresh + 1
  BY DEF AddComponent
<1>2. fresh \in Nat /\ DesignIsSound(canvas, fresh) /\ kind \in DOMAIN Lengths
  BY SelectionIs, EditingAssumption
<1>3. DesignIsSound(d, fresh + 1) /\ node.id \in Identifiers
  BY <1>2, AddedIsSound
<1>4. <<node.id>> \in Seq(Identifiers)
  BY <1>3, OneIs
<1>5. fresh + 1 \in Nat /\ fresh <= fresh + 1
  BY <1>2
<1> HIDE DEF node, d
<1> QED
  BY <1>1, <1>3, <1>4, <1>5, NoLinkIs, DrawnKeeps

LEMMA ConnectKeeps ==
  ASSUME EditInv, NEW source \in NodeIds(canvas), NEW target \in NodeIds(canvas), OnConnect(source, target)
  PROVE  EditInv'
<1> DEFINE d == Connected(canvas, source, target, fresh + 1)
<1>1. Committed(d) /\ Select(selected, links) /\ fresh' = fresh + 1
  BY DEF OnConnect
<1>2. DesignIsSound(d, fresh + 1) /\ fresh + 1 \in Nat /\ fresh <= fresh + 1
  BY SelectionIs, ConnectedIsSound
<1> HIDE DEF d
<1> QED
  BY <1>1, <1>2, SelectionIs, DrawnKeeps

LEMMA RemoveKeeps ==
  ASSUME EditInv, NEW nodeIds, NEW edgeIds, RemoveElements(nodeIds, edgeIds) PROVE EditInv'
<1> DEFINE d == Without(canvas, nodeIds, edgeIds)
<1>1. Committed(d) /\ Select(<<>>, NoLink) /\ fresh' = fresh
  BY DEF RemoveElements
<1>2. DesignIsSound(d, fresh) /\ fresh \in Nat /\ fresh <= fresh
  BY SelectionIs, WithoutIsSound
<1>3. <<>> \in Seq({})
  OBVIOUS
<1> HIDE DEF d
<1> QED
  BY <1>1, <1>2, <1>3, NoLinkIs, DrawnKeeps

LEMMA ClearKeeps ==
  ASSUME EditInv, ClearArchitecture PROVE EditInv'
<1> DEFINE d == [nodes |-> <<>>, edges |-> <<>>]
<1>1. Committed(d) /\ Select(<<>>, NoLink) /\ fresh' = fresh
  BY DEF ClearArchitecture
<1>2. DesignIsSound(d, fresh) /\ fresh \in Nat /\ fresh <= fresh
  BY SelectionIs, EmptyIsSound
<1>3. <<>> \in Seq({})
  OBVIOUS
<1> HIDE DEF d
<1> QED
  BY <1>1, <1>2, <1>3, NoLinkIs, DrawnKeeps

LEMMA InPlaceKeeps ==
  ASSUME EditInv, EditInPlace PROVE EditInv'
<1>1. Committed(canvas) /\ Select(selected, links) /\ fresh' = fresh
  BY DEF EditInPlace
<1>2. fresh \in Nat /\ fresh <= fresh
  BY SelectionIs
<1> QED
  BY <1>1, <1>2, SelectionIs, DrawnKeeps

LEMMA DuplicateKeeps ==
  ASSUME EditInv, DuplicateSelection PROVE EditInv'
<1> DEFINE sourceIds == IF selected # <<>> THEN selected ELSE IF primary = NoId THEN <<>> ELSE <<primary>>
           T == NodeIds(canvas) \cup {primary}
           copies == Duplicated(canvas, sourceIds, fresh)
           m == Len(copies.nodes) - Len(canvas.nodes)
           ids == [k \in 1..m |-> copies.nodes[Len(canvas.nodes) + k].id]
           n == fresh + Len(sourceIds) + Len(Inner(canvas, Range(sourceIds)))
<1>1. Committed(copies) /\ Select(ids, links) /\ fresh' = n
  BY DEF DuplicateSelection
<1>2. fresh \in Nat /\ DesignIsSound(canvas, fresh) /\ selected \in Seq(NodeIds(canvas))
  BY SelectionIs
<1>3. sourceIds \in Seq(T)
  <2>1. selected \in Seq(T)
    BY <1>2
  <2>2. <<primary>> \in Seq(T) /\ <<>> \in Seq(T)
    OBVIOUS
  <2> HIDE DEF T
  <2> QED
    BY <2>1, <2>2
<1> HIDE DEF sourceIds, T
<1>4. /\ DesignIsSound(copies, n) /\ m \in Nat /\ Len(Inner(canvas, Range(sourceIds))) \in Nat
  BY <1>2, <1>3, DuplicatedIsSound
<1>5. n \in Nat /\ fresh <= n
  <2>1. Len(sourceIds) \in Nat
    BY <1>3
  <2> QED
    BY <1>2, <1>4, <2>1
<1> HIDE DEF copies, m, n
<1> DEFINE R == {copies.nodes[Len(canvas.nodes) + k].id : k \in 1..m}
<1>6. ids \in Seq(R)
  <2>1. ids \in [1..m -> R]
    OBVIOUS
  <2> HIDE DEF R, ids
  <2> QED
    BY <1>4, <2>1
<1> HIDE DEF ids, R
<1> QED
  BY <1>1, <1>4, <1>5, <1>6, SelectionIs, DrawnKeeps

LEMMA ProposalKeeps ==
  ASSUME EditInv, NEW proposal \in Proposals(canvas), ApplyTopologyProposal(proposal) PROVE EditInv'
<1> DEFINE d == Proposed(canvas, proposal)
<1>1. "api" \in Kinds(canvas) /\ fresh' = fresh
      /\ (IF Parses(d) THEN Committed(d) /\ Select(selected, links)
                       ELSE UNCHANGED <<canvas, past, selected, links, edits>>)
  BY DEF ApplyTopologyProposal
<1>2. CASE Parses(d)
  <2>1. DesignIsSound(d, fresh) /\ fresh \in Nat /\ fresh <= fresh
    BY <1>1, <1>2, SelectionIs, ProposedIsSound
  <2> HIDE DEF d
  <2> QED
    BY <1>1, <1>2, <2>1, SelectionIs, DrawnKeeps
<1>3. CASE ~Parses(d)
  BY <1>1, <1>3 DEF EditInv
<1> QED
  BY <1>2, <1>3

LEMMA UndoKeeps ==
  ASSUME EditInv, UndoEdit PROVE EditInv'
<1>1. past # <<>> /\ canvas' = Head(past) /\ past' = Tail(past) /\ Select(selected, links) /\ fresh' = fresh
  BY DEF UndoEdit
<1>2. past \in Seq(Canvases) /\ \A k \in DOMAIN past : DesignIsSound(past[k], fresh)
  BY DEF EditInv, EditSound
<1>3. DesignIsSound(canvas', fresh)
  <2>1. 1 \in DOMAIN past /\ Head(past) = past[1]
    BY <1>1, <1>2
  <2> QED
    BY <1>1, <1>2, <2>1
<1>4. past' \in Seq(Canvases) /\ \A k \in DOMAIN past' : DesignIsSound(past'[k], fresh)
  <2>1. Tail(past) \in Seq(Canvases) /\ Len(Tail(past)) = Len(past) - 1
        /\ \A k \in 1..Len(Tail(past)) : Tail(past)[k] = past[k + 1]
    BY <1>1, <1>2, HeadTailProperties
  <2>2. PICK rest \in Seq(Canvases) : rest = Tail(past)
    BY <2>1
  <2>3. \A k \in DOMAIN rest : rest[k] = past[k + 1] /\ k + 1 \in DOMAIN past
    BY <1>2, <2>1, <2>2
  <2> QED
    BY <1>1, <1>2, <2>2, <2>3
<1>5. selected' = Kept(selected, NodeIds(canvas')) /\ links' = KeptLinks(links, EdgeIds(canvas'))
  BY <1>1 DEF Select
<1>6. selected' \in Seq(NodeIds(canvas'))
  BY <1>5, SelectionIs, KeptIs
<1>7. NoId \notin EdgeIds(canvas')
  <2>1. canvas' \in Canvases
    BY <1>3 DEF DesignIsSound
  <2> QED
    BY <2>1, IdsAreIds, EditingAssumption
<1>8. LinksFit(links', EdgeIds(canvas'))
  BY <1>5, <1>7, SelectionIs, KeptLinksFit
<1>9. EditSound(canvas', past', selected', links', fresh')
  BY <1>1, <1>3, <1>4, <1>6, <1>8, SelectionIs DEF EditSound
<1> QED
  BY <1>9 DEF EditInv

\* A click on what there is.
LEMMA UnchosenIs ==
  ASSUME NEW T, NEW ids \in Seq(T), NEW id
  PROVE  Unchosen(ids, id) \in Seq(T) /\ Range(Unchosen(ids, id)) = Range(ids) \ {id}
<1> DEFINE places == {k \in DOMAIN ids : ids[k] # id}
           rest == Unchosen(ids, id)
<1>1. places \in SUBSET (1..Len(ids)) /\ rest = Keep(ids, places)
  BY DEF Unchosen
<1>2. rest \in Seq(T) /\ Range(rest) = {ids[k] : k \in places}
  <2> HIDE DEF places, rest
  <2> QED
    BY <1>1, KeepApart
<1> HIDE DEF rest
<1>3. Range(rest) = Range(ids) \ {id}
  BY <1>2 DEF Range
<1> QED
  BY <1>2, <1>3 DEF rest

LEMMA ToggleNodeKeeps ==
  ASSUME EditInv, NEW id \in NodeIds(canvas), ToggleNode(id) PROVE EditInv'
<1>1. selected' = (IF Contains(selected, id) THEN Unchosen(selected, id) ELSE Append(selected, id))
      /\ UNCHANGED <<canvas, past, links, fresh>>
  BY DEF ToggleNode
<1>2. selected' \in Seq(NodeIds(canvas))
  <2>1. selected \in Seq(NodeIds(canvas))
    BY SelectionIs
  <2>2. Unchosen(selected, id) \in Seq(NodeIds(canvas)) /\ Append(selected, id) \in Seq(NodeIds(canvas))
    BY <2>1, UnchosenIs
  <2> QED
    BY <1>1, <2>2
<1>3. EditSound(canvas, past, selected', links, fresh)
  BY <1>2 DEF EditInv, EditSound
<1> QED
  BY <1>1, <1>3 DEF EditInv

LEMMA ToggleEdgeKeeps ==
  ASSUME EditInv, NEW id \in EdgeIds(canvas), ToggleEdge(id) PROVE EditInv'
<1> DEFINE chosen == Contains(links.ids, id)
           ids == IF chosen THEN Unchosen(links.ids, id) ELSE Append(links.ids, id)
<1>1. /\ links'.ids = ids /\ UNCHANGED <<canvas, past, selected, fresh>>
      /\ links'.primary = IF ~chosen THEN id
                          ELSE IF Contains(ids, links.primary) THEN links.primary
                          ELSE IF ids = <<>> THEN NoId ELSE Last(ids)
  BY DEF ToggleEdge
<1>2. NoId \notin EdgeIds(canvas) /\ links.ids \in Seq(EdgeIds(canvas))
  BY SelectionIs, IdsAreIds, EditingAssumption
<1>3. ids \in Seq(EdgeIds(canvas)) /\ (~chosen => id \in Range(ids))
  <2>1. Unchosen(links.ids, id) \in Seq(EdgeIds(canvas))
    BY <1>2, UnchosenIs
  <2>2. Append(links.ids, id) \in Seq(EdgeIds(canvas)) /\ id \in Range(Append(links.ids, id))
    BY <1>2, AppendApart
  <2> HIDE DEF chosen
  <2> QED
    BY <2>1, <2>2
<1> HIDE DEF ids, chosen
<1>4. /\ ids # <<>> => Last(ids) \in Range(ids)
      /\ Range(ids) \subseteq EdgeIds(canvas) /\ (ids = <<>> <=> Range(ids) = {})
  BY <1>3, LastOf
<1>5. Contains(ids, links.primary) => links.primary \in Range(ids)
  BY <1>3 DEF Contains, Range
<1>6. LinksFit(links', EdgeIds(canvas))
  BY <1>1, <1>2, <1>3, <1>4, <1>5 DEF LinksFit
<1>7. EditSound(canvas, past, selected, links', fresh)
  BY <1>6 DEF EditInv, EditSound
<1> QED
  BY <1>1, <1>7 DEF EditInv

LEMMA EditInitSound == EditInit => EditInv
<1> SUFFICES ASSUME EditInit PROVE EditInv
  OBVIOUS
<1>1. canvas = DefaultDesign /\ past = <<>> /\ fresh = 0 /\ selected = <<>>
      /\ links.primary = NoId /\ links.ids = <<>>
  BY DEF EditInit
<1>2. DefaultDesign \in Canvases /\ UniqueIds(DefaultDesign) /\ EndsExist(DefaultDesign)
      /\ \A id \in NodeIds(DefaultDesign) \cup EdgeIds(DefaultDesign) : Given(id, 0)
  BY EditingAssumption
<1>3. Apart(DefaultDesign.nodes) /\ Apart(DefaultDesign.edges)
  <2>1. Cardinality(IdsIn(DefaultDesign.nodes)) = Len(DefaultDesign.nodes)
        /\ Cardinality(IdsIn(DefaultDesign.edges)) = Len(DefaultDesign.edges)
    BY <1>2, IdsOfCanvas DEF UniqueIds
  <2>2. DefaultDesign.nodes \in Seq(CanvasNodes) /\ DefaultDesign.edges \in Seq(CanvasEdges)
    BY <1>2, IdsAreIds
  <2> QED
    BY <2>1, <2>2, ApartCounts
<1>4. DesignIsSound(DefaultDesign, 0)
  BY <1>2, <1>3 DEF DesignIsSound
<1>5. LinksFit(links, EdgeIds(DefaultDesign))
  BY <1>1 DEF LinksFit
<1>6. <<>> \in Seq(Canvases) /\ DOMAIN <<>> = {} /\ <<>> \in Seq(NodeIds(DefaultDesign)) /\ 0 \in Nat
  OBVIOUS
<1> QED
  BY <1>1, <1>4, <1>5, <1>6 DEF EditInv, EditSound

LEMMA EditNextSound == EditInv /\ [EditNext]_editVars => EditInv'
<1> SUFFICES ASSUME EditInv, [EditNext]_editVars PROVE EditInv'
  OBVIOUS
<1>1. ASSUME NEW kind \in Palette, AddComponent(kind) PROVE EditInv'
  BY <1>1, AddKeeps
<1>2. ASSUME NEW source \in NodeIds(canvas), NEW target \in NodeIds(canvas), OnConnect(source, target)
      PROVE  EditInv'
  BY <1>2, ConnectKeeps
<1>3. CASE DuplicateSelection
  BY <1>3, DuplicateKeeps
<1>4. CASE RemoveElements(Range(selected), Range(links.ids)) \/ RemoveElements({primary} \ {NoId}, {})
  BY <1>4, RemoveKeeps
<1>5. CASE EditInPlace \/ ClearArchitecture \/ UndoEdit
  BY <1>5, InPlaceKeeps, ClearKeeps, UndoKeeps
<1>6. ASSUME NEW id \in NodeIds(canvas), ToggleNode(id) PROVE EditInv'
  BY <1>6, ToggleNodeKeeps
<1>7. ASSUME NEW id \in EdgeIds(canvas), ToggleEdge(id) PROVE EditInv'
  BY <1>7, ToggleEdgeKeeps
<1>8. ASSUME NEW proposal \in Proposals(canvas), ApplyTopologyProposal(proposal) PROVE EditInv'
  BY <1>8, ProposalKeeps
<1>9. CASE UNCHANGED editVars
  BY <1>9 DEF editVars, EditInv
<1> QED
  BY <1>1, <1>2, <1>3, <1>4, <1>5, <1>6, <1>7, <1>8, <1>9 DEF EditNext

LEMMA SoundGraph == EditInv => GraphIsSound
<1> SUFFICES ASSUME EditInv PROVE GraphIsSound
  OBVIOUS
<1>1. DesignIsSound(canvas, fresh) /\ canvas \in Canvases /\ selected \in Seq(NodeIds(canvas))
      /\ LinksFit(links, EdgeIds(canvas))
  BY DEF EditInv, EditSound, DesignIsSound
<1>2. UniqueIds(canvas)
  <2>1. canvas.nodes \in Seq(CanvasNodes) /\ canvas.edges \in Seq(CanvasEdges)
        /\ Apart(canvas.nodes) /\ Apart(canvas.edges)
    BY <1>1, IdsAreIds DEF DesignIsSound
  <2> QED
    BY <2>1, ApartCounts, IdsOfCanvas DEF UniqueIds
<1>3. Range(selected) \subseteq NodeIds(canvas) /\ Range(links.ids) \subseteq EdgeIds(canvas)
  BY <1>1, LastOf DEF LinksFit
<1> QED
  BY <1>1, <1>2, <1>3 DEF GraphIsSound, LinksFit, DesignIsSound

-----------------------------------------------------------------------------
(* Layout.                                                                 *)

\* A bounded set of natural numbers has a last one.
LEMMA HasLast ==
  ASSUME NEW S, S \subseteq Nat, NEW b \in Nat, \A x \in S : x <= b, S # {}
  PROVE  Max(S) \in S /\ \A x \in S : x <= Max(S)
<1> DEFINE T == {b - x : x \in S}
<1>1. T \subseteq Nat /\ T # {}
  <2>1. \A x \in S : b - x \in Nat
    OBVIOUS
  <2> QED
    BY <2>1
<1>2. Min(T) \in T /\ \A y \in T : Min(T) <= y
  <2> HIDE DEF T
  <2> QED
    BY <1>1, HasFirst
<1>3. PICK x \in S : Min(T) = b - x
  BY <1>2
<1>4. \A y \in S : x >= y
  <2>1. ASSUME NEW y \in S PROVE x >= y
    <3>1. b - y \in T /\ Min(T) <= b - y
      BY <1>2
    <3>2. x \in Nat /\ y \in Nat /\ b - x <= b - y
      BY <1>3, <3>1
    <3> QED
      BY <3>2
  <2> QED
    BY <2>1
<1> QED
  BY <1>4 DEF Max

\* The layers of a graph, as far as a number of them.
Layers(d, n, g) ==
  g = [k \in 0..n |-> IF k = 0 THEN [id \in Starts(d) |-> 0] ELSE Further(d, g[k - 1], k)]

LEMMA LayersExist ==
  ASSUME NEW d, NEW n \in Nat PROVE \E g : Layers(d, n, g)
<1> DEFINE Bad == {m \in Nat : ~\E g : Layers(d, m, g)}
<1>1. SUFFICES ASSUME Bad # {} PROVE FALSE
  OBVIOUS
<1> DEFINE m == Min(Bad)
<1>2. m \in Nat /\ (~\E g : Layers(d, m, g)) /\ \A x \in Nat : x < m => \E g : Layers(d, x, g)
  <2>1. Bad \subseteq Nat
    OBVIOUS
  <2>2. m \in Bad /\ \A x \in Bad : m <= x
    <3> HIDE DEF Bad
    <3> QED
      BY <1>1, <2>1, HasFirst
  <2> HIDE DEF m
  <2>3. \A x \in Nat : x < m => x \notin Bad
    BY <2>1, <2>2
  <2> QED
    BY <2>2, <2>3
<1> HIDE DEF m, Bad
<1> DEFINE start == [id \in Starts(d) |-> 0]
<1> HIDE DEF start
<1>3. m # 0
  <2>1. SUFFICES ASSUME m = 0 PROVE FALSE
    OBVIOUS
  <2> DEFINE g == [k \in 0..0 |-> start]
  <2>2. g = [k \in 0..0 |-> IF k = 0 THEN start ELSE Further(d, g[k - 1], k)]
    OBVIOUS
  <2>3. Layers(d, 0, g)
    BY <2>2 DEF Layers, start
  <2> QED
    BY <1>2, <2>1, <2>3
<1>4. m \in Nat /\ m - 1 \in Nat /\ m - 1 < m
  BY <1>2, <1>3
<1>5. PICK g : Layers(d, m - 1, g)
  BY <1>2, <1>4
<1> DEFINE h == [k \in 0..m |-> IF k < m THEN g[k] ELSE Further(d, g[m - 1], m)]
<1>6. g = [k \in 0..(m - 1) |-> IF k = 0 THEN start ELSE Further(d, g[k - 1], k)]
  BY <1>5 DEF Layers, start
<1>7. \A k \in 0..(m - 1) : g[k] = IF k = 0 THEN start ELSE Further(d, g[k - 1], k)
  BY <1>6
<1>8. ASSUME NEW k \in 0..m PROVE h[k] = IF k = 0 THEN start ELSE Further(d, h[k - 1], k)
  <2>1. CASE k = 0
    <3>1. k < m /\ k \in 0..(m - 1)
      BY <1>3, <1>4, <2>1
    <3> QED
      BY <1>7, <2>1, <3>1
  <2>2. CASE k # 0 /\ k < m
    <3>1. k \in 0..(m - 1) /\ k - 1 \in 0..m /\ k - 1 < m
      BY <1>4, <2>2
    <3>2. h[k] = g[k] /\ h[k - 1] = g[k - 1]
      BY <2>2, <3>1
    <3> QED
      BY <1>7, <2>2, <3>1, <3>2
  <2>3. CASE k = m
    <3>1. k # 0 /\ k - 1 \in 0..m /\ k - 1 < m /\ ~(k < m)
      BY <1>3, <1>4, <2>3
    <3>2. h[k - 1] = g[m - 1] /\ h[k] = Further(d, g[m - 1], m)
      BY <2>3, <3>1
    <3> QED
      BY <2>3, <3>1, <3>2
  <2> QED
    BY <1>4, <2>1, <2>2, <2>3
<1>9. Layers(d, m, h)
  <2>1. h = [k \in 0..m |-> h[k]]
    OBVIOUS
  <2> HIDE DEF h
  <2>2. h = [k \in 0..m |-> IF k = 0 THEN start ELSE Further(d, h[k - 1], k)]
    BY <1>8, <2>1
  <2> QED
    BY <2>2 DEF Layers, start
<1> QED
  BY <1>2, <1>9

LEMMA WithinIs ==
  ASSUME NEW d, Len(d.nodes) \in Nat PROVE Layers(d, Len(d.nodes), Within(d))
<1>1. Within(d) = CHOOSE g : Layers(d, Len(d.nodes), g)
  BY DEF Within, Layers
<1> QED
  BY <1>1, LayersExist

\* What is known of the components within some links of a start.
NearIsSound(d, near, k) ==
  /\ DOMAIN near # {}
  /\ \A id \in DOMAIN near : near[id] \in 0..k
  /\ \A e \in Range(d.edges) : e.source \in DOMAIN near /\ near[e.source] < k =>
       e.target \in DOMAIN near /\ near[e.target] <= near[e.source] + 1

LEMMA FurtherIsSound ==
  ASSUME NEW d, NEW near, NEW k \in Nat, NearIsSound(d, near, k)
  PROVE  NearIsSound(d, Further(d, near, k + 1), k + 1)
<1> DEFINE far == Further(d, near, k + 1)
<1>1. /\ DOMAIN far = DOMAIN near \cup Reached(d, near)
      /\ \A id \in DOMAIN near : far[id] = near[id]
      /\ \A id \in Reached(d, near) : id \notin DOMAIN near => far[id] = k + 1
  BY DEF Further
<1> HIDE DEF far
<1>2. /\ DOMAIN near # {} /\ \A id \in DOMAIN near : near[id] \in 0..k
      /\ \A e \in Range(d.edges) : e.source \in DOMAIN near /\ near[e.source] < k =>
           e.target \in DOMAIN near /\ near[e.target] <= near[e.source] + 1
  BY DEF NearIsSound
<1>3. \A id \in DOMAIN far : far[id] \in 0..(k + 1)
  BY <1>1, <1>2
<1>4. ASSUME NEW e \in Range(d.edges), e.source \in DOMAIN far, far[e.source] < k + 1
      PROVE  e.target \in DOMAIN far /\ far[e.target] <= far[e.source] + 1
  <2>1. e.source \in DOMAIN near /\ far[e.source] = near[e.source] /\ near[e.source] \in 0..k
    <3>1. k + 1 < k + 1 => FALSE
      OBVIOUS
    <3> QED
      BY <1>1, <1>2, <1>4, <3>1
  <2>2. CASE near[e.source] < k
    BY <1>1, <1>2, <2>1, <2>2
  <2>3. CASE near[e.source] = k
    <3>1. e.target \in Reached(d, near)
      BY <2>1 DEF Reached
    <3>2. far[e.target] \in 0..(k + 1)
      BY <1>1, <1>3, <3>1
    <3> QED
      BY <1>1, <2>1, <2>3, <3>1, <3>2
  <2> QED
    BY <2>1, <2>2, <2>3
<1> QED
  BY <1>1, <1>2, <1>3, <1>4 DEF NearIsSound, far

\* A design with components has somewhere to start.
LEMMA StartsAre ==
  ASSUME NEW d PROVE Starts(d) # {} /\ NearIsSound(d, [id \in Starts(d) |-> 0], 0)
<1>1. Starts(d) # {}
  BY DEF Starts
<1>2. \A id \in Starts(d) : [x \in Starts(d) |-> 0][id] = 0
  OBVIOUS
<1>3. ~(0 < 0)
  OBVIOUS
<1> QED
  BY <1>1, <1>2, <1>3 DEF NearIsSound

LEMMA DistancesAre ==
  ASSUME NEW d, Len(d.nodes) \in Nat PROVE NearIsSound(d, Distances(d), Len(d.nodes))
<1> DEFINE N == Len(d.nodes)
           W == Within(d)
           Bad == {k \in 0..N : ~NearIsSound(d, W[k], k)}
<1>1. \A k \in 0..N : W[k] = IF k = 0 THEN [id \in Starts(d) |-> 0] ELSE Further(d, W[k - 1], k)
  <2>1. Layers(d, N, W)
    BY WithinIs
  <2> HIDE DEF N, W
  <2> QED
    BY <2>1 DEF Layers
<1> HIDE DEF W
<1>2. Bad = {}
  <2>1. SUFFICES ASSUME Bad # {} PROVE FALSE
    OBVIOUS
  <2> DEFINE m == Min(Bad)
  <2>2. Bad \subseteq Nat
    OBVIOUS
  <2>3. m \in Bad /\ \A x \in Bad : m <= x
    <3> HIDE DEF Bad
    <3> QED
      BY <2>1, <2>2, HasFirst
  <2> HIDE DEF m
  <2>4. m \in 0..N /\ m \in Nat /\ ~NearIsSound(d, W[m], m)
    BY <2>3
  <2>5. m # 0
    BY <1>1, <2>4, StartsAre
  <2>6. m - 1 \in 0..N /\ m - 1 \in Nat /\ ~(m <= m - 1) /\ m - 1 + 1 = m
    BY <2>4, <2>5
  <2>7. NearIsSound(d, W[m - 1], m - 1)
    BY <2>3, <2>6
  <2>8. NearIsSound(d, Further(d, W[m - 1], m), m)
    BY <2>6, <2>7, FurtherIsSound
  <2> QED
    BY <1>1, <2>4, <2>5, <2>8
<1>3. N \in 0..N
  OBVIOUS
<1>4. NearIsSound(d, W[N], N)
  BY <1>2, <1>3
<1> QED
  BY <1>4 DEF Distances, W

\* The columns: numbers, that of a component without a way to it past all others.
LEMMA ColumnsAre ==
  ASSUME NEW d, Len(d.nodes) \in Nat, DOMAIN d.nodes = 1..Len(d.nodes)
  PROVE  LET distance == Distances(d)
             far == Max(Range(distance))
         IN /\ far \in 0..Len(d.nodes) /\ \A id \in DOMAIN distance : distance[id] <= far
            /\ \A k \in 1..Len(d.nodes) : Column(d)[k] =
                 IF d.nodes[k].id \in DOMAIN distance THEN distance[d.nodes[k].id] ELSE far + 1
            /\ Column(d) \in [1..Len(d.nodes) -> Nat]
<1> DEFINE N == Len(d.nodes)
           distance == Distances(d)
           far == Max(Range(distance))
<1>1. DOMAIN distance # {} /\ \A id \in DOMAIN distance : distance[id] \in 0..N
  BY DistancesAre DEF NearIsSound
<1>2. Column(d) = [k \in 1..N |-> IF d.nodes[k].id \in DOMAIN distance THEN distance[d.nodes[k].id] ELSE far + 1]
  BY DEF Column
<1> HIDE DEF distance
<1>3. far \in Range(distance) /\ \A x \in Range(distance) : x <= far
  <2>1. Range(distance) \subseteq Nat /\ Range(distance) # {} /\ \A x \in Range(distance) : x <= N
    BY <1>1 DEF Range
  <2> DEFINE S == Range(distance)
  <2>2. S \subseteq Nat /\ S # {} /\ \A x \in S : x <= N
    BY <2>1
  <2> HIDE DEF S
  <2>3. Max(S) \in S /\ \A x \in S : x <= Max(S)
    BY <2>2, HasLast
  <2> QED
    BY <2>3 DEF S
<1>4. far \in 0..N /\ \A id \in DOMAIN distance : distance[id] <= far
  BY <1>1, <1>3 DEF Range
<1> HIDE DEF far
<1>5. Column(d) \in [1..N -> Nat]
  <2>1. ASSUME NEW k \in 1..N
        PROVE  (IF d.nodes[k].id \in DOMAIN distance THEN distance[d.nodes[k].id] ELSE far + 1) \in Nat
    BY <1>1, <1>4
  <2> QED
    BY <1>2, <2>1
<1>6. \A k \in 1..N : Column(d)[k] = IF d.nodes[k].id \in DOMAIN distance THEN distance[d.nodes[k].id] ELSE far + 1
  BY <1>2
<1> QED
  BY <1>4, <1>5, <1>6 DEF far, distance

\* In a column, each component is in a later row than those before it.
LEMMA RowsGrow ==
  ASSUME NEW d, Len(d.nodes) \in Nat, DOMAIN d.nodes = 1..Len(d.nodes)
  PROVE  /\ Row(d) \in [1..Len(d.nodes) -> Nat]
         /\ \A j, k \in 1..Len(d.nodes) : j < k /\ Column(d)[j] = Column(d)[k] => Row(d)[j] < Row(d)[k]
<1> DEFINE N == Len(d.nodes)
           column == Column(d)
           before(k) == {j \in 1..(k - 1) : column[j] = column[k]}
<1>1. Row(d) = [k \in 1..N |-> Cardinality(before(k))]
  BY DEF Row
<1>2. ASSUME NEW k \in 1..N PROVE IsFiniteSet(before(k)) /\ Cardinality(before(k)) \in Nat
  <2>1. k - 1 \in Int
    OBVIOUS
  <2>2. IsFiniteSet(1..(k - 1))
    BY <2>1, FS_Interval
  <2>3. before(k) \subseteq 1..(k - 1)
    OBVIOUS
  <2>4. IsFiniteSet(before(k))
    BY <2>2, <2>3, FS_Subset
  <2> HIDE DEF before
  <2> QED
    BY <2>4, FS_CardinalityType
<1>3. ASSUME NEW j \in 1..N, NEW k \in 1..N, j < k, column[j] = column[k]
      PROVE  Cardinality(before(j)) < Cardinality(before(k))
  <2>1. before(j) \cup {j} \subseteq before(k) /\ j \notin before(j)
    <3>1. j \in 1..(k - 1) /\ ~(j \in 1..(j - 1)) /\ 1..(j - 1) \subseteq 1..(k - 1)
      BY <1>3
    <3> QED
      BY <1>3, <3>1
  <2>2. IsFiniteSet(before(j)) /\ IsFiniteSet(before(k)) /\ Cardinality(before(j)) \in Nat
        /\ Cardinality(before(k)) \in Nat
    BY <1>2
  <2> HIDE DEF before
  <2>3. IsFiniteSet(before(j) \cup {j}) /\ Cardinality(before(j) \cup {j}) = Cardinality(before(j)) + 1
    BY <2>1, <2>2, FS_AddElement
  <2>4. Cardinality(before(j) \cup {j}) <= Cardinality(before(k))
    BY <2>1, <2>2, FS_Subset
  <2> QED
    BY <2>2, <2>3, <2>4
<1> HIDE DEF before, column
<1>4. Row(d) \in [1..N -> Nat] /\ \A k \in 1..N : Row(d)[k] = Cardinality(before(k))
  BY <1>1, <1>2
<1> QED
  BY <1>3, <1>4 DEF column

\* No component is as wide as a column or as high as a row is apart.
LEMMA SizesAre ==
  ASSUME NEW kind PROVE Width(kind) \in 142..220 /\ Height(kind) \in 112..118
BY DEF Width, Height

LEMMA NoneOverlap ==
  ASSUME NEW d, Len(d.nodes) \in Nat, DOMAIN d.nodes = 1..Len(d.nodes),
         NEW j \in 1..Len(d.nodes), NEW k \in 1..Len(d.nodes), j < k
  PROVE  ~Overlap(d, Layout(d), j, k) /\ ~Overlap(d, Layout(d), k, j)
<1> DEFINE at == Layout(d)
           c == Column(d)
           r == Row(d)
<1>1. c \in [1..Len(d.nodes) -> Nat] /\ r \in [1..Len(d.nodes) -> Nat]
      /\ (c[j] = c[k] => r[j] < r[k])
  BY ColumnsAre, RowsGrow
<1>2. /\ at[j].x = 70 + c[j] * 230 /\ at[j].y = 72 + r[j] * 152
      /\ at[k].x = 70 + c[k] * 230 /\ at[k].y = 72 + r[k] * 152
  BY DEF Layout
<1> HIDE DEF at, c, r
<1> DEFINE cj == c[j]
           ck == c[k]
           rj == r[j]
           rk == r[k]
           wj == Width(d.nodes[j].kind)
           wk == Width(d.nodes[k].kind)
           hj == Height(d.nodes[j].kind)
           hk == Height(d.nodes[k].kind)
<1>3. cj \in Nat /\ ck \in Nat /\ rj \in Nat /\ rk \in Nat /\ (cj = ck => rj < rk)
  BY <1>1
<1>4. wj \in 142..220 /\ wk \in 142..220 /\ hj \in 112..118 /\ hk \in 112..118
  BY SizesAre
<1>5. /\ at[j].x = 70 + cj * 230 /\ at[j].y = 72 + rj * 152
      /\ at[k].x = 70 + ck * 230 /\ at[k].y = 72 + rk * 152
  BY <1>2
<1>6. /\ Overlap(d, at, j, k) <=> /\ at[j].x < at[k].x + wk /\ at[k].x < at[j].x + wj
                                  /\ at[j].y < at[k].y + hk /\ at[k].y < at[j].y + hj
      /\ Overlap(d, at, k, j) <=> /\ at[k].x < at[j].x + wj /\ at[j].x < at[k].x + wk
                                  /\ at[k].y < at[j].y + hj /\ at[j].y < at[k].y + hk
  BY DEF Overlap
<1> HIDE DEF cj, ck, rj, rk, wj, wk, hj, hk
<1>7. CASE cj = ck
  BY <1>3, <1>4, <1>5, <1>6, <1>7 DEF at
<1>8. CASE cj < ck
  BY <1>3, <1>4, <1>5, <1>6, <1>8 DEF at
<1>9. CASE ck < cj
  BY <1>3, <1>4, <1>5, <1>6, <1>9 DEF at
<1> QED
  BY <1>3, <1>7, <1>8, <1>9

LEMMA SoundLayout ==
  ASSUME NEW d \in Canvases, EndsExist(d) PROVE LaysOut(d)
<1> DEFINE N == Len(d.nodes)
           distance == Distances(d)
           far == Max(Range(distance))
           place(id) == CHOOSE k \in DOMAIN d.nodes : d.nodes[k].id = id
<1>1. N \in Nat /\ DOMAIN d.nodes = 1..N
  BY IdsAreIds
<1>2. \A j, k \in DOMAIN d.nodes : j # k => ~Overlap(d, Layout(d), j, k)
  <2>1. ASSUME NEW j \in 1..N, NEW k \in 1..N, j # k PROVE ~Overlap(d, Layout(d), j, k)
    <3>1. CASE j < k
      BY <1>1, <3>1, NoneOverlap
    <3>2. CASE k < j
      BY <1>1, <3>2, NoneOverlap
    <3> QED
      BY <1>1, <2>1, <3>1, <3>2
  <2> QED
    BY <1>1, <2>1
<1>3. /\ far \in 0..N /\ \A id \in DOMAIN distance : distance[id] <= far
      /\ \A k \in 1..N : Column(d)[k] =
           IF d.nodes[k].id \in DOMAIN distance THEN distance[d.nodes[k].id] ELSE far + 1
  BY <1>1, ColumnsAre
<1>4. /\ \A id \in DOMAIN distance : distance[id] \in 0..N
      /\ \A e \in Range(d.edges) : e.source \in DOMAIN distance /\ distance[e.source] < N =>
           e.target \in DOMAIN distance /\ distance[e.target] <= distance[e.source] + 1
  BY <1>1, DistancesAre DEF NearIsSound
<1> HIDE DEF distance, far
<1>5. ASSUME NEW e \in Range(d.edges), e.source \in DOMAIN distance
      PROVE  Column(d)[place(e.target)] <= Column(d)[place(e.source)] + 1
  <2>1. e.source \in IdsIn(d.nodes) /\ e.target \in IdsIn(d.nodes)
    BY EndsOf
  <2>2. /\ place(e.source) \in 1..N /\ d.nodes[place(e.source)].id = e.source
        /\ place(e.target) \in 1..N /\ d.nodes[place(e.target)].id = e.target
    BY <1>1, <2>1 DEF IdsIn
  <2> HIDE DEF place
  <2>3. Column(d)[place(e.source)] = distance[e.source]
    BY <1>3, <1>5, <2>2
  <2>4. Column(d)[place(e.target)] = IF e.target \in DOMAIN distance THEN distance[e.target] ELSE far + 1
    BY <1>3, <2>2
  <2>5. distance[e.source] \in 0..N /\ distance[e.source] <= far
    BY <1>3, <1>4, <1>5
  <2>6. CASE distance[e.source] < N
    BY <1>4, <1>5, <2>3, <2>4, <2>6
  <2>7. CASE distance[e.source] = N
    <3>1. e.target \in DOMAIN distance => distance[e.target] \in 0..N
      BY <1>4
    <3> QED
      BY <1>1, <1>3, <2>3, <2>4, <2>5, <2>7, <3>1
  <2> QED
    BY <1>1, <2>5, <2>6, <2>7
<1> QED
  BY <1>2, <1>5 DEF LaysOut, distance, place

-----------------------------------------------------------------------------
(* The canvas.                                                             *)

\* However a design was edited, copied, undone and proposed for, its links join
\* components it has, its identifiers differ, what is selected exists, and a
\* layout shows every component by itself (pages/LabPage.tsx and
\* lib/architectureEditing.ts).
THEOREM CanvasHolds == EditSpec => []CanvasIsSound
<1>1. EditInv => CanvasIsSound
  <2>1. ASSUME EditInv PROVE canvas \in Canvases /\ EndsExist(canvas)
    BY <2>1 DEF EditInv, EditSound, DesignIsSound
  <2> QED
    BY <2>1, SoundGraph, SoundLayout DEF CanvasIsSound, LayoutIsClear
<1> QED
  BY <1>1, EditInitSound, EditNextSound, PTL DEF EditSpec
=============================================================================
