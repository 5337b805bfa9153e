---------------------------- MODULE RunEvidence ----------------------------
(***************************************************************************)
(* What a completed run leaves behind: the artifact that is made of it     *)
(* (lib/completedRun.ts), the replay bundle that is written to a file and  *)
(* read again, perhaps in another browser or by another build              *)
(* (lib/replayBundle.ts), the replays and forks that start from either     *)
(* (store/useLabStore.ts), and the comparison of two bundles               *)
(* (lib/replayComparison.ts).                                              *)
(*                                                                         *)
(* A simulation is a function of the build, the design and the schedule of *)
(* actions, so its result is the record of these, and a digest is what it  *)
(* is taken of.  Requests that overlap are in LocalSession, LabStore and   *)
(* ReplayConsole; here every one is answered at once.                      *)
(***************************************************************************)
EXTENDS Integers, Sequences, FiniteSets, SequencesExt

CONSTANTS
  Browsers,     \* records: engine version, profile registry, crypto.subtle or none
  Drafts,       \* records: a design (a scenario with its architecture), and whether
                \* it holds hidden requirements or notes of the interviewer
  TooLarge,     \* the designs whose bundle exceeds the limit
  MaxCompleted, MaxFiles, MaxActions, MaxMoves,   \* bounds: runs, files, actions, moves
  NoEvidenceYet \* no artifact, no run, no bundle ...

ASSUME EvidenceAssumption ==
  /\ \A b \in Browsers : b.subtle \in BOOLEAN
  /\ \A d \in Drafts : d = [design |-> d.design, private |-> d.private] /\ d.private \in BOOLEAN

VARIABLES
  browser,      \* where the files are read and the runs are made
  lab,          \* the design shown
  run,          \* the run under way: its inputs, its actions and what it replays
  finished,     \* completedRunArtifact
  disk,         \* the files
  opened,       \* the bundle that the Replay page has read
  transfer,     \* pendingImportedReplay
  compared,     \* the result of comparing two bundles
  made,         \* history: every run that was completed
  forks, moves  \* completedRunForkSequence; changes of browser

evidenceVars ==
  <<browser, lab, run, finished, disk, opened, transfer, compared, made, forks, moves>>

Nil == NoEvidenceYet

EvidenceInit ==
  /\ browser \in Browsers
  /\ lab \in Drafts
  /\ run = Nil /\ finished = Nil /\ disk = {} /\ opened = Nil /\ transfer = Nil
  /\ compared = Nil /\ made = {} /\ forks = 0 /\ moves = 0

-----------------------------------------------------------------------------
(* The artifact.                                                            *)

Simulated(inputs, actions) ==
  [engine |-> browser.engine, profiles |-> browser.profiles, inputs |-> inputs, actions |-> actions]

\* Without crypto.subtle, or when the source has no SHA-256, the fallback is used.
DigestOf(result, subtle) ==
  [algorithm |-> IF subtle THEN "sha256-result-json-v1" ELSE "fnv1a64-result-json-v1", value |-> result]

\* completedRunReplaySourceFromBundle; of an artifact, its own fields are used.
SourceOf(evidence) ==
  [id |-> evidence.id, inputs |-> evidence.inputs, actions |-> evidence.actions, digest |-> evidence.digest]

SameAsSource(inputs, actions, source) == inputs = source.inputs /\ actions = source.actions

CreateArtifact(id, subtle) ==
  LET digest == DigestOf(Simulated(run.inputs, run.actions), subtle)
      identical == SameAsSource(run.inputs, run.actions, run.source)
      matched == digest = run.source.digest
  IN [id |-> id, engine |-> browser.engine, profiles |-> browser.profiles,
      inputs |-> run.inputs, actions |-> run.actions, digest |-> digest,
      replay |-> IF run.source = Nil THEN Nil
                 ELSE [source |-> run.source.id, identicalInputs |-> identical,
                       resultDigestMatched |-> matched, verified |-> identical /\ matched]]

-----------------------------------------------------------------------------
(* The bundle.  A file that is one has these fields, and its digests.       *)

CandidateSafe(inputs) == [inputs EXCEPT !.private = FALSE]
ExportAllowed == ~finished.inputs.private

Payload(evidence) ==
  [version |-> 1, id |-> evidence.id, about |-> evidence.inputs.design, engine |-> evidence.engine,
   profiles |-> [registry |-> evidence.profiles, of |-> evidence.inputs.design],
   digest |-> evidence.digest, inputs |-> CandidateSafe(evidence.inputs), actions |-> evidence.actions]

\* digestValue, of the canonical text: two values have one digest only if they are equal.
Sha256(value) == [algorithm |-> "sha256-canonical-json-v1", of |-> value]

Integrity(payload) ==
  [inputs |-> Sha256(payload.inputs), actions |-> Sha256(payload.actions), payload |-> Sha256(payload)]

\* A completed-run manifest is another kind of file; a damaged file is not JSON.
Form == {"bundle", "manifest", "damaged"}
\* What is said of the source is of the inputs beside it.
IdentityFits(p) == p.about = p.inputs.design
ProfilesFit(p) == p.profiles.of = p.inputs.design
File(form, payload, integrity) == [form |-> form, payload |-> payload, integrity |-> integrity]
Intact(file) == file.form = "bundle" /\ file.integrity = Integrity(file.payload)

\* parseReplayPayload and parseCompletedRunReplayBundle, in the order of their errors.
Refusal(file) ==
  LET p == file.payload
  IN CASE p.inputs.design \in TooLarge -> "too-large"
       [] file.form = "damaged" -> "invalid-json"
       [] file.form = "manifest" -> "manifest-only"
       [] p.version # 1 -> "unsupported-version"
       [] p.inputs.private -> "private-content"
       [] ~IdentityFits(p) \/ ~ProfilesFit(p) -> "invalid-shape"
       [] ~browser.subtle -> "digest-unavailable"
       [] file.integrity # Integrity(p) -> "integrity-mismatch"
       [] OTHER -> "none"

Bundle(payload) ==
  [id |-> payload.id, engine |-> payload.engine, profiles |-> payload.profiles.registry,
   inputs |-> payload.inputs, actions |-> payload.actions, digest |-> payload.digest]

\* Mutant: the engine alone decides.
SameEngine(bundle) == bundle.engine = browser.engine

Compatible(bundle) == bundle.engine = browser.engine /\ bundle.profiles = browser.profiles

-----------------------------------------------------------------------------
(* What the user does.                                                      *)

EditDraft(inputs) ==
  /\ lab' = inputs /\ lab' # lab
  /\ run' = Nil
  /\ UNCHANGED <<browser, finished, disk, opened, transfer, compared, made, forks, moves>>

RunFrom(inputs, actions, source) == run' = [inputs |-> inputs, actions |-> actions, source |-> source]

StartRun ==
  /\ Cardinality(made) < MaxCompleted
  /\ RunFrom(lab, <<>>, Nil)
  /\ UNCHANGED <<browser, lab, finished, disk, opened, transfer, compared, made, forks, moves>>

TakeAction ==
  /\ run # Nil /\ Len(run.actions) < MaxActions
  /\ run' = [run EXCEPT !.actions = Append(@, Len(@) + 1)]
  /\ UNCHANGED <<browser, lab, finished, disk, opened, transfer, compared, made, forks, moves>>

\* digestCompletedRunResult: a SHA-256 that cannot be made is replaced by the fallback.
RunCompletes(subtle) ==
  LET id == Cardinality(made) + 1
  IN /\ run # Nil
     /\ finished' = CreateArtifact(id, subtle) /\ run' = Nil
     /\ made' = made \cup {[id |-> id, subtle |-> subtle, result |-> Simulated(run.inputs, run.actions)]}
     /\ UNCHANGED <<browser, lab, disk, opened, transfer, compared, forks, moves>>

\* downloadCompletedRunReplayBundle: digests cannot be made without crypto.subtle.
Export ==
  /\ finished # Nil /\ ExportAllowed /\ browser.subtle /\ finished.inputs.design \notin TooLarge
  /\ \E kept \in SUBSET disk :
       disk' = kept \cup {File("bundle", Payload(finished), Integrity(Payload(finished)))}
  /\ Cardinality(disk') <= MaxFiles
  /\ UNCHANGED <<browser, lab, run, finished, opened, transfer, compared, made, forks, moves>>

\* A file as it is, or a copy that was cut off, taken for another kind of file or
\* edited by hand.
Copies(file) ==
  LET p == file.payload
  IN {file} \cup {[file EXCEPT !.form = form] : form \in Form} \cup
     {[file EXCEPT !.payload = changed] : changed \in
        UNION {{[p EXCEPT !.inputs = d],
                [p EXCEPT !.inputs = d, !.about = d.design, !.profiles.of = d.design]} : d \in Drafts} \cup
        {[p EXCEPT !.engine = b.engine, !.profiles.registry = b.profiles] : b \in Browsers} \cup
        {[p EXCEPT !.actions = <<>>], [p EXCEPT !.id = @ + 1], [p EXCEPT !.version = 2],
         [p EXCEPT !.digest.algorithm = "fnv1a64-result-json-v1"]}}

OpenFile(file) ==
  /\ opened' = IF Refusal(file) = "none" THEN Bundle(file.payload) ELSE Nil
  /\ compared' = Nil
  /\ UNCHANGED <<browser, lab, run, finished, disk, transfer, made, forks, moves>>

\* recomputedDigestForSource and summarizeSynchronizedReplayComparison, of one branch.
Reproduced(bundle) ==
  bundle.digest = DigestOf(Simulated(bundle.inputs, bundle.actions),
                           browser.subtle /\ bundle.digest.algorithm # "fnv1a64-result-json-v1")

InputsMatch(bundle, other) == bundle.inputs = other.inputs /\ bundle.actions = other.actions

\* compareCompletedRunReplayBundles, and the worker unless a build does not fit.
Compare(file) ==
  /\ opened # Nil /\ Compatible(opened)
  /\ Refusal(file) = "none"
  /\ LET other == Bundle(file.payload)
     IN compared' = [source |-> opened.id, comparison |-> other.id,
                     sameInputs |-> InputsMatch(opened, other),
                     verified |-> IF Compatible(other) THEN {Reproduced(opened) /\ Reproduced(other)} ELSE {}]
  /\ UNCHANGED <<browser, lab, run, finished, disk, opened, transfer, made, forks, moves>>

ReplayArtifact ==
  /\ finished # Nil /\ Cardinality(made) < MaxCompleted
  /\ lab' = finished.inputs
  /\ RunFrom(finished.inputs, finished.actions, SourceOf(finished))
  /\ UNCHANGED <<browser, finished, disk, opened, transfer, compared, made, forks, moves>>

QueueImportedReplay ==
  /\ opened # Nil /\ Compatible(opened)
  /\ transfer' = [bundle |-> opened, late |-> FALSE]
  /\ UNCHANGED <<browser, lab, run, finished, disk, opened, compared, made, forks, moves>>

\* IMPORTED_REPLAY_INTENT_TTL_MS
TransferIsLate ==
  /\ transfer # Nil /\ ~transfer.late
  /\ transfer' = [transfer EXCEPT !.late = TRUE]
  /\ UNCHANGED <<browser, lab, run, finished, disk, opened, compared, made, forks, moves>>

ConsumeImportedReplay ==
  /\ transfer # Nil /\ transfer' = Nil
  /\ LET bundle == transfer.bundle
     IN IF transfer.late \/ ~Compatible(bundle) THEN UNCHANGED <<lab, run, finished>>
        ELSE /\ Cardinality(made) < MaxCompleted
             /\ lab' = CandidateSafe(bundle.inputs) /\ finished' = Nil
             /\ RunFrom(lab', bundle.actions, SourceOf(bundle))
  /\ UNCHANGED <<browser, disk, opened, compared, made, forks, moves>>

\* A fork is a new design with the inputs of the old one; nothing of the run is in it.
ForkRun ==
  /\ finished # Nil /\ forks < 1
  /\ forks' = forks + 1
  /\ lab' = [finished.inputs EXCEPT !.design = <<@, "fork", forks'>>]
  /\ run' = Nil
  /\ UNCHANGED <<browser, finished, disk, opened, transfer, compared, made, moves>>

\* The files are taken to another browser, or the service deploys another build:
\* the page is loaded, with the design that was saved or with another.
MoveTo(another) ==
  /\ moves < MaxMoves /\ another # browser
  /\ moves' = moves + 1 /\ browser' = another
  /\ lab' = CandidateSafe(lab)
  /\ run' = Nil /\ finished' = Nil /\ opened' = Nil /\ transfer' = Nil /\ compared' = Nil /\ forks' = 0
  /\ UNCHANGED <<disk, made>>

EvidenceNext ==
  \/ \E inputs \in Drafts : EditDraft(inputs)
  \/ StartRun \/ TakeAction
  \/ \E subtle \in {browser.subtle, FALSE} : RunCompletes(subtle)
  \/ Export
  \/ \E file \in disk : \E copy \in Copies(file) : OpenFile(copy) \/ Compare(copy)
  \/ ReplayArtifact \/ QueueImportedReplay \/ TransferIsLate \/ ConsumeImportedReplay
  \/ ForkRun
  \/ \E another \in Browsers : MoveTo(another)

EvidenceSpec == EvidenceInit /\ [][EvidenceNext]_evidenceVars

-----------------------------------------------------------------------------
(* Properties.                                                             *)

\* The run of that number, if there was one.
RunsOf(id) == {r \in made : r.id = id}

\* A run is called a verified replay of another if and only if it had the inputs
\* and the actions of the other, under the same engine and profiles, and both were
\* digested alike; a replay in which nothing more is done always has its inputs and
\* actions, whatever happened to the file on the way.
VerifiedIsReproduced ==
  finished # Nil /\ finished.replay # Nil =>
    \E r \in RunsOf(finished.replay.source) :
      LET again == [engine |-> finished.engine, profiles |-> finished.profiles,
                    inputs |-> finished.inputs, actions |-> finished.actions]
          alike == finished.digest.algorithm = DigestOf(r.result, r.subtle).algorithm
      IN /\ finished.replay.verified = (again = r.result /\ alike)
         /\ again.inputs = r.result.inputs /\ again.engine = r.result.engine
         /\ again.profiles = r.result.profiles
         /\ IsPrefix(r.result.actions, again.actions)

\* A file that can be opened somewhere is of a run that was made, says what it was
\* made of, and holds nothing that only interviewers see.
FilesAreOfRuns ==
  \A file \in disk : Intact(file) =>
    /\ Refusal(file) = IF browser.subtle THEN "none" ELSE "digest-unavailable"
    /\ ~file.payload.inputs.private
    /\ \E r \in RunsOf(file.payload.id) :
         /\ r.result = [engine |-> file.payload.engine, profiles |-> file.payload.profiles.registry,
                        inputs |-> file.payload.inputs, actions |-> file.payload.actions]
         /\ file.payload.digest = DigestOf(r.result, r.subtle)

\* What is opened was intact, and two bundles that this build can run again come
\* out as they did, with the digest that the browser of the time could make.
ComparisonIsReproduced ==
  /\ opened # Nil => \E r \in RunsOf(opened.id) :
       r.result = [engine |-> opened.engine, profiles |-> opened.profiles,
                   inputs |-> opened.inputs, actions |-> opened.actions]
  /\ compared # Nil =>
       /\ FALSE \notin compared.verified
       /\ compared.sameInputs =
            \E r \in RunsOf(compared.source), s \in RunsOf(compared.comparison) :
              r.result.inputs = s.result.inputs /\ r.result.actions = s.result.actions

\* What the evidence of a run claims is so, wherever its file was taken and
\* whatever was run from it.
EvidenceIsSound == VerifiedIsReproduced /\ FilesAreOfRuns /\ ComparisonIsReproduced
=============================================================================
