------------------------------- MODULE MCLab -------------------------------
(* Five parts of the Lab that share no state: the run library of two tabs,  *)
(* three overlapping runs of a tab, its design, the canvas on which a small *)
(* design is edited, and the evidence of runs as it goes through files.     *)
(* A behaviour is of one of them.                                           *)
EXTENDS RunHistory, LabRuns, LabStore, ArchitectureEditing, RunEvidence

CONSTANTS r1, r2, r3, r4, t1, t2, in, out1, out2, small, wide
VARIABLE part

\* Two runs with one output, a third with another, and a cancelled one.
Inputs  == (r1 :> in) @@ (r2 :> in) @@ (r3 :> in) @@ (r4 :> NoInputs)
Outputs == (r1 :> out1) @@ (r2 :> out1) @@ (r3 :> out2) @@ (r4 :> NoInputs)
TabSymmetry == Permutations(Tabs)

Old(name, kind, length, replicas) == [id |-> Named(name, length), kind |-> kind, replicas |-> replicas]
SmallDesign ==
  [nodes |-> <<Old("api", "api", 3, 0), Old("db", "database", 2, 1)>>,
   edges |-> <<Edge(Named("e-api-db", 8), Named("api", 3), Named("db", 2))>>]

Browser(engine, profiles, subtle) == [engine |-> engine, profiles |-> profiles, subtle |-> subtle]
MCBrowsers == {Browser("1.0", "old", TRUE), Browser("1.0", "old", FALSE),
               Browser("1.0", "new", TRUE), Browser("1.1", "new", TRUE)}
MCDrafts == {[design |-> small, private |-> FALSE], [design |-> small, private |-> TRUE],
             [design |-> wide, private |-> FALSE]}

MCInit == /\ part \in {"library", "runs", "design", "canvas", "evidence"}
          /\ part = "library" \/ locks = FALSE
          /\ part = "runs" \/ private = FALSE
          /\ LibraryInit /\ Init /\ LabInit /\ EditInit /\ EvidenceInit
          /\ part = "evidence" \/ <<lab, browser>> = CHOOSE p \in Drafts \X Browsers : TRUE
MCNext ==
  \/ part = "library" /\ LibraryNext /\ UNCHANGED <<part, vars, labVars, editVars, evidenceVars>>
  \/ part = "runs" /\ Next /\ UNCHANGED <<part, libraryVars, labVars, editVars, evidenceVars>>
  \/ part = "design" /\ LabNext /\ UNCHANGED <<part, libraryVars, vars, editVars, evidenceVars>>
  \/ part = "canvas" /\ EditNext /\ UNCHANGED <<part, libraryVars, vars, labVars, evidenceVars>>
  \/ part = "evidence" /\ EvidenceNext /\ UNCHANGED <<part, libraryVars, vars, labVars, editVars>>
MCSpec == MCInit /\ [][MCNext]_<<part, libraryVars, vars, labVars, editVars, evidenceVars>>
=============================================================================
