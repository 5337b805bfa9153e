----------------------------- MODULE LabBounds -----------------------------
(* The bounds of LabRuns, for the modules that extend it or instantiate it. *)
EXTENDS Naturals

CONSTANTS
  MaxRuns,    \* bound: runs started in the tab
  MaxEdits,   \* bound: edits of the design
  Frames      \* frames of a run

ASSUME RunsAssumption ==
  MaxRuns \in Nat /\ MaxEdits \in Nat /\ Frames \in Nat \ {0}
=============================================================================
