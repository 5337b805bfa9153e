------------------------------ MODULE Analyses -------------------------------
(***************************************************************************)
(* The two pages that show what a worker computed of what is beside it:    *)
(* the comparison of two replay files and the robustness estimate.  A tab  *)
(* shows one of them at a time; the worker is that of the page shown.      *)
(***************************************************************************)
EXTENDS ReplayConsole, RobustnessPanel

Outcomes == {"running", "complete", "error", "cancelled"}
Comparisons == [id : Nat, kind : {"replay"}, input : Files \X Files, state : Outcomes]
Computations == [id : Nat, kind : {"robustness", "solver", "share"}, input : Nat, state : Outcomes]

ASSUME AnalysesAssumption ==
  /\ None \notin Files /\ None \notin Nat /\ Nothing \notin Nat
  /\ NoJob \notin Comparisons /\ NoJob \notin Computations

AnalysesInit == JobInit /\ ConsoleInit /\ PanelInit
ReplayPage    == ConsoleNext /\ UNCHANGED panelVars
WorkbenchPage == PanelNext /\ UNCHANGED consoleVars

Comparing  == AnalysesInit /\ [][ReplayPage]_<<jobVars, consoleVars, panelVars>>
Estimating == AnalysesInit /\ [][WorkbenchPage]_<<jobVars, consoleVars, panelVars>>

\* What the pages show of a computation is of what they show beside it.
AnalysesAreCurrent == ComparisonIsOfFiles /\ EstimateIsCurrent
=============================================================================
