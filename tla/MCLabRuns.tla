------------------------------ MODULE MCLabRuns ------------------------------
(* Three runs of two frames and one edit in one tab.                       *)
EXTENDS LabRuns
=============================================================================
