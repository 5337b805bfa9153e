------------------------- MODULE MCInterviewSession -------------------------
(* One interviewer tab h and one candidate tab c.                          *)
EXTENDS InterviewSession

CONSTANTS h, c
=============================================================================
