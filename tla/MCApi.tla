------------------------------- MODULE MCApi -------------------------------
(* Admission on two replicas with two clients.                             *)
EXTENDS ApiAdmission, TLC

CONSTANTS a, b, r1, r2

\* One replica lets a single request in, the other two.
Gates == (r1 :> 1) @@ (r2 :> 2)
=============================================================================
