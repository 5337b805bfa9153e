----------------------------- MODULE MCRunQueue -----------------------------
(* Instances of RunQueue for TLC.                                          *)
EXTENDS RunQueue, TLC

CONSTANTS p1, p2, s1, s2

\* Two processes with one slot each.
TwoProcesses == (s1 :> p1) @@ (s2 :> p2)
\* One process with one slot.
OneSlot      == (s1 :> p1)

RunSymmetry == Permutations(Runs)
=============================================================================
