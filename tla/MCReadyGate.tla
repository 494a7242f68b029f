----------------------------- MODULE MCReadyGate -----------------------------
(* Small instances of ReadyGate for TLC; every bound is a constant of the cfg. *)
EXTENDS ReadyGate, TLC

\* Jobs, verifications and requests are interchangeable before they start.
Symmetry == Permutations(Jobs) \cup Permutations(Verifications) \cup Permutations(Calls)
=============================================================================
