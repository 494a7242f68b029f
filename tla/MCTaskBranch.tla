---------------------------- MODULE MCTaskBranch ----------------------------
(***************************************************************************)
(* TLC instance of TaskBranch.  Two paths, one the base and the task may   *)
(* both change and one only one of them does; three jobs: the first        *)
(* verified, a transfer of it, and one more of either kind.                *)
(***************************************************************************)
EXTENDS TaskBranch

CONSTANTS p, q

\* What others do to the repository is looked at only by a request, a checkout,
\* a transfer and a push; it commutes with every other step, so it is explored
\* only where one of these may come next.
Looks == {"checkout", "work", "push"}
OutsideWhereItIsSeen ==
    outside' # outside => NoJobInFlight \/ \E j \in DOMAIN jobs : runners[j].step \in Looks
=============================================================================
