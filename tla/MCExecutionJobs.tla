---------------------------- MODULE MCExecutionJobs ----------------------------
(***************************************************************************)
(* ExecutionJobs on small instances.  Operations, requests and passes are  *)
(* interchangeable: each only names rows and processes.                    *)
(***************************************************************************)
EXTENDS ExecutionJobs, TLC

Symmetry == Permutations(Operations) \cup Permutations(Calls) \cup Permutations(Passes)
=============================================================================
