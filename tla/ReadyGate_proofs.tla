--------------------------- MODULE ReadyGate_proofs ---------------------------
(***************************************************************************)
(* READY and merged commits are verified commits, for any number of        *)
(* runners, verifications and requests, any interleaving, any row order    *)
(* and any number of crashes.                                              *)
(*                                                                         *)
(* ReadyCommitVerified is not inductive: between the gate's verdict and    *)
(* the READY write a process only carries a commit in seen[p].  GateInv    *)
(* follows the evidence from the tests to the manifest along those steps;  *)
(* it holds because evidence is only ever added.                           *)
(*                                                                         *)
(* Attended says who takes a task out of the gate, LatestInv that a        *)
(* commit read from the newest run stays the newest: nobody adds a run     *)
(* while one is worked on, and a run's commit is written once.  Each needs *)
(* a hypothesis on what may happen, named where it is used.                *)
(***************************************************************************)
EXTENDS ReadyGate, FiniteSetTheorems, TLAPS

\* What a process past the tests or past the gate relies on.
Carries(p) ==
  /\ pc[p] \in {"testsPassed", "reportCi"} => Tested(p)
  /\ pc[p] \in {"manifest", "promote", "merge"} => Verified(seen[p])
  /\ pc[p] = "promote" => manifests # <<>>

\* A CI report is written only for tested commits, and no request writes READY itself.
GateInv ==
  /\ TypeOK
  /\ \A c \in ci : Tested(c)
  /\ \A p \in Processes : Carries(p)
  /\ \A c \in Calls : goal[c] # "READY"
  /\ ReadyCommitVerified
  /\ MergedCommitVerified

-----------------------------------------------------------------------------
(***************************************************************************)
(* Type correctness.                                                       *)
(***************************************************************************)
USE DEF Processes, Kinds, States, Verdicts, Statuses, CommitOrNone, VerifRows, Labels, RunnerBusy,
        rows, artifacts, origin, locals

\* What a stored job row and a stored run row hold.
LEMMA JobRowType == ASSUME TypeOK, NEW j \in Jobs
                    PROVE jobs[j].run \in Nat /\ jobs[j].commit \in CommitOrNone
  BY DEF TypeOK, JobRows

LEMMA RunRowType == ASSUME TypeOK, NEW i \in DOMAIN runs
                    PROVE /\ runs[i].commit \in CommitOrNone
                          /\ runs[i].status \in {"RUNNING", "SUCCEEDED", "FAILED", "CANCELLED"}
<1>1. runs[i] \in RunRows
  BY DEF TypeOK
<1> QED
  BY <1>1 DEF RunRows

\* A function on the indices of a sequence with values in S is a sequence over S.
LEMMA SeqOfSameLength ==
  ASSUME NEW S, NEW s \in Seq(S), NEW f, f = [i \in DOMAIN s |-> f[i]],
         \A i \in DOMAIN s : f[i] \in S
  PROVE f \in Seq(S)
  OBVIOUS

\* A job row keeps its type when its status, commit or birth changes.
LEMMA JobRowExcept ==
  ASSUME TypeOK, NEW j \in Jobs, NEW c \in CommitOrNone, NEW st \in Statuses, NEW b \in Nat
  PROVE /\ [jobs[j] EXCEPT !.status = st, !.commit = c] \in JobRows
        /\ [jobs[j] EXCEPT !.status = st] \in JobRows
        /\ [jobs[j] EXCEPT !.born = b] \in JobRows
<1>1. jobs[j] \in JobRows
  BY DEF TypeOK
<1>2. [jobs[j] EXCEPT !.status = st] \in JobRows
  BY <1>1 DEF JobRows
<1>3. [jobs[j] EXCEPT !.born = b] \in JobRows
  BY <1>1 DEF JobRows
<1>4. [jobs[j] EXCEPT !.status = st, !.commit = c] \in JobRows
  BY <1>2 DEF JobRows
<1> QED
  BY <1>2, <1>3, <1>4

\* updateRun and updateExecutionJob keep the rows well typed.
LEMMA UpdateRunType ==
  ASSUME TypeOK, NEW r \in Nat, NEW c, NEW st, UpdateRun(r, c, st),
         r \in DOMAIN runs => c \in CommitOrNone,
         r \in DOMAIN runs => st \in {"RUNNING", "SUCCEEDED", "FAILED", "CANCELLED"}
  PROVE runs' \in Seq(RunRows)
<1>1. runs' = [i \in DOMAIN runs |-> runs'[i]]
  BY DEF UpdateRun
<1>2. ASSUME NEW i \in DOMAIN runs PROVE runs'[i] \in RunRows
  <2>1. runs[i] \in RunRows
    BY <1>2 DEF TypeOK
  <2> QED
    BY <2>1, <1>2 DEF UpdateRun, RunRows
<1> QED
  BY <1>1, <1>2, SeqOfSameLength DEF TypeOK

\* Writing a whole job row keeps the job table well typed.
LEMMA UpdateJobType ==
  ASSUME TypeOK, NEW j \in Jobs, NEW c \in CommitOrNone, NEW st \in Statuses, UpdateJob(j, st, c)
  PROVE jobs' \in [Jobs -> JobRows]
<1>1. [jobs[j] EXCEPT !.status = st, !.commit = c] \in JobRows
  BY JobRowExcept, 0 \in Nat
<1> QED
  BY <1>1 DEF UpdateJob, TypeOK

\* What a handler reads is a commit or none; what a merge resolves is a commit.
LEMMA LatestCommitsType == ASSUME TypeOK, NEW p PROVE LatestCommits(p) \subseteq CommitOrNone
  BY RunRowType DEF LatestCommits, Newest

\* A merge only ever resolves the commit of a job.
LEMMA MergeableType == ASSUME NEW c PROVE Mergeable(c) \subseteq Jobs
  BY DEF Mergeable

\* A new job inherits a commit of the task, or none.
LEMMA InheritedType == ASSUME TypeOK, NEW c \in Calls PROVE Inherited(c) \subseteq CommitOrNone
  BY JobRowType DEF Inherited, TypeOK

\* Jobs are finite, so the birth order of a job is a number.
LEMMA BornType == Born \in Nat
  BY JobsAreFinite, FS_CardinalityType, FS_Subset DEF Born

\* The empty stores are well typed.
LEMMA InitType == Init => TypeOK
  BY DEF Init, TypeOK, JobRows

\* Every step of a runner, recorder, request or the reconciler keeps the types.
LEMMA StepType == ASSUME TypeOK, [Next]_vars PROVE TypeOK'
<1>1. ASSUME NEW j \in Jobs, Claim(j) PROVE TypeOK'
  BY <1>1 DEF TypeOK, Claim, At, Goto
<1>2. ASSUME NEW j \in Jobs, Checkout(j) PROVE TypeOK'
  <2>1. jobs' \in [Jobs -> JobRows]
    BY <1>2, JobRowType, UpdateJobType DEF Checkout, Rewrite
  <2>2. heads[jobs[j].kind] \in CommitOrNone
    BY DEF TypeOK, JobRows
  <2> QED
    BY <1>2, <2>1, <2>2 DEF TypeOK, Checkout, At, Goto
<1>3. ASSUME NEW j \in Jobs, RebaseConflict(j) PROVE TypeOK'
  BY <1>3 DEF TypeOK, RebaseConflict, At, Goto
<1>4. ASSUME NEW j \in Jobs, Push(j) PROVE TypeOK'
  <2>1. jobs' \in [Jobs -> JobRows]
    BY <1>4, UpdateJobType DEF Push, Rewrite
  <2> QED
    BY <1>4, <2>1 DEF TypeOK, Push, At, Goto
<1>5. ASSUME NEW j \in Jobs, PushRejected(j) PROVE TypeOK'
  <2>1. jobs' \in [Jobs -> JobRows]
    BY <1>5, JobRowType, UpdateJobType DEF PushRejected, Rewrite, Published
  <2> QED
    BY <1>5, <2>1 DEF TypeOK, PushRejected, At, Goto
<1>6. ASSUME NEW j \in Jobs, RecordRun(j) PROVE TypeOK'
  <2>1. runs' \in Seq(RunRows)
    BY <1>6, JobRowType, RunRowType, UpdateRunType DEF RecordRun
  <2> QED
    BY <1>6, <2>1 DEF TypeOK, RecordRun, At, Goto
<1>7. ASSUME NEW j \in Jobs, TestCheck(j) PROVE TypeOK'
  BY <1>7 DEF TypeOK, TestCheck, Goto, Abort
<1>8. ASSUME NEW j \in Jobs, EnterTesting(j) PROVE TypeOK'
  BY <1>8 DEF TypeOK, EnterTesting, At, Goto
<1>9. ASSUME NEW j \in Jobs, RunTests(j) PROVE TypeOK'
  BY <1>9 DEF TypeOK, RunTests, Goto
<1>10. ASSUME NEW j \in Jobs, TestsFailed(j) PROVE TypeOK'
  BY <1>10 DEF TypeOK, TestsFailed, At, Goto
<1>11. ASSUME NEW j \in Jobs, TestsPassed(j) PROVE TypeOK'
  BY <1>11 DEF TypeOK, TestsPassed, At, Goto
<1>12. ASSUME NEW j \in Jobs, ReportCi(j) PROVE TypeOK'
  BY <1>12 DEF TypeOK, ReportCi, At, Goto
<1>13. ASSUME NEW j \in Jobs, CloseRun(j) PROVE TypeOK'
  <2>1. runs' \in Seq(RunRows)
    BY <1>13, JobRowType, UpdateRunType DEF CloseRun
  <2> QED
    BY <1>13, <2>1 DEF TypeOK, CloseRun, At, Goto
<1>14. ASSUME NEW j \in Jobs, CloseJob(j) PROVE TypeOK'
  <2>1. jobs' \in [Jobs -> JobRows]
    BY <1>14, JobRowType, UpdateJobType DEF CloseJob, EndJob
  <2> QED
    BY <1>14, <2>1 DEF TypeOK, CloseJob, At, Goto
<1>15. ASSUME NEW j \in Jobs, AutoVerify(j) PROVE TypeOK'
  BY <1>15 DEF TypeOK, AutoVerify, Goto
<1>16. ASSUME NEW j \in Jobs, Catch(j) PROVE TypeOK'
  BY <1>16 DEF TypeOK, Catch, Goto
<1>17. ASSUME NEW j \in Jobs, Unstrand(j) PROVE TypeOK'
  BY <1>17 DEF TypeOK, Unstrand, At, Goto
<1>18. ASSUME NEW j \in Jobs, FailJob(j) PROVE TypeOK'
  <2>1. jobs' \in [Jobs -> JobRows]
    BY <1>18, JobRowType, UpdateJobType DEF FailJob, EndJob
  <2> QED
    BY <1>18, <2>1 DEF TypeOK, FailJob, At, Goto
<1>19. ASSUME NEW j \in Jobs, FailRun(j) PROVE TypeOK'
  <2>1. runs' \in Seq(RunRows)
    <3>1. jobs[j].run \in Nat /\ jobs[j].commit \in CommitOrNone
      BY JobRowType
    <3>2. jobs[j].run \in DOMAIN runs => runs[jobs[j].run].commit \in CommitOrNone
      BY RunRowType
    <3>3. CASE runs[jobs[j].run].status = "RUNNING"
      <4>1. PICK c : /\ UpdateRun(jobs[j].run, c, "FAILED")
                     /\ jobs[j].run \in DOMAIN runs => c \in CommitOrNone
        BY <1>19, <3>1, <3>2, <3>3 DEF FailRun
      <4> QED
        BY <3>1, <4>1, UpdateRunType
    <3>4. CASE runs[jobs[j].run].status # "RUNNING"
      BY <1>19, <3>4 DEF FailRun, TypeOK
    <3> QED
      BY <3>3, <3>4
  <2> QED
    BY <1>19, <2>1 DEF TypeOK, FailRun, At, Goto
<1>20. ASSUME NEW j \in Jobs, Fault(j) PROVE TypeOK'
  BY <1>20 DEF TypeOK, Fault, Goto
<1>21. ASSUME NEW j \in Jobs, ResumeJob(j) PROVE TypeOK'
  <2>1. jobs' \in [Jobs -> JobRows]
    <3>1. PICK k \in Jobs :
             jobs' = [jobs EXCEPT ![j] = [jobs[j] EXCEPT !.status = "ENDED"],
                                  ![k] = [jobs[j] EXCEPT !.born = Born + 1]]
      BY <1>21 DEF ResumeJob
    <3>2. "ENDED" \in Statuses /\ Born + 1 \in Nat /\ jobs[j].commit \in CommitOrNone
      BY BornType, JobRowType
    <3>3. /\ [jobs[j] EXCEPT !.status = "ENDED"] \in JobRows
          /\ [jobs[j] EXCEPT !.born = Born + 1] \in JobRows
      BY <3>2, JobRowExcept
    <3> QED
      BY <3>1, <3>3 DEF TypeOK
  <2> QED
    BY <1>21, <2>1 DEF TypeOK, ResumeJob
<1>22. ASSUME NEW p \in Processes, ReviewRefused(p) PROVE TypeOK'
  BY <1>22 DEF TypeOK, ReviewRefused, Goto, Abort
<1>23. ASSUME NEW p \in Processes, ReviewFails(p) PROVE TypeOK'
  BY <1>23 DEF TypeOK, ReviewFails, At, Goto
<1>24. ASSUME NEW p \in Processes, ReviewPasses(p) PROVE TypeOK'
  BY <1>24 DEF TypeOK, ReviewPasses, At, Goto
<1>25. ASSUME NEW p \in Processes, SendBack(p) PROVE TypeOK'
  BY <1>25 DEF TypeOK, SendBack, Goto, Abort
<1>26. ASSUME NEW p \in Processes, CompleteCheck(p) PROVE TypeOK'
  BY <1>26 DEF TypeOK, CompleteCheck, Goto, Abort
<1>27. ASSUME NEW p \in Processes, ReadRuns(p) PROVE TypeOK'
  <2>1. PICK k \in LatestCommits(p) : seen' = [seen EXCEPT ![p] = k]
    BY <1>27 DEF ReadRuns
  <2>2. k \in CommitOrNone
    BY LatestCommitsType
  <2>3. seen' \in [Processes -> CommitOrNone]
    BY <2>1, <2>2 DEF TypeOK
  <2>4. pc' \in [Processes -> Labels]
    BY <1>27 DEF TypeOK, ReadRuns, At, Goto
  <2> QED
    BY <1>27, <2>3, <2>4 DEF TypeOK, ReadRuns
<1>28. ASSUME NEW p \in Processes, GatePasses(p) PROVE TypeOK'
  BY <1>28 DEF TypeOK, GatePasses, Goto
<1>29. ASSUME NEW p \in Processes, GateAwaitsE2e(p) PROVE TypeOK'
  BY <1>29 DEF TypeOK, GateAwaitsE2e, At, Goto
<1>30. ASSUME NEW p \in Processes, GateBlocks(p) PROVE TypeOK'
  BY <1>30 DEF TypeOK, GateBlocks, Goto, Abort
<1>31. ASSUME NEW p \in Processes, AwaitE2e(p) PROVE TypeOK'
  BY <1>31 DEF TypeOK, AwaitE2e, Goto, Leave
<1>32. ASSUME NEW p \in Processes, WriteManifest(p) PROVE TypeOK'
  BY <1>32 DEF TypeOK, WriteManifest, At, Goto
<1>33. ASSUME NEW p \in Processes, Promote(p) PROVE TypeOK'
  BY <1>33 DEF TypeOK, Promote, Goto, Leave
<1>34. ASSUME NEW p \in Processes, OpenE2e(p) PROVE TypeOK'
  BY <1>34 DEF TypeOK, OpenE2e, At, Goto
<1>35. ASSUME NEW p \in Processes, Crash(p) PROVE TypeOK'
  BY <1>35 DEF TypeOK, Crash, Goto
<1>36. ASSUME NEW v \in Verifications, RecordEvidence(v) PROVE TypeOK'
  BY <1>36 DEF TypeOK, RecordEvidence, Goto
<1>37. ASSUME NEW v \in Verifications, CloseE2e(v) PROVE TypeOK'
  BY <1>37 DEF TypeOK, CloseE2e, At, Goto
<1>38. ASSUME NEW v \in Verifications, Recheck(v) PROVE TypeOK'
  BY <1>38 DEF TypeOK, Recheck, Goto
<1>39. ASSUME NEW c \in Calls, CallImplement(c) PROVE TypeOK'
  BY <1>39 DEF TypeOK, CallImplement, Begin, At, Goto, Unstored
<1>40. ASSUME NEW c \in Calls, CallRebase(c) PROVE TypeOK'
  BY <1>40 DEF TypeOK, CallRebase, Begin, At, Goto, Unstored
<1>41. ASSUME NEW c \in Calls, CallTransition(c) PROVE TypeOK'
  BY <1>41 DEF TypeOK, CallTransition, Begin, At, Goto, Unstored, lifecycleTargets
<1>42. ASSUME NEW c \in Calls, CallReplan(c) PROVE TypeOK'
  BY <1>42 DEF TypeOK, CallReplan, Begin, At, Goto, Unstored
<1>43. ASSUME NEW c \in Calls, CallReview(c) PROVE TypeOK'
  BY <1>43 DEF TypeOK, CallReview, Begin, At, Goto, Unstored
<1>44. ASSUME NEW c \in Calls, CallComplete(c) PROVE TypeOK'
  BY <1>44 DEF TypeOK, CallComplete, Begin, At, Goto, Unstored
<1>45. ASSUME NEW c \in Calls, CallVerify(c) PROVE TypeOK'
  BY <1>45 DEF TypeOK, CallVerify, Begin, At, Goto, Unstored
<1>46. ASSUME NEW c \in Calls, CallCancel(c) PROVE TypeOK'
  <2>1. jobs' \in [Jobs -> JobRows]
    BY <1>46, JobRowType, UpdateJobType DEF CallCancel, EndJob
  <2>2. runs' \in Seq(RunRows)
    <3>1. PICK j \in Jobs :
             LET r == jobs[j].run
             IN IF runs[r].status = "RUNNING"
                THEN UpdateRun(r, runs[r].commit, "CANCELLED") ELSE UNCHANGED runs
      BY <1>46 DEF CallCancel
    <3>2. jobs[j].run \in Nat
      BY JobRowType
    <3>3. jobs[j].run \in DOMAIN runs => runs[jobs[j].run].commit \in CommitOrNone
      BY RunRowType
    <3> QED
      BY <3>1, <3>2, <3>3, UpdateRunType DEF TypeOK
  <2> QED
    BY <1>46, <2>1, <2>2 DEF TypeOK, CallCancel, Begin, At, Goto, Unstored
<1>47. ASSUME NEW c \in Calls, CallMerge(c) PROVE TypeOK'
  BY <1>47 DEF TypeOK, CallMerge, Begin, At, Goto, Unstored
<1>48. ASSUME NEW c \in Calls, ResolveMerge(c) PROVE TypeOK'
  <2>1. seen' \in [Processes -> CommitOrNone]
    <3>1. CASE Mergeable(c) = {}
      BY <1>48, <3>1 DEF TypeOK, ResolveMerge
    <3>2. CASE Mergeable(c) # {}
      <4>1. PICK k \in Mergeable(c) : seen' = [seen EXCEPT ![c] = k]
        BY <1>48, <3>2 DEF ResolveMerge
      <4>2. k \in CommitOrNone
        BY MergeableType
      <4> QED
        BY <4>1, <4>2 DEF TypeOK
    <3> QED
      BY <3>1, <3>2
  <2>2. pc' \in [Processes -> Labels]
    BY <1>48 DEF TypeOK, ResolveMerge, Goto
  <2> QED
    BY <1>48, <2>1, <2>2 DEF TypeOK, ResolveMerge
<1>49. ASSUME NEW c \in Calls, MergePullRequest(c) PROVE TypeOK'
  <2>1. merged' \subseteq CommitOrNone
    BY <1>49 DEF TypeOK, MergePullRequest
  <2> QED
    BY <1>49, <2>1 DEF TypeOK, MergePullRequest, At, Goto
<1>50. ASSUME NEW c \in Calls, Move(c) PROVE TypeOK'
  BY <1>50 DEF TypeOK, Move, At, Goto
<1>51. ASSUME NEW c \in Calls, Save(c) PROVE TypeOK'
  <2>1. jobs' \in [Jobs -> JobRows]
    BY <1>51, InheritedType, BornType DEF Save, TypeOK, JobRows
  <2>2. runs' \in Seq(RunRows)
    BY <1>51 DEF Save, TypeOK, RunRows
  <2> QED
    BY <1>51, <2>1, <2>2 DEF TypeOK, Save, At, Goto
<1>52. CASE UNCHANGED vars
  BY <1>52 DEF TypeOK, vars
<1>53. QED
  BY <1>1, <1>2, <1>3, <1>4, <1>5, <1>6, <1>7, <1>8, <1>9, <1>10, <1>11, <1>12, <1>13, <1>14,
     <1>15, <1>16, <1>17, <1>18, <1>19, <1>20, <1>21, <1>22, <1>23, <1>24, <1>25, <1>26, <1>27,
     <1>28, <1>29, <1>30, <1>31, <1>32, <1>33, <1>34, <1>35, <1>36, <1>37, <1>38, <1>39, <1>40,
     <1>41, <1>42, <1>43, <1>44, <1>45, <1>46, <1>47, <1>48, <1>49, <1>50, <1>51, <1>52
     DEF Next, Runner, Review, Recorder, Call, Serve

\* Every state of every execution has well-typed rows, artifacts and processes.
THEOREM TypeCorrect == Spec => []TypeOK
  BY InitType, StepType, PTL DEF Spec

-----------------------------------------------------------------------------
(***************************************************************************)
(* The gate.  Evidence is only ever added (EvidenceGrows), so what a       *)
(* process relied on when it passed the gate still holds when it writes.   *)
(***************************************************************************)
EvidenceGrows ==
  /\ ci \subseteq ci'
  /\ DOMAIN reports \subseteq DOMAIN reports'
  /\ \A i \in DOMAIN reports : reports'[i] = reports[i]
  /\ DOMAIN evidence \subseteq DOMAIN evidence'
  /\ \A i \in DOMAIN evidence : evidence'[i] = evidence[i]
  /\ DOMAIN manifests \subseteq DOMAIN manifests'
  /\ \A i \in DOMAIN manifests : manifests'[i] = manifests[i]
  /\ manifests # <<>> => manifests' # <<>>

\* A step of the system either leaves a process where it is or brings it, with
\* what it needs, to its next label; READY and merges come from the gate only.
SoundStep ==
  /\ EvidenceGrows
  /\ \A c \in ci' \ ci : Tested(c)'
  /\ \A i \in DOMAIN manifests' \ DOMAIN manifests : Verified(manifests[i])'
  /\ \A c \in merged' \ merged : Verified(c)'
  /\ \A p \in Processes : (pc'[p] = pc[p] /\ seen'[p] = seen[p]) \/ Carries(p)'
  /\ \A c \in Calls : goal'[c] # "READY"
  /\ task' = "READY" => task = "READY" \/ manifests # <<>>

\* Evidence is only added, so what was tested, proven or verified stays so.
LEMMA VerifiedIsStable ==
  ASSUME EvidenceGrows, NEW c
  PROVE (Tested(c) => Tested(c)') /\ (Verified(c) => Verified(c)')
<1>1. Tested(c) => Tested(c)'
  BY DEF EvidenceGrows, Tested
<1>2. Proven(c) => Proven(c)'
  BY DEF EvidenceGrows, Proven
<1> QED
  BY <1>1, <1>2 DEF EvidenceGrows, Verified

\* A step that hands evidence on from a process to the rows keeps the gate.
LEMMA SoundStepKeepsGate == ASSUME GateInv, TypeOK', SoundStep PROVE GateInv'
<1>1. \A c \in ci' : Tested(c)'
  BY VerifiedIsStable DEF GateInv, SoundStep
<1>2. ASSUME NEW p \in Processes PROVE Carries(p)'
  <2>1. CASE pc'[p] = pc[p] /\ seen'[p] = seen[p]
    <3>1. Carries(p) /\ EvidenceGrows
      BY DEF GateInv, SoundStep
    <3>2. (Tested(p) => Tested(p)') /\ (Verified(seen[p]) => Verified(seen[p])')
      <4>1. PICK c : c = seen[p] /\ c = seen'[p]
        BY <2>1
      <4>2. (Tested(p) => Tested(p)') /\ (Verified(c) => Verified(c)')
        BY <3>1, VerifiedIsStable
      <4>3. (Verified(seen[p]) <=> Verified(c)) /\ (Verified(seen[p])' <=> Verified(c)')
        BY <4>1 DEF Verified, Tested, Proven
      <4> QED
        BY <4>2, <4>3
    <3> QED
      BY <2>1, <3>1, <3>2 DEF Carries, EvidenceGrows
  <2> QED
    BY <1>2, <2>1 DEF GateInv, SoundStep
<1>3. ReadyCommitVerified'
  <2>1. ASSUME NEW i \in DOMAIN manifests' PROVE Verified(manifests[i])'
    <3>1. CASE i \in DOMAIN manifests
      <4>1. PICK c : c = manifests[i] /\ c = manifests'[i]
        BY <3>1 DEF SoundStep, EvidenceGrows
      <4>2. Verified(c) <=> Verified(manifests[i])
        BY <4>1 DEF Verified, Tested, Proven
      <4>3. Verified(c)' <=> Verified(manifests[i])'
        BY <4>1 DEF Verified, Tested, Proven
      <4>4. Verified(manifests[i]) /\ EvidenceGrows
        BY <3>1 DEF GateInv, ReadyCommitVerified, SoundStep
      <4> QED
        BY <4>2, <4>3, <4>4, VerifiedIsStable
    <3> QED
      BY <3>1, <2>1 DEF SoundStep
  <2> QED
    BY <2>1 DEF GateInv, ReadyCommitVerified, SoundStep, EvidenceGrows
<1>4. MergedCommitVerified'
  BY VerifiedIsStable DEF GateInv, MergedCommitVerified, SoundStep
<1> QED
  BY <1>1, <1>2, <1>3, <1>4 DEF GateInv, SoundStep

\* Labels at which a process relies on evidence.
Marked == {"testsPassed", "reportCi", "manifest", "promote", "merge"}

\* A step that adds no evidence and takes nobody to a marked label.
QuietStep ==
  /\ UNCHANGED <<ci, reports, evidence, manifests, merged>>
  /\ \A p \in Processes : (pc'[p] = pc[p] /\ seen'[p] = seen[p]) \/ pc'[p] \notin Marked
  /\ \A c \in Calls : goal'[c] # "READY"
  /\ task' = "READY" => task = "READY"

\* A step that neither writes evidence nor moves a process past the gate is sound.
LEMMA QuietStepIsSound == ASSUME QuietStep PROVE SoundStep
<1>1. EvidenceGrows
  BY DEF QuietStep, EvidenceGrows
<1>2. ASSUME NEW p \in Processes, pc'[p] \notin Marked PROVE Carries(p)'
  BY <1>2 DEF Carries, Marked
<1> QED
  BY <1>1, <1>2 DEF QuietStep, SoundStep

\* An element of a sequence over S is in S.
LEMMA ElementOfSeq == ASSUME NEW S, NEW s \in Seq(S), NEW i \in DOMAIN s PROVE s[i] \in S
  OBVIOUS

\* A PROVEN verdict the gate reads for a commit is evidence about that commit.
LEMMA LatestEvidenceIsProof ==
  ASSUME TypeOK, NEW p, NEW c, "PROVEN" \in LatestEvidence(p, c)
  PROVE Proven(c)
<1>1. PICK i \in DOMAIN evidence : evidence[i].commit = c /\ evidence[i].verdict = "PROVEN"
  BY DEF LatestEvidence, EvidenceAbout, Newest
<1>2. evidence[i] \in [commit : CommitOrNone, verdict : Verdicts]
  <2>1. evidence \in Seq([commit : CommitOrNone, verdict : Verdicts])
    BY Zenon DEF TypeOK
  <2> QED
    BY <2>1, ElementOfSeq, Zenon
<1>3. evidence[i] = [commit |-> c, verdict |-> "PROVEN"]
  BY <1>1, <1>2
<1> QED
  BY <1>1, <1>3, Zenon DEF Proven

\* resolveMergeableCommit returns a commit some manifest names, hence a verified one.
LEMMA MergeableIsVerified ==
  ASSUME GateInv, NEW c, NEW k \in Mergeable(c)
  PROVE k \in Jobs /\ Verified(k)
<1>1. k \in Jobs /\ manifests # <<>> /\ manifests[Len(manifests)] = k
  BY DEF Mergeable
<1>2. Len(manifests) \in DOMAIN manifests
  BY <1>1 DEF GateInv, TypeOK
<1>3. Verified(k) <=> Verified(manifests[Len(manifests)])
  BY <1>1 DEF Verified, Tested, Proven
<1> QED
  BY <1>1, <1>2, <1>3 DEF GateInv, ReadyCommitVerified

\* Nothing is READY, merged or carried before the first request.
LEMMA InitGate == Init => GateInv
  BY InitType DEF Init, GateInv, Carries, ReadyCommitVerified, MergedCommitVerified

\* Every step is sound or quiet, action by action.
LEMMA StepGate == ASSUME GateInv, [Next]_vars PROVE GateInv'
<1> USE DEF Marked, Goto, At
<1>0. /\ TypeOK /\ TypeOK'
      /\ \A p \in Processes : Carries(p)
      /\ \A c \in Calls : goal[c] # "READY"
  BY StepType DEF GateInv
<1>1. ASSUME NEW j \in Jobs, Claim(j) PROVE SoundStep
  <2>1. QuietStep
    BY <1>1, <1>0 DEF QuietStep, Claim, TypeOK
  <2> QED
    BY <2>1, QuietStepIsSound
<1>2. ASSUME NEW j \in Jobs, Checkout(j) PROVE SoundStep
  <2>1. QuietStep
    BY <1>2, <1>0 DEF QuietStep, Checkout, TypeOK
  <2> QED
    BY <2>1, QuietStepIsSound
<1>3. ASSUME NEW j \in Jobs, RebaseConflict(j) PROVE SoundStep
  <2>1. QuietStep
    BY <1>3, <1>0 DEF QuietStep, RebaseConflict, TypeOK
  <2> QED
    BY <2>1, QuietStepIsSound
<1>4. ASSUME NEW j \in Jobs, Push(j) PROVE SoundStep
  <2>1. QuietStep
    BY <1>4, <1>0 DEF QuietStep, Push, TypeOK
  <2> QED
    BY <2>1, QuietStepIsSound
<1>5. ASSUME NEW j \in Jobs, PushRejected(j) PROVE SoundStep
  <2>1. QuietStep
    BY <1>5, <1>0 DEF QuietStep, PushRejected, TypeOK
  <2> QED
    BY <2>1, QuietStepIsSound
<1>6. ASSUME NEW j \in Jobs, RecordRun(j) PROVE SoundStep
  <2>1. QuietStep
    BY <1>6, <1>0 DEF QuietStep, RecordRun, TypeOK
  <2> QED
    BY <2>1, QuietStepIsSound
<1>7. ASSUME NEW j \in Jobs, TestCheck(j) PROVE SoundStep
  <2>1. QuietStep
    BY <1>7, <1>0 DEF QuietStep, TestCheck, Abort, TypeOK
  <2> QED
    BY <2>1, QuietStepIsSound
<1>8. ASSUME NEW j \in Jobs, EnterTesting(j) PROVE SoundStep
  <2>1. QuietStep
    BY <1>8, <1>0 DEF QuietStep, EnterTesting, TypeOK
  <2> QED
    BY <2>1, QuietStepIsSound
<1>9. ASSUME NEW j \in Jobs, RunTests(j) PROVE SoundStep
  <2>1. PICK passed \in BOOLEAN :
          /\ reports' = Append(reports, [commit |-> j, passed |-> passed])
          /\ pc' = [pc EXCEPT ![j] = IF passed THEN "testsPassed" ELSE "testsFailed"]
    BY <1>9 DEF RunTests
  <2>2. EvidenceGrows
    BY <1>9, <1>0, <2>1 DEF RunTests, EvidenceGrows, TypeOK
  <2>3. passed => Tested(j)'
    <3>1. Len(reports) + 1 \in DOMAIN reports' /\ reports'[Len(reports) + 1] = [commit |-> j, passed |-> passed]
      BY <1>0, <2>1 DEF TypeOK
    <3> QED
      BY <3>1 DEF Tested
  <2>4. Carries(j)'
    BY <1>9, <1>0, <2>1, <2>3 DEF RunTests, Carries, TypeOK
  <2> QED
    BY <1>9, <1>0, <2>1, <2>2, <2>4 DEF RunTests, SoundStep, TypeOK
<1>10. ASSUME NEW j \in Jobs, TestsFailed(j) PROVE SoundStep
  <2>1. QuietStep
    BY <1>10, <1>0 DEF QuietStep, TestsFailed, TypeOK
  <2> QED
    BY <2>1, QuietStepIsSound
<1>11. ASSUME NEW j \in Jobs, TestsPassed(j) PROVE SoundStep
  <2>1. EvidenceGrows /\ Tested(j)
    BY <1>11, <1>0 DEF TestsPassed, EvidenceGrows, Carries
  <2>2. Carries(j)'
    BY <1>11, <1>0, <2>1, VerifiedIsStable DEF TestsPassed, Carries, TypeOK
  <2> QED
    BY <1>11, <1>0, <2>1, <2>2 DEF TestsPassed, SoundStep, TypeOK
<1>12. ASSUME NEW j \in Jobs, ReportCi(j) PROVE SoundStep
  <2>1. EvidenceGrows /\ Tested(j)
    BY <1>12, <1>0 DEF ReportCi, EvidenceGrows, Carries
  <2>2. Carries(j)' /\ Tested(j)'
    BY <1>12, <1>0, <2>1, VerifiedIsStable DEF ReportCi, Carries, TypeOK
  <2> QED
    BY <1>12, <1>0, <2>1, <2>2 DEF ReportCi, SoundStep, TypeOK
<1>13. ASSUME NEW j \in Jobs, CloseRun(j) PROVE SoundStep
  <2>1. QuietStep
    BY <1>13, <1>0 DEF QuietStep, CloseRun, TypeOK
  <2> QED
    BY <2>1, QuietStepIsSound
<1>14. ASSUME NEW j \in Jobs, CloseJob(j) PROVE SoundStep
  <2>1. QuietStep
    BY <1>14, <1>0 DEF QuietStep, CloseJob, TypeOK
  <2> QED
    BY <2>1, QuietStepIsSound
<1>15. ASSUME NEW j \in Jobs, AutoVerify(j) PROVE SoundStep
  <2>1. QuietStep
    BY <1>15, <1>0 DEF QuietStep, AutoVerify, TypeOK
  <2> QED
    BY <2>1, QuietStepIsSound
<1>16. ASSUME NEW j \in Jobs, Catch(j) PROVE SoundStep
  <2>1. QuietStep
    BY <1>16, <1>0 DEF QuietStep, Catch, TypeOK
  <2> QED
    BY <2>1, QuietStepIsSound
<1>17. ASSUME NEW j \in Jobs, Unstrand(j) PROVE SoundStep
  <2>1. QuietStep
    BY <1>17, <1>0 DEF QuietStep, Unstrand, TypeOK
  <2> QED
    BY <2>1, QuietStepIsSound
<1>18. ASSUME NEW j \in Jobs, FailJob(j) PROVE SoundStep
  <2>1. QuietStep
    BY <1>18, <1>0 DEF QuietStep, FailJob, TypeOK
  <2> QED
    BY <2>1, QuietStepIsSound
<1>19. ASSUME NEW j \in Jobs, FailRun(j) PROVE SoundStep
  <2>1. QuietStep
    BY <1>19, <1>0 DEF QuietStep, FailRun, TypeOK
  <2> QED
    BY <2>1, QuietStepIsSound
<1>20. ASSUME NEW j \in Jobs, Fault(j) PROVE SoundStep
  <2>1. QuietStep
    BY <1>20, <1>0 DEF QuietStep, Fault, TypeOK
  <2> QED
    BY <2>1, QuietStepIsSound
<1>21. ASSUME NEW j \in Jobs, ResumeJob(j) PROVE SoundStep
  <2>1. QuietStep
    BY <1>21, <1>0 DEF QuietStep, ResumeJob, TypeOK
  <2> QED
    BY <2>1, QuietStepIsSound
<1>22. ASSUME NEW p \in Processes, ReviewRefused(p) PROVE SoundStep
  <2>1. QuietStep
    BY <1>22, <1>0 DEF QuietStep, ReviewRefused, Abort, TypeOK
  <2> QED
    BY <2>1, QuietStepIsSound
<1>23. ASSUME NEW p \in Processes, ReviewFails(p) PROVE SoundStep
  <2>1. QuietStep
    BY <1>23, <1>0 DEF QuietStep, ReviewFails, TypeOK
  <2> QED
    BY <2>1, QuietStepIsSound
<1>24. ASSUME NEW p \in Processes, ReviewPasses(p) PROVE SoundStep
  <2>1. QuietStep
    BY <1>24, <1>0 DEF QuietStep, ReviewPasses, TypeOK
  <2> QED
    BY <2>1, QuietStepIsSound
<1>25. ASSUME NEW p \in Processes, SendBack(p) PROVE SoundStep
  <2>1. QuietStep
    BY <1>25, <1>0 DEF QuietStep, SendBack, Abort, TypeOK
  <2> QED
    BY <2>1, QuietStepIsSound
<1>26. ASSUME NEW p \in Processes, CompleteCheck(p) PROVE SoundStep
  <2>1. QuietStep
    BY <1>26, <1>0 DEF QuietStep, CompleteCheck, Abort, TypeOK
  <2> QED
    BY <2>1, QuietStepIsSound
<1>27. ASSUME NEW p \in Processes, ReadRuns(p) PROVE SoundStep
  <2>1. QuietStep
    BY <1>27, <1>0 DEF QuietStep, ReadRuns, TypeOK
  <2> QED
    BY <2>1, QuietStepIsSound
<1>28. ASSUME NEW p \in Processes, GatePasses(p) PROVE SoundStep
  <2>1. Verified(seen[p])
    <3>1. PICK k : k = seen[p]
      OBVIOUS
    <3>2. k \in ci /\ E2eMayPass(p, k)
      BY <1>28, <3>1 DEF GatePasses, FormalGatesPass, hasExactCiReport
    <3>3. Tested(k)
      BY <3>2 DEF GateInv
    <3>4. RequiresE2e => Proven(k)
      BY <1>0, <3>2, LatestEvidenceIsProof DEF E2eMayPass
    <3> QED
      BY <3>1, <3>2, <3>3, <3>4 DEF Verified, Tested, Proven
  <2>2. EvidenceGrows /\ Carries(p)'
    BY <1>28, <1>0, <2>1 DEF GatePasses, EvidenceGrows, Carries, Verified, Tested, Proven, TypeOK
  <2> QED
    BY <1>28, <1>0, <2>2 DEF GatePasses, SoundStep, TypeOK
<1>29. ASSUME NEW p \in Processes, GateAwaitsE2e(p) PROVE SoundStep
  <2>1. QuietStep
    BY <1>29, <1>0 DEF QuietStep, GateAwaitsE2e, TypeOK
  <2> QED
    BY <2>1, QuietStepIsSound
<1>30. ASSUME NEW p \in Processes, GateBlocks(p) PROVE SoundStep
  <2>1. QuietStep
    BY <1>30, <1>0 DEF QuietStep, GateBlocks, Abort, TypeOK
  <2> QED
    BY <2>1, QuietStepIsSound
<1>31. ASSUME NEW p \in Processes, AwaitE2e(p) PROVE SoundStep
  <2>1. QuietStep
    BY <1>31, <1>0 DEF QuietStep, AwaitE2e, Leave, TypeOK
  <2> QED
    BY <2>1, QuietStepIsSound
<1>32. ASSUME NEW p \in Processes, WriteManifest(p) PROVE SoundStep
  <2>1. Verified(seen[p])
    BY <1>32, <1>0 DEF WriteManifest, Carries
  <2>2. EvidenceGrows
    BY <1>32, <1>0 DEF WriteManifest, EvidenceGrows, TypeOK
  <2>3. PICK k : k = seen[p] /\ k = seen'[p]
    BY <1>32 DEF WriteManifest
  <2>4. Verified(k)'
    <3>1. Verified(k)
      BY <2>1, <2>3 DEF Verified, Tested, Proven
    <3> QED
      BY <2>2, <3>1, VerifiedIsStable
  <2>5. \A i \in DOMAIN manifests' \ DOMAIN manifests : manifests'[i] = k
    BY <1>32, <1>0, <2>3 DEF WriteManifest, TypeOK
  <2>6. \A i \in DOMAIN manifests' \ DOMAIN manifests : Verified(manifests[i])'
    BY <2>4, <2>5 DEF Verified, Tested, Proven
  <2>7. Carries(p)'
    <3>1. Verified(seen[p])'
      BY <2>3, <2>4 DEF Verified, Tested, Proven
    <3>2. pc'[p] = "promote" /\ manifests' # <<>>
      <4>1. manifests' \in Seq(CommitOrNone) /\ Len(manifests') = Len(manifests) + 1
        BY <1>32, <1>0 DEF WriteManifest, TypeOK
      <4>2. Len(manifests) \in Nat
        BY <1>0 DEF TypeOK
      <4>3. manifests' # <<>>
        BY <4>1, <4>2
      <4> QED
        BY <1>32, <1>0, <4>3 DEF WriteManifest, TypeOK
    <3> QED
      BY <3>1, <3>2 DEF Carries
  <2> QED
    BY <1>32, <1>0, <2>2, <2>6, <2>7 DEF WriteManifest, SoundStep, TypeOK
<1>33. ASSUME NEW p \in Processes, Promote(p) PROVE SoundStep
  <2>1. manifests # <<>>
    BY <1>33, <1>0 DEF Promote, Carries
  <2>2. EvidenceGrows /\ Carries(p)'
    BY <1>33, <1>0 DEF Promote, Leave, EvidenceGrows, Carries, TypeOK
  <2> QED
    BY <1>33, <1>0, <2>1, <2>2 DEF Promote, Leave, SoundStep, TypeOK
<1>34. ASSUME NEW p \in Processes, OpenE2e(p) PROVE SoundStep
  <2>1. QuietStep
    BY <1>34, <1>0 DEF QuietStep, OpenE2e, TypeOK
  <2> QED
    BY <2>1, QuietStepIsSound
<1>35. ASSUME NEW p \in Processes, Crash(p) PROVE SoundStep
  <2>1. QuietStep
    BY <1>35, <1>0 DEF QuietStep, Crash, TypeOK
  <2> QED
    BY <2>1, QuietStepIsSound
<1>36. ASSUME NEW v \in Verifications, RecordEvidence(v) PROVE SoundStep
  <2>1. EvidenceGrows
    BY <1>36, <1>0 DEF RecordEvidence, EvidenceGrows, TypeOK
  <2>2. Carries(v)'
    BY <1>36, <1>0 DEF RecordEvidence, Carries, TypeOK
  <2> QED
    BY <1>36, <1>0, <2>1, <2>2 DEF RecordEvidence, SoundStep, TypeOK
<1>37. ASSUME NEW v \in Verifications, CloseE2e(v) PROVE SoundStep
  <2>1. QuietStep
    BY <1>37, <1>0 DEF QuietStep, CloseE2e, TypeOK
  <2> QED
    BY <2>1, QuietStepIsSound
<1>38. ASSUME NEW v \in Verifications, Recheck(v) PROVE SoundStep
  <2>1. QuietStep
    BY <1>38, <1>0 DEF QuietStep, Recheck, TypeOK
  <2> QED
    BY <2>1, QuietStepIsSound
<1>39. ASSUME NEW c \in Calls, CallImplement(c) PROVE SoundStep
  <2>1. QuietStep
    BY <1>39, <1>0 DEF QuietStep, CallImplement, Begin, Unstored, TypeOK
  <2> QED
    BY <2>1, QuietStepIsSound
<1>40. ASSUME NEW c \in Calls, CallRebase(c) PROVE SoundStep
  <2>1. QuietStep
    BY <1>40, <1>0 DEF QuietStep, CallRebase, Begin, Unstored, TypeOK
  <2> QED
    BY <2>1, QuietStepIsSound
<1>41. ASSUME NEW c \in Calls, CallTransition(c) PROVE SoundStep
  <2>1. QuietStep
    BY <1>41, <1>0 DEF QuietStep, CallTransition, Begin, Unstored, lifecycleTargets, TypeOK
  <2> QED
    BY <2>1, QuietStepIsSound
<1>42. ASSUME NEW c \in Calls, CallReplan(c) PROVE SoundStep
  <2>1. QuietStep
    BY <1>42, <1>0 DEF QuietStep, CallReplan, Begin, Unstored, TypeOK
  <2> QED
    BY <2>1, QuietStepIsSound
<1>43. ASSUME NEW c \in Calls, CallReview(c) PROVE SoundStep
  <2>1. QuietStep
    BY <1>43, <1>0 DEF QuietStep, CallReview, Begin, Unstored, TypeOK
  <2> QED
    BY <2>1, QuietStepIsSound
<1>44. ASSUME NEW c \in Calls, CallComplete(c) PROVE SoundStep
  <2>1. QuietStep
    BY <1>44, <1>0 DEF QuietStep, CallComplete, Begin, Unstored, TypeOK
  <2> QED
    BY <2>1, QuietStepIsSound
<1>45. ASSUME NEW c \in Calls, CallVerify(c) PROVE SoundStep
  <2>1. QuietStep
    BY <1>45, <1>0 DEF QuietStep, CallVerify, Begin, Unstored, TypeOK
  <2> QED
    BY <2>1, QuietStepIsSound
<1>46. ASSUME NEW c \in Calls, CallCancel(c) PROVE SoundStep
  <2>1. QuietStep
    BY <1>46, <1>0 DEF QuietStep, CallCancel, Begin, TypeOK
  <2> QED
    BY <2>1, QuietStepIsSound
<1>47. ASSUME NEW c \in Calls, CallMerge(c) PROVE SoundStep
  <2>1. QuietStep
    BY <1>47, <1>0 DEF QuietStep, CallMerge, Begin, Unstored, TypeOK
  <2> QED
    BY <2>1, QuietStepIsSound
<1>48. ASSUME NEW c \in Calls, ResolveMerge(c) PROVE SoundStep
  <2>1. CASE Mergeable(c) = {}
    <3>1. QuietStep
      BY <1>48, <1>0, <2>1 DEF QuietStep, ResolveMerge, TypeOK
    <3> QED
      BY <3>1, QuietStepIsSound
  <2>2. CASE Mergeable(c) # {}
    <3>1. PICK k \in Mergeable(c) : seen' = [seen EXCEPT ![c] = k]
      BY <1>48, <2>2 DEF ResolveMerge
    <3>2. EvidenceGrows
      BY <1>48 DEF ResolveMerge, EvidenceGrows
    <3>3. Verified(k)'
      <4>1. Verified(k)
        BY MergeableIsVerified
      <4> QED
        BY <3>2, <4>1, VerifiedIsStable
    <3>4. Verified(seen[c])'
      BY <1>0, <3>1, <3>3 DEF Verified, Tested, Proven, TypeOK
    <3>5. Carries(c)'
      BY <1>48, <1>0, <2>2, <3>4 DEF ResolveMerge, Carries, TypeOK
    <3> QED
      BY <1>48, <1>0, <2>2, <3>1, <3>2, <3>5 DEF ResolveMerge, SoundStep, TypeOK
  <2> QED
    BY <2>1, <2>2
<1>49. ASSUME NEW c \in Calls, MergePullRequest(c) PROVE SoundStep
  <2>1. Verified(seen[c]) /\ EvidenceGrows
    BY <1>49, <1>0 DEF MergePullRequest, Carries, EvidenceGrows
  <2>2. \A k \in merged' \ merged : Verified(k)'
    BY <1>49, <2>1, VerifiedIsStable DEF MergePullRequest, Verified, Tested, Proven
  <2>3. Carries(c)'
    BY <1>49, <1>0 DEF MergePullRequest, Carries, TypeOK
  <2> QED
    BY <1>49, <1>0, <2>1, <2>2, <2>3 DEF MergePullRequest, SoundStep, TypeOK
<1>50. ASSUME NEW c \in Calls, Move(c) PROVE SoundStep
  <2>1. QuietStep
    BY <1>50, <1>0 DEF QuietStep, Move, TypeOK
  <2> QED
    BY <2>1, QuietStepIsSound
<1>51. ASSUME NEW c \in Calls, Save(c) PROVE SoundStep
  <2>1. QuietStep
    BY <1>51, <1>0 DEF QuietStep, Save, TypeOK
  <2> QED
    BY <2>1, QuietStepIsSound
<1>52. CASE UNCHANGED vars
  <2>1. QuietStep
    BY <1>52, <1>0 DEF QuietStep, vars
  <2> QED
    BY <1>0, <2>1, QuietStepIsSound, SoundStepKeepsGate
<1>53. CASE Next
  <2>1. SoundStep
    BY <1>53, <1>1, <1>2, <1>3, <1>4, <1>5, <1>6, <1>7, <1>8, <1>9, <1>10, <1>11, <1>12, <1>13,
       <1>14, <1>15, <1>16, <1>17, <1>18, <1>19, <1>20, <1>21, <1>22, <1>23, <1>24, <1>25,
       <1>26, <1>27, <1>28, <1>29, <1>30, <1>31, <1>32, <1>33, <1>34, <1>35, <1>36, <1>37,
       <1>38, <1>39, <1>40, <1>41, <1>42, <1>43, <1>44, <1>45, <1>46, <1>47, <1>48, <1>49,
       <1>50, <1>51
       DEF Next, Runner, Review, Recorder, Call, Serve
  <2> QED
    BY <1>0, <2>1, SoundStepKeepsGate
<1> QED
  BY <1>52, <1>53

\* Whatever interleaving, row order, stall, fault or crash: a READY task has a
\* manifest, and every manifest is for a commit with its own green evidence.
THEOREM ReadySafe == Spec => []ReadyCommitVerified
<1>1. GateInv => ReadyCommitVerified
  BY DEF GateInv
<1> QED
  BY <1>1, InitGate, StepGate, PTL DEF Spec

\* Whatever happens between a merge request's reads and its merge, only verified
\* commits reach the default branch.
THEOREM MergeSafe == Spec => []MergedCommitVerified
<1>1. GateInv => MergedCommitVerified
  BY DEF GateInv
<1> QED
  BY <1>1, InitGate, StepGate, PTL DEF Spec

-----------------------------------------------------------------------------
(***************************************************************************)
(* A task is never at rest inside the gate.                                *)
(***************************************************************************)

\* A runner at one of these steps takes the task out of the gate, or fails into its catch block.
Attending ==
  {"runTests", "testsFailed", "testsPassed", "reportCi", "review", "sendBack", "reviewRuns",
   "reviewGate", "await", "manifest", "promote", "catch", "unstrand"}

\* A task in the gate is attended, and no request is about to put it there.
Attended ==
  /\ \A c \in Calls : goal[c] \notin {"TESTING", "REVIEWING"}
  /\ task \in {"TESTING", "REVIEWING"} => \E j \in Jobs : pc[j] \in Attending

\* A step keeps the task attended if only the runner that takes it out of the gate leaves.
AttendedStep ==
  /\ \A c \in Calls : goal'[c] \notin {"TESTING", "REVIEWING"}
  /\ task' \in {"TESTING", "REVIEWING"} =>
       \/ \E j \in Jobs : pc'[j] \in Attending
       \/ /\ task \in {"TESTING", "REVIEWING"}
          /\ \A j \in Jobs : pc[j] \in Attending => pc'[j] \in Attending

\* Such a step keeps it.
LEMMA AttendedStays == ASSUME Attended, AttendedStep PROVE Attended'
  BY DEF Attended, AttendedStep

\* Nobody vanishes without a handler, and no person moves a task into the gate.
NobodyLeavesItThere == MaxCrashes = 0 /\ ManualTargets \cap {"TESTING", "REVIEWING"} = {}

\* Every handler's step is one.
LEMMA StepAttended == ASSUME NobodyLeavesItThere, TypeOK, Attended, [Next]_vars PROVE Attended'
<1> USE DEF Goto, At, Attending
<1>0. /\ pc \in [Processes -> Labels] /\ goal \in [Calls -> States]
      /\ \A c \in Calls : goal[c] \notin {"TESTING", "REVIEWING"}
  BY DEF TypeOK, Attended
<1>1. ASSUME NEW j \in Jobs, Claim(j) \/ Checkout(j) PROVE AttendedStep
  BY <1>0, <1>1 DEF AttendedStep, Claim, Checkout
<1>2. ASSUME NEW j \in Jobs, RebaseConflict(j) \/ TestsFailed(j) \/ Unstrand(j) PROVE AttendedStep
  BY <1>0, <1>2 DEF AttendedStep, RebaseConflict, TestsFailed, Unstrand
<1>3. ASSUME NEW j \in Jobs, Push(j) \/ PushRejected(j) PROVE AttendedStep
  BY <1>0, <1>3 DEF AttendedStep, Push, PushRejected
<1>4. ASSUME NEW j \in Jobs, RecordRun(j) \/ TestCheck(j) PROVE AttendedStep
  BY <1>0, <1>4 DEF AttendedStep, RecordRun, TestCheck, Abort
<1>5. ASSUME NEW j \in Jobs, EnterTesting(j) \/ RunTests(j) PROVE AttendedStep
  BY <1>0, <1>5 DEF AttendedStep, EnterTesting, RunTests
<1>6. ASSUME NEW j \in Jobs, TestsPassed(j) \/ ReportCi(j) PROVE AttendedStep
  BY <1>0, <1>6 DEF AttendedStep, TestsPassed, ReportCi
<1>7. ASSUME NEW j \in Jobs, CloseRun(j) \/ CloseJob(j) \/ AutoVerify(j) PROVE AttendedStep
  BY <1>0, <1>7 DEF AttendedStep, CloseRun, CloseJob, AutoVerify
<1>8. ASSUME NEW j \in Jobs, Catch(j) PROVE AttendedStep
  BY <1>0, <1>8 DEF AttendedStep, Catch, strandedInFlight
<1>9. ASSUME NEW j \in Jobs, FailJob(j) \/ FailRun(j) PROVE AttendedStep
  BY <1>0, <1>9 DEF AttendedStep, FailJob, FailRun
<1>10. ASSUME NEW j \in Jobs, Fault(j) \/ ResumeJob(j) PROVE AttendedStep
  BY <1>0, <1>10 DEF AttendedStep, Fault, ResumeJob
<1>11. ASSUME NEW p \in Processes, ReviewRefused(p) \/ ReviewFails(p) \/ ReviewPasses(p) PROVE AttendedStep
  BY <1>0, <1>11, ProcessesDistinct DEF AttendedStep, ReviewRefused, ReviewFails, ReviewPasses,
     Abort
<1>12. ASSUME NEW p \in Processes, SendBack(p) \/ AwaitE2e(p) \/ Promote(p) PROVE AttendedStep
  BY <1>0, <1>12 DEF AttendedStep, SendBack, AwaitE2e, Promote
<1>13. ASSUME NEW p \in Processes, CompleteCheck(p) \/ ReadRuns(p) PROVE AttendedStep
  BY <1>0, <1>13 DEF AttendedStep, CompleteCheck, ReadRuns, Abort
<1>14. ASSUME NEW p \in Processes, GatePasses(p) \/ GateAwaitsE2e(p) \/ GateBlocks(p) PROVE AttendedStep
  BY <1>0, <1>14 DEF AttendedStep, GatePasses, GateAwaitsE2e, GateBlocks, Abort
<1>15. ASSUME NEW p \in Processes, WriteManifest(p) \/ OpenE2e(p) PROVE AttendedStep
  BY <1>0, <1>15 DEF AttendedStep, WriteManifest, OpenE2e
<1>16. ASSUME NEW p \in Processes, Crash(p) PROVE FALSE
  BY <1>16 DEF Crash, TypeOK, NobodyLeavesItThere
<1>17. ASSUME NEW v \in Verifications, Recorder(v) PROVE AttendedStep
  BY <1>0, <1>17, ProcessesDistinct DEF AttendedStep, Recorder, RecordEvidence, CloseE2e, Recheck
<1>18. ASSUME NEW c \in Calls, CallTransition(c) PROVE AttendedStep
  BY <1>0, <1>18, ProcessesDistinct DEF AttendedStep, CallTransition, Begin, Unstored,
     NobodyLeavesItThere
<1>19. ASSUME NEW c \in Calls, CallImplement(c) \/ CallRebase(c) \/ CallReplan(c) PROVE AttendedStep
  BY <1>0, <1>19, ProcessesDistinct DEF AttendedStep, CallImplement, CallRebase, CallReplan,
     Begin, Unstored
<1>20. ASSUME NEW c \in Calls, CallReview(c) \/ CallComplete(c) \/ CallVerify(c) PROVE AttendedStep
  BY <1>0, <1>20, ProcessesDistinct DEF AttendedStep, CallReview, CallComplete, CallVerify,
     Begin, Unstored
<1>21. ASSUME NEW c \in Calls, CallCancel(c) \/ CallMerge(c) PROVE AttendedStep
  BY <1>0, <1>21, ProcessesDistinct DEF AttendedStep, CallCancel, CallMerge, Begin, Unstored
<1>22. ASSUME NEW c \in Calls, Serve(c) PROVE AttendedStep
  BY <1>0, <1>22, ProcessesDistinct DEF AttendedStep, Serve, ResolveMerge, MergePullRequest,
     Move, Save
<1>23. CASE UNCHANGED vars
  BY <1>23 DEF Attended, vars
<1>24. CASE Next
  <2>1. AttendedStep
    BY <1>24, <1>1, <1>2, <1>3, <1>4, <1>5, <1>6, <1>7, <1>8, <1>9, <1>10, <1>11, <1>12, <1>13,
       <1>14, <1>15,
       <1>16, <1>17, <1>18, <1>19, <1>20, <1>21, <1>22 DEF Next, Runner, Review, Call
  <2> QED
    BY <2>1, AttendedStays
<1> QED
  BY <1>23, <1>24

\* As long as no process is killed and no person moves a task into the gate by hand, every step that
\* may throw, every stall and every interleaving leaves a task in TESTING or REVIEWING to a runner
\* that is still there to take it out (the catch block of run-execution-job.ts).
THEOREM NeverAtRest == ASSUME NobodyLeavesItThere PROVE Spec => []NeverAtRestInGate
<1>1. Init => Attended
  BY DEF Init, Attended
<1>2. Attended => NeverAtRestInGate
  BY DEF Attended, NeverAtRestInGate, Attending
<1>3. TypeOK /\ Attended /\ [Next]_vars => Attended'
  BY StepAttended
<1> QED
  BY <1>1, <1>2, <1>3, TypeCorrect, PTL DEF Spec

-----------------------------------------------------------------------------
(***************************************************************************)
(* READY is for the newest commit.                                         *)
(***************************************************************************)

\* One request after the other, rows in order, no job taken from its runner.
OneAfterTheOther ==
  /\ ConcurrentCalls <= 1 /\ StoreOrdered /\ ~Stalls
  /\ "cancel" \notin Operations

\* No request is about to add a run while a recorder goes by the runs it has read.
Undisturbed ==
  \A v \in Verifications : pc[v] \in {"completeGate", "manifest", "promote"} =>
    \A c \in Calls : pc[c] \notin {"save", "moveAndSave"}

RecorderLabels ==
  {"idle", "closeProven", "closeNotProven", "recheck", "complete", "completeRuns", "completeGate",
   "manifest", "promote", "done", "dead"}

\* The steps of a runner that follow its record of the commit.
Recorded == RunnerBusy \ {"checkout", "push", "recordRun"}
Failing == {"catch", "unstrand", "failJob", "failRun"}

Latest == runs[Len(runs)].commit
RecordedBy(j) == runs[jobs[j].run].commit

\* What a runner's rows say of it: its job is in flight as long as it works, on the newest
\* run, whose commit is none, then the runner's own, and no other ever after.
RowsOf(j) ==
  /\ pc[j] \notin {"complete", "completeRuns", "completeGate"}
  /\ pc[j] \in RunnerBusy \cup {"catch", "unstrand", "failJob"} => jobs[j].status = "IN_FLIGHT"
  /\ pc[j] = "failRun" => jobs[j].status = "ENDED"
  /\ jobs[j].status # "UNBORN" => jobs[j].run \in DOMAIN runs
  /\ jobs[j].status = "IN_FLIGHT" => jobs[j].run = Len(runs)
  /\ jobs[j].status = "IN_FLIGHT" /\ pc[j] \notin Recorded \cup Failing \cup {"dead"} =>
       RecordedBy(j) = NoCommit
  /\ pc[j] = "recordRun" => jobs[j].commit = j
  /\ pc[j] \in Recorded => jobs[j].commit = j /\ RecordedBy(j) = j
  /\ pc[j] \in Failing => RecordedBy(j) \in {NoCommit, jobs[j].commit}

\* What a process past its read of the runs goes by is still the newest commit.
Current(p) ==
  /\ pc[p] \in {"reviewGate", "completeGate"} => seen[p] = NoCommit \/ (runs # <<>> /\ seen[p] = Latest)
  /\ pc[p] \in {"manifest", "promote"} => runs # <<>> /\ seen[p] = Latest /\ Latest # NoCommit
  /\ pc[p] = "promote" => manifests # <<>> /\ manifests[Len(manifests)] = Latest

\* A request about to add a run adds it to a task that is IMPLEMENTING and idle.
Admitted(c) ==
  /\ pc[c] \in {"save", "moveAndSave"} => \A j \in Jobs : jobs[j].status # "IN_FLIGHT"
  /\ pc[c] = "save" => task = "IMPLEMENTING"
  /\ pc[c] = "moveAndSave" => goal[c] = "IMPLEMENTING"

LatestInv ==
  /\ \A j \in Jobs : RowsOf(j)
  /\ \A i, j \in Jobs : jobs[i].status # "UNBORN" /\ jobs[j].status # "UNBORN"
                        /\ jobs[i].run = jobs[j].run => i = j
  /\ \A p \in Processes : Current(p)
  /\ \A v \in Verifications : pc[v] \in RecorderLabels
  /\ \A c \in Calls : Admitted(c)
  /\ \A c, d \in InProgress : c = d
  /\ task = "READY" => /\ runs # <<>> /\ manifests # <<>>
                       /\ manifests[Len(manifests)] = Latest /\ Latest # NoCommit

\* What a step of p may do: write its own row and its run's commit once, add a manifest for the
\* newest commit, and write the task if its job is in flight, its request in progress, or it is a
\* recorder's and no run is about to be added.
OrderlyStep(p) ==
  /\ \A q \in Processes \ {p} : pc'[q] = pc[q] /\ seen'[q] = seen[q]
  /\ \A c \in Calls \ {p} : goal'[c] = goal[c]
  /\ \A j \in Jobs \ {p} : jobs'[j] = jobs[j]
  /\ Len(runs') = Len(runs)
  /\ \A i \in DOMAIN runs : \/ runs'[i].commit = runs[i].commit
                            \/ /\ p \in Jobs /\ jobs[p].status # "UNBORN"
                               /\ i = jobs[p].run /\ runs[i].commit = NoCommit
  /\ p \in Jobs => /\ RowsOf(p)'
                   /\ jobs'[p].run = jobs[p].run
                   /\ jobs'[p].status # "UNBORN" => jobs[p].status # "UNBORN"
                   /\ jobs'[p].status = "IN_FLIGHT" => jobs[p].status = "IN_FLIGHT"
  /\ p \in Calls => /\ Admitted(p)'
                    /\ pc'[p] \notin {"idle", "done", "dead"} => InProgress \subseteq {p}
  /\ p \in Verifications => pc'[p] \in RecorderLabels
  /\ Current(p)'
  /\ \/ task' = task
     \/ p \in Jobs /\ jobs[p].status = "IN_FLIGHT"
     \/ p \in InProgress
     \/ p \in Verifications /\ \A c \in Calls : pc[c] # "save"
  /\ \/ manifests' = manifests
     \/ runs # <<>> /\ Latest # NoCommit /\ manifests' = Append(manifests, Latest)
  /\ task' = "READY" /\ task # "READY" => /\ runs # <<>> /\ manifests # <<>>
                                          /\ manifests[Len(manifests)] = Latest /\ Latest # NoCommit

\* The newest commit, once it is one, is the newest until the next run.
LEMMA LatestIsSettled ==
  ASSUME TypeOK, NEW p \in Processes, OrderlyStep(p), runs # <<>>, Latest # NoCommit
  PROVE  runs' # <<>> /\ Latest' = Latest
<1>1. Len(runs) \in DOMAIN runs /\ Len(runs') = Len(runs)
  BY DEF TypeOK, OrderlyStep
<1>2. runs'[Len(runs)].commit = runs[Len(runs)].commit
  BY <1>1 DEF OrderlyStep, Latest
<1>3. runs' # <<>>
  BY <1>1 DEF TypeOK
<1> QED
  BY <1>1, <1>2, <1>3 DEF Latest

\* What is appended is last.
LEMMA AppendedLast ==
  ASSUME NEW S, NEW s \in Seq(S), NEW e
  PROVE  Len(Append(s, e)) = Len(s) + 1 /\ Append(s, e)[Len(s) + 1] = e
  OBVIOUS

\* The last manifest is the one that was last, or the one that was added.
LEMMA LastManifest ==
  ASSUME TypeOK, NEW p \in Processes, OrderlyStep(p), manifests # <<>>,
         manifests[Len(manifests)] = Latest
  PROVE  manifests' # <<>> /\ manifests'[Len(manifests')] = Latest
<1>1. CASE manifests' = manifests
  BY <1>1
<1>2. CASE Latest # NoCommit /\ manifests' = Append(manifests, Latest)
  <2>1. manifests \in Seq(CommitOrNone) /\ Len(manifests) \in Nat
    BY DEF TypeOK
  <2>2. PICK c : c = Latest
    OBVIOUS
  <2>3. Len(Append(manifests, c)) = Len(manifests) + 1 /\ Append(manifests, c)[Len(manifests) + 1] = c
    BY <2>1, AppendedLast
  <2>4. Append(manifests, c) # <<>>
    BY <2>1, <2>3
  <2> QED
    BY <1>2, <2>2, <2>3, <2>4
<1> QED
  BY <1>1, <1>2 DEF OrderlyStep

\* What a job's rows say is not changed by a step of another.
LEMMA RowsStay ==
  ASSUME TypeOK, LatestInv, NEW p \in Processes, OrderlyStep(p), NEW j \in Jobs, j # p
  PROVE  RowsOf(j)'
<1>1. pc'[j] = pc[j] /\ jobs'[j] = jobs[j] /\ Len(runs') = Len(runs) /\ RowsOf(j)
  BY DEF OrderlyStep, LatestInv
<1>2. DOMAIN runs' = DOMAIN runs
  BY <1>1 DEF TypeOK, OrderlyStep
<1>3. jobs[j].status # "UNBORN" => RecordedBy(j)' = RecordedBy(j)
  <2> SUFFICES ASSUME jobs[j].status # "UNBORN" PROVE RecordedBy(j)' = RecordedBy(j)
    OBVIOUS
  <2>1. jobs[j].run \in DOMAIN runs
    BY <1>1 DEF RowsOf
  <2>2. runs'[jobs[j].run].commit = runs[jobs[j].run].commit
    BY <2>1 DEF OrderlyStep, LatestInv
  <2> QED
    BY <1>1, <2>2 DEF RecordedBy
<1>4. pc[j] \in Recorded \cup Failing => jobs[j].status # "UNBORN"
  BY <1>1 DEF RowsOf, Recorded, Failing
<1> QED
  BY <1>1, <1>2, <1>3, <1>4 DEF RowsOf

\* An orderly step keeps all of it.
LEMMA OrderlyStepKeeps ==
  ASSUME TypeOK, TypeOK', LatestInv, NEW p \in Processes, OrderlyStep(p)
  PROVE  LatestInv'
<1>1. ASSUME NEW j \in Jobs PROVE RowsOf(j)'
  BY <1>1, RowsStay DEF OrderlyStep
<1>2. ASSUME NEW i \in Jobs, NEW j \in Jobs, jobs'[i].status # "UNBORN", jobs'[j].status # "UNBORN",
             jobs'[i].run = jobs'[j].run
      PROVE  i = j
  <2>1. ASSUME NEW k \in Jobs, jobs'[k].status # "UNBORN"
        PROVE  jobs[k].status # "UNBORN" /\ jobs'[k].run = jobs[k].run
    BY <2>1 DEF OrderlyStep
  <2> QED
    BY <1>2, <2>1 DEF LatestInv
<1>3. ASSUME NEW q \in Processes PROVE Current(q)'
  <2>1. CASE q = p
    BY <2>1 DEF OrderlyStep
  <2>2. CASE q # p
    <3>1. pc'[q] = pc[q] /\ seen'[q] = seen[q] /\ Current(q)
      BY <2>2 DEF OrderlyStep, LatestInv
    <3>2. pc[q] \in {"reviewGate", "completeGate"} => seen[q] = NoCommit \/ (runs' # <<>> /\ seen[q] = Latest')
      BY <3>1, LatestIsSettled DEF Current
    <3>3. pc[q] \in {"manifest", "promote"} => runs' # <<>> /\ seen[q] = Latest' /\ Latest' # NoCommit
      BY <3>1, LatestIsSettled DEF Current
    <3>4. pc[q] = "promote" => manifests' # <<>> /\ manifests'[Len(manifests')] = Latest'
      BY <3>1, LatestIsSettled, LastManifest DEF Current
    <3> QED
      BY <3>1, <3>2, <3>3, <3>4 DEF Current
  <2> QED
    BY <2>1, <2>2
<1>4. ASSUME NEW c \in Calls PROVE Admitted(c)'
  <2>1. CASE c = p
    BY <2>1 DEF OrderlyStep
  <2>2. CASE c # p
    <3>1. pc'[c] = pc[c] /\ goal'[c] = goal[c] /\ Admitted(c)
      BY <2>2 DEF OrderlyStep, LatestInv
    <3>2. ASSUME pc[c] \in {"save", "moveAndSave"} PROVE \A j \in Jobs : jobs'[j].status # "IN_FLIGHT"
      BY <3>1, <3>2 DEF Admitted, OrderlyStep
    <3>3. ASSUME pc[c] = "save" PROVE task' = task
      <4>1. c \in InProgress /\ p \notin InProgress
        BY <2>2, <3>3 DEF InProgress, LatestInv
      <4> QED
        BY <3>1, <3>3, <4>1 DEF Admitted, OrderlyStep
    <3> QED
      BY <3>1, <3>2, <3>3 DEF Admitted
  <2> QED
    BY <2>1, <2>2
<1>5. ASSUME NEW c \in InProgress', NEW d \in InProgress' PROVE c = d
  <2>1. ASSUME NEW e \in InProgress', e # p PROVE e \in InProgress
    BY <2>1 DEF InProgress, OrderlyStep
  <2>2. p \in InProgress' => InProgress \subseteq {p}
    BY DEF InProgress, OrderlyStep
  <2> QED
    BY <2>1, <2>2 DEF LatestInv
<1>6. ASSUME task' = "READY"
      PROVE  /\ runs' # <<>> /\ manifests' # <<>>
             /\ manifests'[Len(manifests')] = Latest' /\ Latest' # NoCommit
  <2>1. runs # <<>> /\ manifests # <<>> /\ manifests[Len(manifests)] = Latest /\ Latest # NoCommit
    BY <1>6 DEF OrderlyStep, LatestInv
  <2> QED
    BY <2>1, LatestIsSettled, LastManifest
<1>7. ASSUME NEW v \in Verifications PROVE pc'[v] \in RecorderLabels
  BY <1>7 DEF OrderlyStep, LatestInv
<1> QED
  BY <1>1, <1>2, <1>3, <1>4, <1>5, <1>6, <1>7 DEF LatestInv

-----------------------------------------------------------------------------
\* A step that leaves rows, manifests and what was read alone, and moves a runner on.
LEMMA RunnerMoves ==
  ASSUME TypeOK, LatestInv, NEW j \in Jobs, NEW label, pc' = [pc EXCEPT ![j] = label],
         runs' = runs, jobs' = jobs, manifests' = manifests, seen' = seen, goal' = goal,
         \/ pc[j] \in Recorded /\ label \in Recorded \ {"reviewGate", "manifest", "promote"}
         \/ pc[j] \in RunnerBusy /\ label = "catch"
         \/ pc[j] \in {"catch", "unstrand"} /\ label \in {"unstrand", "failJob"}
         \/ pc[j] \notin RunnerBusy \cup Failing \cup {"dead"} /\ label \in {"done", "openE2e"}
         \/ pc[j] = "idle" /\ jobs[j].status = "IN_FLIGHT" /\ label = "checkout"
         \/ label = "dead",
         \/ task' = task
         \/ task' # "READY" /\ pc[j] \in RunnerBusy \cup {"catch", "unstrand"}
  PROVE  OrderlyStep(j)
<1>1. /\ pc'[j] = label /\ RowsOf(j) /\ j \notin Calls \cup Verifications /\ RecordedBy(j)' = RecordedBy(j)
      /\ \A q \in Processes \ {j} : pc'[q] = pc[q]
  BY ProcessesDistinct DEF TypeOK, LatestInv, RecordedBy
<1>2. RowsOf(j)'
  BY <1>1 DEF RowsOf, Recorded, Failing
<1>3. Current(j)'
  BY <1>1 DEF Current, Recorded
<1>4. pc[j] \in RunnerBusy \cup {"catch", "unstrand"} => jobs[j].status = "IN_FLIGHT"
  BY <1>1 DEF RowsOf
<1> QED
  BY <1>1, <1>2, <1>3, <1>4 DEF OrderlyStep

\* A step that leaves rows and manifests alone and moves a request on.
LEMMA CallMoves ==
  ASSUME TypeOK, LatestInv, NEW c \in Calls, NEW label, pc' = [pc EXCEPT ![c] = label],
         runs' = runs, jobs' = jobs, manifests' = manifests,
         \A q \in Processes \ {c} : seen'[q] = seen[q],
         \A d \in Calls \ {c} : goal'[d] = goal[d],
         label \notin {"reviewGate", "completeGate", "manifest", "promote", "save", "moveAndSave"},
         InProgress \subseteq {c},
         task' = task \/ (task' # "READY" /\ c \in InProgress)
  PROVE  OrderlyStep(c)
<1>1. /\ pc'[c] = label /\ c \notin Jobs \cup Verifications
      /\ \A q \in Processes \ {c} : pc'[q] = pc[q]
  BY ProcessesDistinct DEF TypeOK
<1>2. Current(c)' /\ Admitted(c)'
  BY <1>1 DEF Current, Admitted
<1> QED
  BY <1>1, <1>2 DEF OrderlyStep

\* A step that leaves task, rows and manifests alone and moves a recorder on.
LEMMA RecorderMoves ==
  ASSUME TypeOK, LatestInv, NEW v \in Verifications, NEW label, pc' = [pc EXCEPT ![v] = label],
         runs' = runs, jobs' = jobs, manifests' = manifests, seen' = seen, goal' = goal, task' = task,
         label \in RecorderLabels \ {"completeGate", "manifest", "promote"}
  PROVE  OrderlyStep(v)
<1>1. /\ pc'[v] = label /\ v \notin Jobs \cup Calls
      /\ \A q \in Processes \ {v} : pc'[q] = pc[q]
  BY ProcessesDistinct DEF TypeOK
<1>2. Current(v)'
  BY <1>1 DEF Current, RecorderLabels
<1> QED
  BY <1>1, <1>2 DEF OrderlyStep

\* A request in progress is the only one.
LEMMA OnlyCall ==
  ASSUME LatestInv, NEW c \in Calls, pc[c] \notin {"idle", "done", "dead"}
  PROVE  c \in InProgress /\ InProgress \subseteq {c}
  BY DEF LatestInv, InProgress

\* A request begins when none is in progress.
LEMMA BeginsAlone ==
  ASSUME TypeOK, ConcurrentCalls <= 1, NEW c \in Calls, NEW o, NEW l, Begin(c, o, l)
  PROVE  InProgress = {} /\ pc[c] = "idle" /\ pc' = [pc EXCEPT ![c] = l]
<1>1. IsFiniteSet(InProgress)
  BY CallsAreFinite, FS_Subset DEF InProgress
<1>2. Cardinality(InProgress) \in Nat /\ (Cardinality(InProgress) = 0 <=> InProgress = {})
  BY <1>1, FS_CardinalityType, FS_EmptySet
<1>3. Cardinality(InProgress) < ConcurrentCalls
  BY DEF Begin
<1>4. Cardinality(InProgress) = 0
  BY <1>2, <1>3, BudgetsAreNat
<1> QED
  BY <1>2, <1>4 DEF Begin, At, Goto

\* In order, the latest commit a handler reads is that of the last run.
LEMMA LatestIsLast ==
  ASSUME TypeOK, StoreOrdered, NEW p, NEW c \in LatestCommits(p)
  PROVE  c = NoCommit \/ (runs # <<>> /\ c = Latest)
<1>1. CASE runs = <<>>
  BY <1>1 DEF LatestCommits
<1>2. CASE runs # <<>>
  <2>1. Len(runs) \in DOMAIN runs /\ \A i \in DOMAIN runs : i <= Len(runs)
    BY <1>2 DEF TypeOK
  <2>2. PICK i \in DOMAIN runs : c = runs[i].commit /\ \A k \in DOMAIN runs : k <= i
    BY <1>2 DEF LatestCommits, Newest
  <2>3. i = Len(runs)
    BY <2>1, <2>2 DEF TypeOK
  <2> QED
    BY <1>2, <2>2, <2>3 DEF Latest
<1> QED
  BY <1>1, <1>2

\* The runner's steps.
LEMMA RunnerIsOrderly ==
  ASSUME TypeOK, TypeOK', LatestInv, NEW j \in Jobs, Runner(j)
  PROVE  OrderlyStep(j)
<1> USE DEF Goto, At
<1>0. /\ pc \in [Processes -> Labels] /\ seen \in [Processes -> CommitOrNone] /\ jobs \in [Jobs -> JobRows]
      /\ goal \in [Calls -> States] /\ j \notin Calls \cup Verifications /\ RowsOf(j) /\ jobs[j] \in JobRows
  BY ProcessesDistinct DEF TypeOK, LatestInv
<1>1. CASE Claim(j) \/ TestCheck(j) \/ EnterTesting(j) \/ RunTests(j)
  BY <1>0, <1>1, RunnerMoves DEF Claim, TestCheck, EnterTesting, RunTests, Abort, Recorded
<1>2. CASE RebaseConflict(j) \/ TestsFailed(j) \/ TestsPassed(j) \/ ReportCi(j)
  BY <1>0, <1>2, RunnerMoves DEF RebaseConflict, TestsFailed, TestsPassed, ReportCi, Recorded
<1>3. CASE Catch(j) \/ Unstrand(j)
  BY <1>0, <1>3, RunnerMoves DEF Catch, Unstrand
<1>4. CASE Checkout(j) \/ Push(j) \/ PushRejected(j)
  <2>1. PICK commit, label :
          /\ jobs' = [jobs EXCEPT ![j] = [jobs[j] EXCEPT !.status = "IN_FLIGHT", !.commit = commit]]
          /\ pc' = [pc EXCEPT ![j] = label] /\ label \in {"push", "recordRun", "catch"}
          /\ label = "recordRun" => commit = j
    BY <1>4 DEF Checkout, Push, PushRejected, Rewrite, UpdateJob
  <2>2. /\ pc[j] \in {"checkout", "push"} /\ runs' = runs /\ task' = task /\ manifests' = manifests
        /\ goal' = goal /\ \A q \in Processes \ {j} : seen'[q] = seen[q]
    BY <1>0, <1>4 DEF Checkout, Push, PushRejected
  <2>3. /\ jobs[j].status = "IN_FLIGHT" /\ RecordedBy(j) = NoCommit
        /\ jobs[j].run \in DOMAIN runs /\ jobs[j].run = Len(runs)
    BY <1>0, <2>2 DEF RowsOf, Recorded, Failing
  <2>4. /\ jobs'[j].status = "IN_FLIGHT" /\ jobs'[j].commit = commit /\ jobs'[j].run = jobs[j].run
        /\ \A k \in Jobs \ {j} : jobs'[k] = jobs[k]
    BY <1>0, <2>1 DEF JobRows
  <2>5. pc'[j] = label /\ \A q \in Processes \ {j} : pc'[q] = pc[q]
    BY <1>0, <2>1
  <2>6. RecordedBy(j)' = NoCommit
    BY <2>2, <2>3, <2>4 DEF RecordedBy
  <2>7. RowsOf(j)'
    BY <2>1, <2>2, <2>3, <2>4, <2>5, <2>6 DEF RowsOf, Recorded, Failing
  <2>8. Current(j)'
    BY <2>1, <2>5 DEF Current
  <2> QED
    BY <1>0, <2>2, <2>3, <2>4, <2>5, <2>7, <2>8 DEF OrderlyStep
<1>5. CASE RecordRun(j) \/ CloseRun(j) \/ FailRun(j)
  <2>1. /\ jobs' = jobs /\ task' = task /\ manifests' = manifests /\ seen' = seen /\ goal' = goal
        /\ pc[j] \in {"recordRun", "closeRun", "failRun"}
    BY <1>5 DEF RecordRun, CloseRun, FailRun
  <2>2. jobs[j].run \in DOMAIN runs /\ jobs[j].status # "UNBORN"
    BY <1>0, <2>1 DEF RowsOf
  <2>3. PICK commit, status :
          /\ UpdateRun(jobs[j].run, commit, status)
          /\ RecordedBy(j) \in {NoCommit, commit}
          /\ pc[j] \in {"recordRun", "closeRun"} => commit = j
          /\ pc[j] = "failRun" => commit \in {NoCommit, jobs[j].commit}
    <3>1. CASE RecordRun(j)
      BY <1>0, <3>1 DEF RecordRun, RowsOf, Recorded, Failing
    <3>2. CASE CloseRun(j)
      BY <1>0, <3>2 DEF CloseRun, RowsOf, Recorded
    <3>3. CASE FailRun(j)
      <4>1. RecordedBy(j) \in {NoCommit, jobs[j].commit}
        BY <1>0, <3>3 DEF FailRun, RowsOf, Failing
      <4>2. CASE runs[jobs[j].run].status = "RUNNING"
        BY <3>3, <4>1, <4>2 DEF FailRun, RecordedBy
      <4>3. CASE runs[jobs[j].run].status # "RUNNING"
        <5>1. runs' = runs
          BY <3>3, <4>3 DEF FailRun
        <5>2. UpdateRun(jobs[j].run, runs[jobs[j].run].commit, runs[jobs[j].run].status)
          <6>1. runs[jobs[j].run] \in RunRows /\ runs = [i \in DOMAIN runs |-> runs[i]]
            BY <2>2 DEF TypeOK
          <6>2. runs[jobs[j].run] = [commit |-> runs[jobs[j].run].commit, status |-> runs[jobs[j].run].status]
            BY <6>1 DEF RunRows
          <6> QED
            BY <5>1, <6>1, <6>2 DEF UpdateRun
        <5> QED
          BY <3>3, <4>1, <5>2 DEF RecordedBy, FailRun
      <4> QED
        BY <4>2, <4>3
    <3> QED
      BY <1>5, <3>1, <3>2, <3>3
  <2>4. /\ Len(runs') = Len(runs) /\ DOMAIN runs' = DOMAIN runs
        /\ \A i \in DOMAIN runs : i # jobs[j].run => runs'[i] = runs[i]
        /\ runs'[jobs[j].run].commit = commit
    BY <2>2, <2>3 DEF UpdateRun, TypeOK
  <2>5. pc'[j] \in {"testCheck", "closeJob", "done"} /\ (pc'[j] = "done" <=> pc[j] = "failRun")
        /\ \A q \in Processes \ {j} : pc'[q] = pc[q]
    BY <1>0, <1>5 DEF RecordRun, CloseRun, FailRun
  <2>6. RecordedBy(j)' = commit
    BY <2>1, <2>4 DEF RecordedBy
  <2>7. pc[j] # "failRun" => jobs[j].commit = j
    BY <1>0, <2>1 DEF RowsOf, Recorded
  <2>8. RowsOf(j)'
    BY <1>0, <2>1, <2>2, <2>3, <2>4, <2>5, <2>6, <2>7 DEF RowsOf, Recorded, Failing
  <2>9. Current(j)'
    BY <2>5 DEF Current
  <2> QED
    BY <1>0, <2>1, <2>2, <2>3, <2>4, <2>5, <2>8, <2>9 DEF OrderlyStep, RecordedBy
<1>6. CASE CloseJob(j) \/ FailJob(j)
  <2>1. /\ jobs' = [jobs EXCEPT ![j] = [jobs[j] EXCEPT !.status = "ENDED", !.commit = jobs[j].commit]]
        /\ runs' = runs /\ task' = task /\ manifests' = manifests /\ seen' = seen /\ goal' = goal
        /\ pc[j] \in {"closeJob", "failJob"}
        /\ pc'[j] = (IF pc[j] = "failJob" THEN "failRun" ELSE "autoVerify")
        /\ \A q \in Processes \ {j} : pc'[q] = pc[q]
    BY <1>0, <1>6 DEF CloseJob, FailJob, EndJob, UpdateJob
  <2>2. /\ jobs'[j].status = "ENDED" /\ jobs'[j].commit = jobs[j].commit /\ jobs'[j].run = jobs[j].run
        /\ \A k \in Jobs \ {j} : jobs'[k] = jobs[k]
    BY <1>0, <2>1 DEF JobRows
  <2>3. jobs[j].status = "IN_FLIGHT" /\ jobs[j].run \in DOMAIN runs
    BY <1>0, <2>1 DEF RowsOf
  <2>4. RecordedBy(j)' = RecordedBy(j)
    BY <2>1, <2>2 DEF RecordedBy
  <2>5. RowsOf(j)'
    BY <1>0, <2>1, <2>2, <2>3, <2>4 DEF RowsOf, Recorded, Failing
  <2>6. Current(j)'
    BY <2>1 DEF Current
  <2> QED
    BY <1>0, <2>1, <2>2, <2>3, <2>5, <2>6 DEF OrderlyStep
<1>7. CASE AutoVerify(j)
  <2>1. /\ runs' = runs /\ jobs' = jobs /\ task' = task /\ manifests' = manifests /\ goal' = goal
        /\ \A q \in Processes \ {j} : pc'[q] = pc[q] /\ seen'[q] = seen[q]
        /\ pc[j] = "autoVerify" /\ pc'[j] \in {"openE2e", "done"}
    BY <1>0, <1>7 DEF AutoVerify
  <2>2. RowsOf(j)'
    BY <1>0, <2>1 DEF RowsOf, Recorded, Failing, RecordedBy
  <2>3. Current(j)'
    BY <2>1 DEF Current
  <2> QED
    BY <1>0, <2>1, <2>2, <2>3 DEF OrderlyStep
<1> QED
  BY <1>1, <1>2, <1>3, <1>4, <1>5, <1>6, <1>7 DEF Runner

\* The reviews, by a runner, by a request or by a recorder.
LEMMA ReviewIsOrderly ==
  ASSUME GateInv, TypeOK', LatestInv, OneAfterTheOther, Undisturbed, NEW p \in Processes, Review(p)
  PROVE  OrderlyStep(p)
<1> USE DEF Goto, At
<1>0. /\ TypeOK /\ p \in Processes
      /\ p \in Jobs => p \notin Calls \cup Verifications
      /\ p \in Verifications => p \notin Calls /\ pc[p] \in RecorderLabels
      /\ pc \in [Processes -> Labels] /\ seen \in [Processes -> CommitOrNone]
      /\ pc[p] \notin {"idle", "done", "dead"}
      /\ p \in Jobs => RowsOf(p) /\ pc[p] \in Recorded
      /\ p \in Calls => p \in InProgress /\ InProgress \subseteq {p}
      /\ Current(p)
  <2>1. /\ TypeOK
        /\ p \in Jobs => p \notin Calls \cup Verifications
        /\ p \in Verifications => p \notin Calls /\ pc[p] \in RecorderLabels
        /\ pc \in [Processes -> Labels] /\ seen \in [Processes -> CommitOrNone]
    BY ProcessesDistinct DEF GateInv, LatestInv, TypeOK
  <2>2. pc[p] \in {"review", "sendBack", "complete", "reviewRuns", "completeRuns", "reviewGate", "completeGate",
                   "await", "manifest", "promote"}
    BY DEF Review, ReviewRefused, ReviewFails, ReviewPasses, SendBack, CompleteCheck, ReadRuns,
       GatePasses,
           GateAwaitsE2e, GateBlocks, AwaitE2e, WriteManifest, Promote
  <2>3. p \in Jobs => RowsOf(p)
    BY DEF LatestInv
  <2>4. p \in Jobs => pc[p] \in Recorded
    BY <2>2, <2>3 DEF RowsOf, Recorded
  <2>5. p \in Calls => p \in InProgress /\ InProgress \subseteq {p}
    BY <2>2, OnlyCall
  <2>6. Current(p)
    BY DEF LatestInv
  <2> QED
    BY <2>1, <2>2, <2>3, <2>4, <2>5, <2>6
<1>1. ASSUME NEW label, pc' = [pc EXCEPT ![p] = label],
             UNCHANGED <<rows, artifacts, origin, locals>>,
             \/ p \in Jobs /\ label \in (Recorded \ {"reviewGate", "manifest", "promote"}) \cup {"catch"}
             \/ p \in Calls /\ label \notin {"reviewGate", "completeGate", "manifest", "promote", "save", "moveAndSave"}
             \/ p \in Verifications /\ label \in RecorderLabels \ {"completeGate", "manifest", "promote"},
             task' = task \/ (task' # "READY" /\ p \notin Verifications)
      PROVE  OrderlyStep(p)
  <2>1. runs' = runs /\ jobs' = jobs /\ manifests' = manifests /\ seen' = seen /\ goal' = goal
    BY <1>1
  <2>2. CASE p \in Jobs
    <3>1. pc[p] \in RunnerBusy
      BY <1>0, <2>2 DEF Recorded
    <3> QED
      BY <1>0, <1>1, <2>1, <2>2, <3>1, RunnerMoves
  <2>3. CASE p \in Calls
    <3>1. label \notin {"reviewGate", "completeGate", "manifest", "promote", "save", "moveAndSave"}
      BY <1>0, <1>1, <2>3
    <3> QED
      BY <1>0, <1>1, <2>1, <2>3, <3>1, CallMoves
  <2>4. CASE p \in Verifications
    BY <1>0, <1>1, <2>1, <2>4, RecorderMoves
  <2> QED
    BY <1>0, <2>2, <2>3, <2>4
<1>2. CASE ReviewRefused(p) \/ ReviewFails(p) \/ ReviewPasses(p)
  BY <1>0, <1>1, <1>2 DEF ReviewRefused, ReviewFails, ReviewPasses, Abort, Recorded, RecorderLabels
<1>3. CASE SendBack(p) \/ AwaitE2e(p)
  BY <1>0, <1>1, <1>3 DEF SendBack, AwaitE2e, Leave, Abort, Recorded, RecorderLabels
<1>4. CASE CompleteCheck(p) \/ GateAwaitsE2e(p) \/ GateBlocks(p)
  BY <1>0, <1>1, <1>4 DEF CompleteCheck, GateAwaitsE2e, GateBlocks, Abort, Recorded, RecorderLabels
<1>5. CASE ReadRuns(p)
  <2>1. /\ runs' = runs /\ jobs' = jobs /\ manifests' = manifests /\ task' = task /\ goal' = goal
        /\ \A q \in Processes \ {p} : pc'[q] = pc[q] /\ seen'[q] = seen[q]
        /\ pc'[p] \in {"reviewGate", "completeGate"} /\ (p \in Jobs => pc'[p] = "reviewGate")
        /\ (p \in Verifications => pc'[p] = "completeGate")
    BY <1>0, <1>5 DEF ReadRuns, Recorded, RecorderLabels
  <2>2. PICK c \in LatestCommits(p) : seen' = [seen EXCEPT ![p] = c]
    BY <1>5 DEF ReadRuns
  <2>3. seen'[p] = NoCommit \/ (runs # <<>> /\ seen'[p] = Latest)
    BY <1>0, <2>2, LatestIsLast DEF OneAfterTheOther
  <2>4. Current(p)'
    BY <2>1, <2>3 DEF Current, Latest
  <2>5. p \in Jobs => RowsOf(p)'
    BY <1>0, <2>1 DEF RowsOf, Recorded, Failing, RecordedBy
  <2>6. p \in Calls => Admitted(p)'
    BY <2>1 DEF Admitted
  <2> QED
    BY <1>0, <2>1, <2>4, <2>5, <2>6 DEF OrderlyStep, RecorderLabels
<1>6. CASE GatePasses(p)
  <2>1. /\ runs' = runs /\ jobs' = jobs /\ manifests' = manifests /\ task' = task /\ goal' = goal /\ seen' = seen
        /\ \A q \in Processes \ {p} : pc'[q] = pc[q]
        /\ pc'[p] = "manifest"
    BY <1>0, <1>6 DEF GatePasses
  <2>2. seen[p] # NoCommit
    BY <1>0, <1>6, NoCommitIsNoJob DEF GatePasses, FormalGatesPass, hasExactCiReport, TypeOK
  <2>3. runs # <<>> /\ seen[p] = Latest /\ Latest # NoCommit
    BY <1>0, <1>6, <2>2 DEF Current, GatePasses
  <2>4. Current(p)'
    BY <2>1, <2>3 DEF Current, Latest
  <2>5. p \in Jobs => RowsOf(p)'
    BY <1>0, <2>1 DEF RowsOf, Recorded, Failing, RecordedBy
  <2>6. p \in Calls => Admitted(p)'
    BY <2>1 DEF Admitted
  <2> QED
    BY <1>0, <2>1, <2>4, <2>5, <2>6 DEF OrderlyStep, RecorderLabels
<1>7. CASE WriteManifest(p)
  <2>1. /\ runs' = runs /\ jobs' = jobs /\ manifests' = Append(manifests, seen[p]) /\ task' = task /\ goal' = goal
        /\ \A q \in Processes \ {p} : pc'[q] = pc[q]
        /\ seen' = seen /\ pc[p] = "manifest" /\ pc'[p] = "promote"
    BY <1>0, <1>7 DEF WriteManifest
  <2>2. runs # <<>> /\ seen[p] = Latest /\ Latest # NoCommit
    BY <1>0, <2>1 DEF Current
  <2>3. manifests' # <<>> /\ manifests'[Len(manifests')] = Latest
    <3>1. manifests \in Seq(CommitOrNone) /\ Len(manifests) \in Nat
      BY <1>0 DEF TypeOK
    <3>2. PICK c : c = seen[p]
      OBVIOUS
    <3>3. /\ Len(Append(manifests, c)) = Len(manifests) + 1
          /\ Append(manifests, c)[Len(manifests) + 1] = c
      BY <3>1, AppendedLast
    <3>4. Append(manifests, c) # <<>>
      BY <3>1, <3>3
    <3> QED
      BY <2>1, <2>2, <3>2, <3>3, <3>4
  <2>4. Current(p)'
    BY <2>1, <2>2, <2>3 DEF Current, Latest
  <2>5. p \in Jobs => RowsOf(p)'
    BY <1>0, <2>1 DEF RowsOf, Recorded, Failing, RecordedBy
  <2>6. p \in Calls => Admitted(p)'
    BY <2>1 DEF Admitted
  <2> QED
    BY <1>0, <2>1, <2>2, <2>4, <2>5, <2>6 DEF OrderlyStep, RecorderLabels
<1>8. CASE Promote(p)
  <2>1. /\ runs' = runs /\ jobs' = jobs /\ manifests' = manifests /\ goal' = goal
        /\ \A q \in Processes \ {p} : pc'[q] = pc[q]
        /\ seen' = seen /\ pc[p] = "promote" /\ pc'[p] = (IF p \in Jobs THEN "closeRun" ELSE "done")
    BY <1>0, <1>8 DEF Promote, Leave
  <2>2. /\ runs # <<>> /\ Latest # NoCommit
        /\ manifests # <<>> /\ manifests[Len(manifests)] = Latest
    BY <1>0, <2>1 DEF Current
  <2>3. Current(p)'
    BY <2>1 DEF Current
  <2>4. p \in Jobs => RowsOf(p)'
    BY <1>0, <2>1 DEF RowsOf, Recorded, Failing, RecordedBy
  <2>5. p \in Calls => Admitted(p)'
    BY <1>0, <2>1 DEF Admitted
  <2>6. p \in Jobs => jobs[p].status = "IN_FLIGHT"
    BY <1>0 DEF RowsOf, Recorded
  <2>7. p \in Verifications => pc'[p] = "done" /\ \A c \in Calls : pc[c] # "save"
    BY <1>0, <2>1, ProcessesDistinct DEF Undisturbed
  <2> QED
    BY <1>0, <2>1, <2>2, <2>3, <2>4, <2>5, <2>6, <2>7 DEF OrderlyStep, RecorderLabels
<1> QED
  BY <1>2, <1>3, <1>4, <1>5, <1>6, <1>7, <1>8 DEF Review

\* Requests that begin, and those that go on without a new run.
LEMMA RequestIsOrderly ==
  ASSUME GateInv, LatestInv, OneAfterTheOther, NEW c \in Calls,
         Call(c) \/ ResolveMerge(c) \/ MergePullRequest(c) \/ Move(c)
  PROVE  OrderlyStep(c)
<1> USE DEF Goto, At
<1>0. /\ TypeOK /\ c \in Processes /\ c \notin Jobs \cup Verifications
      /\ pc \in [Processes -> Labels] /\ seen \in [Processes -> CommitOrNone] /\ goal \in [Calls -> States]
      /\ ConcurrentCalls <= 1 /\ "cancel" \notin Operations
  BY ProcessesDistinct DEF GateInv, OneAfterTheOther, TypeOK
<1>1. ASSUME NEW operation, NEW label, Begin(c, operation, label), Unstored,
             label \notin {"reviewGate", "completeGate", "manifest", "promote", "save", "moveAndSave"},
             \A q \in Processes \ {c} : seen'[q] = seen[q],
             \A d \in Calls \ {c} : goal'[d] = goal[d]
      PROVE  OrderlyStep(c)
  BY <1>0, <1>1, BeginsAlone, CallMoves DEF Unstored
<1>2. CASE CallImplement(c) \/ CallRebase(c)
  <2>1. PICK operation, label :
          /\ Begin(c, operation, label)
          /\ label = (IF task = "IMPLEMENTING" THEN "save" ELSE "moveAndSave")
    BY <1>2 DEF CallImplement, CallRebase
  <2>2. /\ InProgress = {} /\ pc'[c] = label
        /\ \A q \in Processes \ {c} : pc'[q] = pc[q] /\ seen'[q] = seen[q]
        /\ \A d \in Calls \ {c} : goal'[d] = goal[d]
        /\ goal'[c] = "IMPLEMENTING"
    BY <1>0, <1>2, <2>1, BeginsAlone DEF CallImplement, CallRebase
  <2>3. /\ runs' = runs /\ jobs' = jobs /\ manifests' = manifests /\ task' = task
        /\ \A j \in Jobs : jobs[j].status # "IN_FLIGHT"
    BY <1>2 DEF CallImplement, CallRebase, Unstored, NothingInFlight
  <2>4. Admitted(c)' /\ Current(c)'
    BY <2>1, <2>2, <2>3 DEF Admitted, Current
  <2> QED
    BY <1>0, <2>2, <2>3, <2>4 DEF OrderlyStep
<1>3. CASE CallTransition(c) \/ CallReplan(c)
  BY <1>0, <1>1, <1>3 DEF CallTransition, CallReplan
<1>4. CASE CallReview(c) \/ CallComplete(c) \/ CallMerge(c)
  BY <1>0, <1>1, <1>4 DEF CallReview, CallComplete, CallMerge
<1>5. CASE CallVerify(c)
  BY <1>0, <1>1, <1>5 DEF CallVerify
<1>6. CASE CallCancel(c)
  BY <1>0, <1>6 DEF CallCancel, Begin
<1>7. CASE ResolveMerge(c) \/ MergePullRequest(c)
  <2>1. InProgress \subseteq {c}
    BY <1>7, OnlyCall DEF ResolveMerge, MergePullRequest
  <2>2. PICK label : pc' = [pc EXCEPT ![c] = label] /\ label \in {"done", "merge"}
    BY <1>7 DEF ResolveMerge, MergePullRequest
  <2>3. /\ runs' = runs /\ jobs' = jobs /\ manifests' = manifests /\ task' = task
        /\ \A q \in Processes \ {c} : seen'[q] = seen[q]
        /\ \A d \in Calls \ {c} : goal'[d] = goal[d]
    BY <1>0, <1>7 DEF ResolveMerge, MergePullRequest
  <2> QED
    BY <1>0, <2>1, <2>2, <2>3, CallMoves
<1>8. CASE Move(c)
  <2>1. /\ runs' = runs /\ jobs' = jobs /\ manifests' = manifests /\ seen' = seen /\ goal' = goal
        /\ \A q \in Processes \ {c} : pc'[q] = pc[q]
        /\ pc[c] \in {"move", "moveAndSave"} /\ task' = goal[c] /\ goal[c] # "READY"
        /\ pc'[c] = (IF pc[c] = "move" THEN "done" ELSE "save")
    BY <1>0, <1>8 DEF Move, GateInv
  <2>2. c \in InProgress /\ InProgress \subseteq {c}
    BY <2>1, OnlyCall
  <2>3. Admitted(c)' /\ Current(c)'
    BY <2>1 DEF Admitted, Current, LatestInv
  <2> QED
    BY <1>0, <2>1, <2>2, <2>3 DEF OrderlyStep
<1> QED
  BY <1>2, <1>3, <1>4, <1>5, <1>6, <1>7, <1>8 DEF Call

\* A recorder that takes up a job, closes it, or looks at the task again.
LEMMA RecorderIsOrderly ==
  ASSUME TypeOK, LatestInv, NEW v \in Verifications, Recorder(v)
  PROVE  OrderlyStep(v)
<1>1. PICK label :
        /\ pc' = [pc EXCEPT ![v] = label]
        /\ label \in {"closeProven", "closeNotProven", "recheck", "complete", "done"}
  BY DEF Recorder, RecordEvidence, CloseE2e, Recheck, At, Goto
<1>2. /\ runs' = runs /\ jobs' = jobs /\ manifests' = manifests
      /\ seen' = seen /\ goal' = goal /\ task' = task
  BY DEF Recorder, RecordEvidence, CloseE2e, Recheck
<1> QED
  BY <1>1, <1>2, RecorderMoves DEF RecorderLabels

\* A verification that is opened, by a runner or by a request.
LEMMA OpeningIsOrderly ==
  ASSUME TypeOK, LatestInv, NEW p \in Processes, OpenE2e(p)
  PROVE  OrderlyStep(p)
<1>1. /\ pc[p] = "openE2e" /\ pc' = [pc EXCEPT ![p] = "done"]
      /\ runs' = runs /\ jobs' = jobs /\ manifests' = manifests
      /\ seen' = seen /\ goal' = goal /\ task' = task
  BY DEF OpenE2e, At, Goto
<1>2. CASE p \in Jobs
  BY <1>1, <1>2, RunnerMoves DEF Failing
<1>3. CASE p \in Calls
  BY <1>1, <1>3, OnlyCall, CallMoves
<1>4. p \notin Verifications
  BY <1>1 DEF LatestInv, RecorderLabels
<1> QED
  BY <1>2, <1>3, <1>4

\* A new run and its job: whatever was newest is behind it, and nothing is READY.
LEMMA SaveKeeps ==
  ASSUME TypeOK, TypeOK', LatestInv, Undisturbed, NEW c \in Calls, Save(c)
  PROVE  LatestInv'
<1>0. PICK j \in Jobs, commit \in Inherited(c), dispatched \in BOOLEAN :
        /\ jobs[j].status = "UNBORN"
        /\ runs' = Append(runs, [commit |-> NoCommit,
                                 status |-> IF dispatched THEN "RUNNING" ELSE "FAILED"])
        /\ jobs' = [jobs EXCEPT ![j] = [kind |-> kind[c], run |-> Len(runs) + 1,
                                        status |-> IF dispatched THEN "IN_FLIGHT" ELSE "ENDED",
                                        commit |-> commit, born |-> Born + 1]]
  BY DEF Save
<1> DEFINE row == [commit |-> NoCommit, status |-> IF dispatched THEN "RUNNING" ELSE "FAILED"]
<1>1. /\ jobs[j].status = "UNBORN"
      /\ runs' = Append(runs, row) /\ row.commit = NoCommit
      /\ jobs'[j].run = Len(runs) + 1 /\ jobs'[j].status \in {"IN_FLIGHT", "ENDED"}
  BY <1>0 DEF TypeOK
<1> HIDE DEF row
<1>2. /\ pc[c] = "save" /\ pc'[c] = "done" /\ task' = task /\ manifests' = manifests
      /\ \A q \in Processes \ {c} : pc'[q] = pc[q]
      /\ seen' = seen /\ goal' = goal /\ c \notin Jobs /\ c \in Processes
  BY ProcessesDistinct DEF Save, At, Goto, TypeOK
<1>3. /\ task = "IMPLEMENTING" /\ \A k \in Jobs : jobs[k].status # "IN_FLIGHT"
      /\ InProgress \subseteq {c}
  BY <1>2, OnlyCall DEF LatestInv, Admitted
<1>4. /\ Len(runs) \in Nat /\ Len(runs') = Len(runs) + 1 /\ DOMAIN runs = 1..Len(runs)
      /\ DOMAIN runs' = 1..(Len(runs) + 1)
      /\ runs'[Len(runs) + 1].commit = NoCommit
      /\ \A i \in DOMAIN runs : runs'[i] = runs[i]
  BY <1>1 DEF TypeOK
<1>5. \A k \in Jobs \ {j} : jobs'[k] = jobs[k]
  BY <1>0 DEF TypeOK
<1>6. ASSUME NEW k \in Jobs PROVE RowsOf(k)'
  <2>1. RowsOf(k) /\ pc'[k] = pc[k] /\ pc[k] \notin RunnerBusy \cup {"catch", "unstrand", "failJob"}
    BY <1>2, <1>3 DEF LatestInv, RowsOf
  <2>2. CASE k = j
    <3>1. pc[k] \notin RunnerBusy \cup Failing
      BY <1>1, <2>1, <2>2 DEF RowsOf, Failing
    <3>2. jobs'[k].run \in DOMAIN runs' /\ jobs'[k].run = Len(runs') /\ RecordedBy(k)' = NoCommit
      BY <1>1, <1>4, <2>2 DEF RecordedBy
    <3> QED
      BY <2>1, <3>1, <3>2 DEF RowsOf, Recorded, Failing
  <2>3. CASE k # j
    <3>1. jobs'[k] = jobs[k] /\ jobs[k].status # "IN_FLIGHT"
      BY <1>3, <1>5, <2>3
    <3>2. jobs[k].status # "UNBORN" => jobs[k].run \in DOMAIN runs /\ jobs[k].run \in DOMAIN runs'
      BY <1>4, <2>1 DEF RowsOf
    <3>3. jobs[k].status # "UNBORN" => RecordedBy(k)' = RecordedBy(k)
      BY <1>4, <3>1, <3>2 DEF RecordedBy
    <3> QED
      BY <2>1, <3>1, <3>2, <3>3 DEF RowsOf, Recorded, Failing
  <2> QED
    BY <2>2, <2>3
<1>7. ASSUME NEW i \in Jobs, NEW k \in Jobs, jobs'[i].status # "UNBORN", jobs'[k].status # "UNBORN",
             jobs'[i].run = jobs'[k].run
      PROVE  i = k
  <2>1. ASSUME NEW l \in Jobs \ {j}, jobs'[l].status # "UNBORN" PROVE jobs'[l].run <= Len(runs)
    BY <1>4, <1>5, <2>1 DEF LatestInv, RowsOf
  <2>2. ASSUME NEW l \in Jobs \ {j}, jobs'[l].status # "UNBORN" PROVE jobs'[l].run # jobs'[j].run
    BY <1>1, <1>4, <2>1, <2>2
  <2> QED
    BY <1>5, <1>7, <2>2 DEF LatestInv
<1>8. ASSUME NEW p \in Processes PROVE Current(p)'
  <2>1. pc'[p] \notin {"reviewGate", "completeGate", "manifest", "promote"}
    <3>1. CASE p \in Jobs
      <4>1. RowsOf(p) /\ jobs[p].status # "IN_FLIGHT" /\ pc'[p] = pc[p]
        BY <1>2, <1>3, <3>1 DEF LatestInv
      <4> QED
        BY <4>1 DEF RowsOf
    <3>2. CASE p \in Calls
      BY <1>2, <1>3, <3>2 DEF InProgress
    <3>3. CASE p \in Verifications
      <4>1. pc'[p] = pc[p] /\ pc[p] \in RecorderLabels
        BY <1>2, <3>3, ProcessesDistinct DEF LatestInv
      <4> QED
        BY <1>2, <3>3, <4>1 DEF Undisturbed, RecorderLabels
    <3> QED
      BY <3>1, <3>2, <3>3
  <2> QED
    BY <2>1 DEF Current
<1>9. ASSUME NEW d \in Calls PROVE Admitted(d)' /\ pc'[d] \in {"idle", "done", "dead"}
  <2>1. pc'[d] \in {"idle", "done", "dead"}
    BY <1>2, <1>3 DEF InProgress
  <2> QED
    BY <2>1 DEF Admitted
<1>10. InProgress' = {}
  BY <1>9 DEF InProgress
<1>11. ASSUME NEW v \in Verifications PROVE pc'[v] \in RecorderLabels
  BY <1>2, <1>11, ProcessesDistinct DEF LatestInv
<1> QED
  BY <1>2, <1>3, <1>6, <1>7, <1>8, <1>9, <1>10, <1>11 DEF LatestInv

\* Before the first request there is neither a run nor a job.
LEMMA InitLatest == Init => LatestInv
<1> SUFFICES ASSUME Init PROVE LatestInv
  OBVIOUS
<1>1. /\ \A p \in Processes : pc[p] = "idle"
      /\ \A j \in Jobs : jobs[j].status = "UNBORN"
      /\ task = "PLANNED"
  BY DEF Init
<1>2. \A j \in Jobs : RowsOf(j)
  BY <1>1 DEF RowsOf, Recorded, Failing
<1>3. /\ \A p \in Processes : Current(p)
      /\ \A v \in Verifications : pc[v] \in RecorderLabels
  BY <1>1 DEF Current, RecorderLabels
<1>4. \A c \in Calls : Admitted(c)
  BY <1>1 DEF Admitted
<1>5. InProgress = {}
  BY <1>1 DEF InProgress
<1> QED
  BY <1>1, <1>2, <1>3, <1>4, <1>5 DEF LatestInv

\* Every step is orderly, or adds a run.
LEMMA StepLatest ==
  ASSUME OneAfterTheOther, Undisturbed, GateInv, TypeOK', LatestInv, [Next]_vars PROVE LatestInv'
<1>0. TypeOK /\ ~Stalls
  BY DEF GateInv, OneAfterTheOther
<1>1. ASSUME NEW p \in Processes, OrderlyStep(p) PROVE LatestInv'
  BY <1>0, <1>1, OrderlyStepKeeps
<1>2. ASSUME NEW j \in Jobs, Runner(j) PROVE LatestInv'
  BY <1>0, <1>1, <1>2, RunnerIsOrderly
<1>3. ASSUME NEW p \in Processes, Review(p) PROVE LatestInv'
  BY <1>1, <1>3, ReviewIsOrderly
<1>4. ASSUME NEW c \in Calls, Call(c) PROVE LatestInv'
  BY <1>1, <1>4, RequestIsOrderly
<1>5. ASSUME NEW c \in Calls, Serve(c) PROVE LatestInv'
  BY <1>0, <1>1, <1>5, RequestIsOrderly, SaveKeeps DEF Serve
<1>6. ASSUME NEW j \in Jobs, Fault(j) PROVE LatestInv'
  <2>1. OrderlyStep(j)
    BY <1>0, <1>6, RunnerMoves DEF Fault, Goto
  <2> QED
    BY <1>1, <2>1
<1>7. ASSUME NEW p \in Processes, Crash(p) PROVE LatestInv'
  <2>1. CASE p \in Jobs
    <3>1. OrderlyStep(p)
      BY <1>0, <1>7, <2>1, RunnerMoves DEF Crash, Goto
    <3> QED
      BY <1>1, <3>1
  <2>2. CASE p \in Calls
    <3>1. OrderlyStep(p)
      BY <1>0, <1>7, <2>2, OnlyCall, CallMoves DEF Crash, Goto
    <3> QED
      BY <1>1, <3>1
  <2>3. CASE p \in Verifications
    <3>1. OrderlyStep(p)
      BY <1>0, <1>7, <2>3, RecorderMoves DEF Crash, Goto, RecorderLabels
    <3> QED
      BY <1>1, <3>1
  <2> QED
    BY <1>0, <2>1, <2>2, <2>3
<1>8. ASSUME NEW j \in Jobs, ResumeJob(j) PROVE LatestInv'
  BY <1>0, <1>8 DEF ResumeJob
<1>9. ASSUME NEW p \in Processes, OpenE2e(p) PROVE LatestInv'
  BY <1>0, <1>1, <1>9, OpeningIsOrderly
<1>10. ASSUME NEW v \in Verifications, Recorder(v) PROVE LatestInv'
  BY <1>0, <1>1, <1>10, RecorderIsOrderly
<1>11. CASE UNCHANGED vars
  BY <1>11 DEF vars, LatestInv, RowsOf, Current, Admitted, InProgress, RecordedBy, Latest
<1> QED
  BY <1>0, <1>2, <1>3, <1>4, <1>5, <1>6, <1>7, <1>8, <1>9, <1>10, <1>11 DEF Next

\* While requests come one after the other, none cancels and no stall is resumed, and as long as
\* none is about to add a run between a recorder's read of the runs and its promotion: whatever
\* the runner, the reviews, the recorders, faults and crashes do, the manifest of a READY task is
\* for the commit of its newest run.
THEOREM ReadyIsLatest ==
  ASSUME OneAfterTheOther PROVE Spec /\ []Undisturbed => []ReadyIsForLatestCommit
<1>1. LatestInv => ReadyIsForLatestCommit
  BY DEF LatestInv, ReadyIsForLatestCommit, Latest
<1>2. GateInv => TypeOK
  BY DEF GateInv
<1>3. Undisturbed /\ GateInv /\ GateInv' /\ LatestInv /\ [Next]_vars => LatestInv'
  BY <1>2, StepLatest DEF GateInv
<1>4. GateInv /\ [Next]_vars => GateInv'
  BY StepGate
<1> QED
  BY <1>1, <1>3, <1>4, InitGate, InitLatest, PTL DEF Spec

===============================================================================
