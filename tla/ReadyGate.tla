------------------------------ MODULE ReadyGate ------------------------------
(***************************************************************************)
(* The path of one planned task to READY and to its merge: the runner that *)
(* publishes a commit, tests and reviews it, the READY gate, the HTTP E2E  *)
(* recorder that completes a VERIFYING task, and the API calls (execute,   *)
(* rebase, review, transition, retry, cancel, merge) that run beside them. *)
(*                                                                         *)
(* No step holds a lock: every handler reads rows, awaits, and writes      *)
(* whole rows back, so a handler is several actions here, and what it read *)
(* earlier stays in seen[p] and goal[p].  WorkflowEngine.transition checks *)
(* the caller's own copy of the task, so a task write is unconditional.    *)
(*                                                                         *)
(* Every ExecutionEngine commit is new ("no diff" is an error), so the job *)
(* that makes a commit names it.  Artifacts are kept in creation order;    *)
(* only what the gate reads of them is here.                               *)
(***************************************************************************)
EXTENDS Integers, Sequences, FiniteSets

CONSTANTS Jobs,             \* implementation and rebase jobs, and their commits
          Verifications,    \* HTTP_E2E jobs
          Calls,            \* API requests, each served once
          NoCommit,
          Operations,       \* what the API requests may ask for
          ManualTargets,    \* states superadmin_task_transition is used for
          ConcurrentCalls,  \* how many requests may be in progress at once
          RequiresE2e,      \* the plan owes the HTTP_E2E layer
          StoreOrdered,     \* runner and recorder read rows in creation order
          Stalls,           \* the reconciler may find a job stalled and resume it
          Faults,           \* a runner step may throw
          MaxCrashes        \* processes that may vanish without a handler

Processes == Jobs \cup Verifications \cup Calls

ASSUME ProcessesDistinct ==
  /\ Jobs \cap Verifications = {}
  /\ Jobs \cap Calls = {}
  /\ Verifications \cap Calls = {}
ASSUME NoCommitIsNoJob == NoCommit \notin Jobs
ASSUME JobsAreFinite == IsFiniteSet(Jobs)
ASSUME CallsAreFinite == IsFiniteSet(Calls)
ASSUME BudgetsAreNat == ConcurrentCalls \in Nat /\ MaxCrashes \in Nat

Kinds == {"IMPLEMENTATION", "REBASE"}      \* a REPAIR is an IMPLEMENTATION here
States == {"ANALYZING", "PLANNED", "IMPLEMENTING", "TESTING", "REVIEWING",
           "VERIFYING", "READY", "BLOCKED", "FAILED"}
Verdicts == {"PROVEN", "NOT_PROVEN"}
Statuses == {"UNBORN", "IN_FLIGHT", "ENDED"}
CommitOrNone == Jobs \cup {NoCommit}

JobRows == [kind : Kinds, run : Nat, status : Statuses, commit : CommitOrNone, born : Nat]
VerifRows == [commit : CommitOrNone, status : Statuses]
RunRows == [commit : CommitOrNone, status : {"RUNNING", "SUCCEEDED", "FAILED", "CANCELLED"}]

\* Where a process is: inside the runner's try block, or elsewhere.
RunnerBusy == {"checkout", "push", "recordRun", "testCheck", "enterTesting", "runTests",
               "testsFailed", "testsPassed", "reportCi", "review", "sendBack", "reviewRuns",
               "reviewGate", "await", "manifest", "promote", "closeRun", "closeJob"}
Labels ==
  RunnerBusy \cup {"idle", "done", "dead", "catch", "unstrand", "failJob", "failRun",
                   "autoVerify", "openE2e", "complete", "completeRuns", "completeGate",
                   "move", "moveAndSave", "save", "resolveMerge", "merge",
                   "closeProven", "closeNotProven", "recheck"}

VARIABLES
  task,         \* tasks.state
  runs,         \* execution runs in creation order: [commit, status]
  jobs,         \* per job: its kind, run, status, inherited or published commit
  verifs,       \* per HTTP_E2E job: the commit it verifies and its status
  kindsPresent, \* the artifact kinds that depend on the change set all exist
  reports,      \* TEST_REPORT artifacts: [commit, passed]
  ci,           \* commits with a successful exact CI_REPORT
  evidence,     \* HTTP E2E VALIDATION_REPORTs: [commit, verdict]
  manifests,    \* verifiedCommitSha of every FINAL_CHANGE_MANIFEST
  heads,        \* head of the task branch and of the rebase branch on origin
  merged,       \* commits merged into the default branch
  pc, seen, goal, \* each process: next step, commit it read, state it will write
  kind,         \* each request: the kind of job it creates
  crashes

rows == <<runs, jobs, verifs>>
artifacts == <<kindsPresent, reports, ci, evidence, manifests>>
origin == <<heads, merged>>
locals == <<seen, goal, kind>>
vars == <<task, rows, artifacts, origin, pc, locals, crashes>>

(***************************************************************************)
(* What a handler reads.                                                   *)
(***************************************************************************)
\* PostgresStateStore.listRuns and listArtifacts carry no ORDER BY; the edge
\* functions read through PostgREST, ordered by creation.
Newest(p, indices) ==
  IF StoreOrdered \/ p \in Calls
  THEN {i \in indices : \A k \in indices : k <= i}
  ELSE indices

LatestCommits(p) ==
  IF runs = <<>> THEN {NoCommit}
  ELSE {runs[i].commit : i \in Newest(p, DOMAIN runs)}

LatestReports(p) == {reports[i] : i \in Newest(p, DOMAIN reports)}

EvidenceAbout(c) == {i \in DOMAIN evidence : evidence[i].commit = c}
LatestEvidence(p, c) == {evidence[i].verdict : i \in Newest(p, EvidenceAbout(c))}

\* Mutant: only HTTP E2E jobs count as in flight.
NoVerificationInFlight == \A v \in Verifications : verifs[v].status # "IN_FLIGHT"

NothingInFlight ==
  /\ \A j \in Jobs : jobs[j].status # "IN_FLIGHT"
  /\ \A v \in Verifications : verifs[v].status # "IN_FLIGHT"

\* Mutant: a green report of any attempt satisfies the gate.
hasAnyCiReport(c) == ci # {}

hasExactCiReport(c) == c \in ci

\* Mutant: the verdict of the evidence is not looked at.
E2eRecorded(p, c) == ~RequiresE2e \/ LatestEvidence(p, c) # {}

E2eMayPass(p, c) == ~RequiresE2e \/ "PROVEN" \in LatestEvidence(p, c)
E2eMayBlock(p, c) ==
  RequiresE2e /\ (EvidenceAbout(c) = {} \/ "NOT_PROVEN" \in LatestEvidence(p, c))

(***************************************************************************)
(* The gate evidence a commit needs, whoever asks.                         *)
(***************************************************************************)
Tested(c) == \E i \in DOMAIN reports : reports[i] = [commit |-> c, passed |-> TRUE]
Proven(c) == \E i \in DOMAIN evidence : evidence[i] = [commit |-> c, verdict |-> "PROVEN"]
Verified(c) == c \in ci /\ Tested(c) /\ (RequiresE2e => Proven(c))

-----------------------------------------------------------------------------
Init ==
  /\ task = "PLANNED"
  /\ runs = <<>>
  /\ jobs = [j \in Jobs |-> [kind |-> "IMPLEMENTATION", run |-> 0, status |-> "UNBORN",
                             commit |-> NoCommit, born |-> 0]]
  /\ verifs = [v \in Verifications |-> [commit |-> NoCommit, status |-> "UNBORN"]]
  /\ kindsPresent \in BOOLEAN
  /\ reports = <<>> /\ ci = {} /\ evidence = <<>> /\ manifests = <<>>
  /\ heads = [k \in Kinds |-> NoCommit] /\ merged = {}
  /\ pc = [p \in Processes |-> "idle"]
  /\ seen = [p \in Processes |-> NoCommit]
  /\ goal = [c \in Calls |-> "PLANNED"]
  /\ kind = [c \in Calls |-> "IMPLEMENTATION"]
  /\ crashes = 0

Goto(p, label) == pc' = [pc EXCEPT ![p] = label]
At(p, from, to) == pc[p] = from /\ Goto(p, to)

\* A handler that throws: a runner reaches its catch block, a request or the
\* recorder ends with the error.
Abort(p) == Goto(p, IF p \in Jobs THEN "catch" ELSE "done")

\* updateRun after getRun: the row of run r, if there is one.
UpdateRun(r, commit, status) ==
  runs' = [i \in DOMAIN runs |-> IF i = r THEN [commit |-> commit, status |-> status] ELSE runs[i]]

\* updateExecutionJob: a whole row, whatever the stored row has become.
UpdateJob(j, status, commit) ==
  jobs' = [jobs EXCEPT ![j] = [jobs[j] EXCEPT !.status = status, !.commit = commit]]

\* Mutant: the row is written with a status the job table does not have.
RewriteAsStarted(j, commit) == UpdateJob(j, "STARTED", commit)

\* The runner's own copy of the row still says RUNNING.
Rewrite(j, commit) == UpdateJob(j, "IN_FLIGHT", commit)

EndJob(j) == UpdateJob(j, "ENDED", jobs[j].commit)

\* A commit inherited from another branch is dropped once the job's branch is known.
Published(j) ==
  LET c == jobs[j].commit
  IN IF c # NoCommit /\ jobs[c].kind = jobs[j].kind THEN c ELSE NoCommit

(***************************************************************************)
(* The runner (run-execution-job.ts).                                      *)
(***************************************************************************)
\* The claim lease lasts 20 minutes and is never renewed, so another job's
\* lease never keeps a late runner out for good.
Claim(j) ==
  /\ jobs[j].status = "IN_FLIGHT"
  /\ At(j, "idle", "checkout")
  /\ UNCHANGED <<task, rows, artifacts, origin, locals, crashes>>

Checkout(j) ==
  /\ At(j, "checkout", "push")
  /\ Rewrite(j, jobs[j].commit)
  /\ seen' = [seen EXCEPT ![j] = heads[jobs[j].kind]]
  /\ UNCHANGED <<task, runs, verifs, artifacts, origin, goal, kind, crashes>>

\* performRebase blocks the task and throws when the transfer conflicts.
RebaseConflict(j) ==
  /\ jobs[j].kind = "REBASE"
  /\ At(j, "push", "catch")
  /\ task' = "BLOCKED"
  /\ UNCHANGED <<rows, artifacts, origin, locals, crashes>>

\* Commit, change-set artifacts, push, and the job's published commit.
Push(j) ==
  /\ At(j, "push", "recordRun")
  /\ heads[jobs[j].kind] = seen[j]
  /\ heads' = [heads EXCEPT ![jobs[j].kind] = j]
  /\ Rewrite(j, j)
  /\ kindsPresent' \in {kindsPresent, TRUE}
  /\ UNCHANGED <<task, runs, verifs, reports, ci, evidence, manifests, merged, locals, crashes>>

\* Another runner moved the branch: not a fast-forward.
PushRejected(j) ==
  /\ At(j, "push", "catch")
  /\ heads[jobs[j].kind] # seen[j]
  /\ Rewrite(j, Published(j))
  /\ kindsPresent' \in {kindsPresent, TRUE}
  /\ UNCHANGED <<task, runs, verifs, reports, ci, evidence, manifests, origin, locals, crashes>>

RecordRun(j) ==
  /\ At(j, "recordRun", "testCheck")
  /\ UpdateRun(jobs[j].run, j, runs[jobs[j].run].status)
  /\ UNCHANGED <<task, jobs, verifs, artifacts, origin, locals, crashes>>

(***************************************************************************)
(* taskTest (application.ts).                                              *)
(***************************************************************************)
TestCheck(j) ==
  /\ pc[j] = "testCheck"
  /\ IF task = "IMPLEMENTING" THEN Goto(j, "enterTesting") ELSE Abort(j)
  /\ UNCHANGED <<task, rows, artifacts, origin, locals, crashes>>

EnterTesting(j) ==
  /\ At(j, "enterTesting", "runTests")
  /\ task' = "TESTING"
  /\ UNCHANGED <<rows, artifacts, origin, locals, crashes>>

RunTests(j) ==
  /\ pc[j] = "runTests"
  /\ \E passed \in BOOLEAN :
       /\ reports' = Append(reports, [commit |-> j, passed |-> passed])
       /\ Goto(j, IF passed THEN "testsPassed" ELSE "testsFailed")
  /\ UNCHANGED <<task, rows, kindsPresent, ci, evidence, manifests, origin, locals, crashes>>

TestsFailed(j) ==
  /\ At(j, "testsFailed", "catch")
  /\ task' = "IMPLEMENTING"
  /\ UNCHANGED <<rows, artifacts, origin, locals, crashes>>

TestsPassed(j) ==
  /\ At(j, "testsPassed", "reportCi")
  /\ task' = "REVIEWING"
  /\ UNCHANGED <<rows, artifacts, origin, locals, crashes>>

ReportCi(j) ==
  /\ At(j, "reportCi", "review")
  /\ ci' = ci \cup {j}
  /\ UNCHANGED <<task, rows, kindsPresent, reports, evidence, manifests, origin, locals, crashes>>

(***************************************************************************)
(* taskReview, by the runner or by a request, and promoteToReady.          *)
(***************************************************************************)
ReviewRefused(p) ==
  /\ pc[p] = "review"
  /\ task # "REVIEWING" \/ reports = <<>>
  /\ Abort(p)
  /\ UNCHANGED <<task, rows, artifacts, origin, locals, crashes>>

\* IndependentReviewer fails a report that did not pass, and may fail any
\* other on the plan or the diff.
ReviewFails(p) ==
  /\ task = "REVIEWING" /\ reports # <<>>
  /\ At(p, "review", "sendBack")
  /\ UNCHANGED <<task, rows, artifacts, origin, locals, crashes>>

ReviewPasses(p) ==
  /\ task = "REVIEWING"
  /\ \E r \in LatestReports(p) : r.passed
  /\ At(p, "review", "reviewRuns")
  /\ UNCHANGED <<task, rows, artifacts, origin, locals, crashes>>

SendBack(p) ==
  /\ pc[p] = "sendBack"
  /\ task' = "IMPLEMENTING"
  /\ Abort(p)
  /\ UNCHANGED <<rows, artifacts, origin, locals, crashes>>

\* taskCompleteVerification, by the recorder or by a request.
CompleteCheck(p) ==
  /\ pc[p] = "complete"
  /\ IF task = "VERIFYING" THEN Goto(p, "completeRuns") ELSE Abort(p)
  /\ UNCHANGED <<task, rows, artifacts, origin, locals, crashes>>

\* The runs are listed before the artifacts the gate judges them by.
ReadRuns(p) ==
  /\ \/ At(p, "reviewRuns", "reviewGate")
     \/ At(p, "completeRuns", "completeGate")
  /\ \E c \in LatestCommits(p) : seen' = [seen EXCEPT ![p] = c]
  /\ UNCHANGED <<task, rows, artifacts, origin, goal, kind, crashes>>

FormalGatesPass(p) == kindsPresent /\ hasExactCiReport(seen[p])

\* taskReadiness reports no blocker.
GatePasses(p) ==
  /\ pc[p] \in {"reviewGate", "completeGate"}
  /\ FormalGatesPass(p)
  /\ E2eMayPass(p, seen[p])
  /\ Goto(p, "manifest")
  /\ UNCHANGED <<task, rows, artifacts, origin, locals, crashes>>

\* Every blocker is HTTP_E2E_EVIDENCE, so the review lets the task rest.
GateAwaitsE2e(p) ==
  /\ FormalGatesPass(p)
  /\ E2eMayBlock(p, seen[p])
  /\ At(p, "reviewGate", "await")
  /\ UNCHANGED <<task, rows, artifacts, origin, locals, crashes>>

GateBlocks(p) ==
  /\ \/ pc[p] = "reviewGate" /\ ~FormalGatesPass(p)
     \/ pc[p] = "completeGate" /\ (~FormalGatesPass(p) \/ E2eMayBlock(p, seen[p]))
  /\ Abort(p)
  /\ UNCHANGED <<task, rows, artifacts, origin, locals, crashes>>

Leave(p) == Goto(p, IF p \in Jobs THEN "closeRun" ELSE "done")

AwaitE2e(p) ==
  /\ pc[p] = "await"
  /\ task' = "VERIFYING"
  /\ Leave(p)
  /\ UNCHANGED <<rows, artifacts, origin, locals, crashes>>

WriteManifest(p) ==
  /\ At(p, "manifest", "promote")
  /\ manifests' = Append(manifests, seen[p])
  /\ UNCHANGED <<task, rows, kindsPresent, reports, ci, evidence, origin, locals, crashes>>

Promote(p) ==
  /\ pc[p] = "promote"
  /\ task' = "READY"
  /\ Leave(p)
  /\ UNCHANGED <<rows, artifacts, origin, locals, crashes>>

(***************************************************************************)
(* The end of a runner.                                                    *)
(***************************************************************************)
CloseRun(j) ==
  /\ At(j, "closeRun", "closeJob")
  /\ UpdateRun(jobs[j].run, j, "SUCCEEDED")
  /\ UNCHANGED <<task, jobs, verifs, artifacts, origin, locals, crashes>>

CloseJob(j) ==
  /\ At(j, "closeJob", "autoVerify")
  /\ EndJob(j)
  /\ UNCHANGED <<task, runs, verifs, artifacts, origin, locals, crashes>>

\* enqueueVerificationOfReviewedCommit: a refusal never fails the execution.
AutoVerify(j) ==
  /\ pc[j] = "autoVerify"
  /\ IF task = "VERIFYING" /\ NothingInFlight THEN Goto(j, "openE2e") ELSE Goto(j, "done")
  /\ seen' = [seen EXCEPT ![j] = j]
  /\ UNCHANGED <<task, rows, artifacts, origin, goal, kind, crashes>>

\* Mutant: only a crash inside the tests is noticed.
LeftInTesting == task = "TESTING"

strandedInFlight == task \in {"TESTING", "REVIEWING"}

\* The catch block first looks whether it left the task inside the gate.
Catch(j) ==
  /\ pc[j] = "catch"
  /\ Goto(j, IF strandedInFlight THEN "unstrand" ELSE "failJob")
  /\ UNCHANGED <<task, rows, artifacts, origin, locals, crashes>>

Unstrand(j) ==
  /\ At(j, "unstrand", "failJob")
  /\ task' = "BLOCKED"
  /\ UNCHANGED <<rows, artifacts, origin, locals, crashes>>

FailJob(j) ==
  /\ At(j, "failJob", "failRun")
  /\ EndJob(j)
  /\ UNCHANGED <<task, runs, verifs, artifacts, origin, locals, crashes>>

\* An open run also takes the job's commit: its own, or the inherited one.
FailRun(j) ==
  /\ At(j, "failRun", "done")
  /\ LET r == jobs[j].run
         commit == IF jobs[j].commit = NoCommit THEN runs[r].commit ELSE jobs[j].commit
     IN IF runs[r].status = "RUNNING" THEN UpdateRun(r, commit, "FAILED") ELSE UNCHANGED runs
  /\ UNCHANGED <<task, jobs, verifs, artifacts, origin, locals, crashes>>

\* Any awaited call of the try block may throw.
Fault(j) ==
  /\ Faults
  /\ pc[j] \in RunnerBusy
  /\ Goto(j, "catch")
  /\ UNCHANGED <<task, rows, artifacts, origin, locals, crashes>>

\* A killed workflow run, or an edge function or recorder that dies.
Crash(p) ==
  /\ crashes < MaxCrashes
  /\ pc[p] \notin {"idle", "done", "dead"}
  /\ Goto(p, "dead")
  /\ crashes' = crashes + 1
  /\ UNCHANGED <<task, rows, artifacts, origin, locals>>

Runner(j) ==
  \/ Claim(j) \/ Checkout(j) \/ RebaseConflict(j) \/ Push(j) \/ PushRejected(j)
  \/ RecordRun(j) \/ TestCheck(j) \/ EnterTesting(j) \/ RunTests(j) \/ TestsFailed(j)
  \/ TestsPassed(j) \/ ReportCi(j) \/ CloseRun(j) \/ CloseJob(j) \/ AutoVerify(j)
  \/ Catch(j) \/ Unstrand(j) \/ FailJob(j) \/ FailRun(j)

Review(p) ==
  \/ ReviewRefused(p) \/ ReviewFails(p) \/ ReviewPasses(p) \/ SendBack(p)
  \/ CompleteCheck(p) \/ ReadRuns(p) \/ GatePasses(p) \/ GateAwaitsE2e(p) \/ GateBlocks(p)
  \/ AwaitE2e(p) \/ WriteManifest(p) \/ Promote(p)

(***************************************************************************)
(* Requests: one operation each, read first, written later.                *)
(***************************************************************************)
InProgress == {c \in Calls : pc[c] \notin {"idle", "done", "dead"}}

Begin(c, operation, label) ==
  /\ operation \in Operations
  /\ Cardinality(InProgress) < ConcurrentCalls
  /\ At(c, "idle", label)

Unstored == UNCHANGED <<task, rows, artifacts, origin, crashes>>

\* enqueueImplementation: admission, then the transition, then run and job.
CallImplement(c) ==
  /\ task \in {"PLANNED", "IMPLEMENTING", "VERIFYING"}
  /\ NothingInFlight
  /\ Begin(c, "implement", IF task = "IMPLEMENTING" THEN "save" ELSE "moveAndSave")
  /\ goal' = [goal EXCEPT ![c] = "IMPLEMENTING"]
  /\ kind' = [kind EXCEPT ![c] = "IMPLEMENTATION"]
  /\ UNCHANGED seen /\ Unstored

\* resolveRebasePlan and enqueueRebase.
CallRebase(c) ==
  /\ \/ task = "READY"
     \/ task \in {"IMPLEMENTING", "BLOCKED"} /\ \E j \in Jobs : jobs[j].kind = "REBASE"
  /\ manifests # <<>>
  /\ \E i \in DOMAIN runs :
       runs[i] = [commit |-> manifests[Len(manifests)], status |-> "SUCCEEDED"]
  /\ NothingInFlight
  /\ Begin(c, "rebase", IF task = "IMPLEMENTING" THEN "save" ELSE "moveAndSave")
  /\ goal' = [goal EXCEPT ![c] = "IMPLEMENTING"]
  /\ kind' = [kind EXCEPT ![c] = "REBASE"]
  /\ seen' = [seen EXCEPT ![c] = manifests[Len(manifests)]]
  /\ Unstored

\* superadmin's own table: READY and ANALYZING are refused, READY is left only
\* by a rebase.
lifecycleTargets ==
  [ANALYZING |-> {"PLANNED", "BLOCKED", "FAILED"}, PLANNED |-> {"IMPLEMENTING", "BLOCKED"},
   IMPLEMENTING |-> {"TESTING", "FAILED", "BLOCKED"},
   TESTING |-> {"REVIEWING", "IMPLEMENTING", "BLOCKED", "FAILED"},
   REVIEWING |-> {"IMPLEMENTING", "BLOCKED", "FAILED"},
   VERIFYING |-> {"IMPLEMENTING", "BLOCKED"}, READY |-> {},
   BLOCKED |-> {"PLANNED"}, FAILED |-> {"IMPLEMENTING"}]

CallTransition(c) ==
  /\ Begin(c, "transition", "move")
  /\ \E to \in lifecycleTargets[task] \cap ManualTargets : goal' = [goal EXCEPT ![c] = to]
  /\ UNCHANGED <<seen, kind>> /\ Unstored

\* taskRetry and taskAnalyze from BLOCKED or FAILED, taskPlan from ANALYZING.
CallReplan(c) ==
  /\ task \in {"BLOCKED", "FAILED", "ANALYZING"}
  /\ Begin(c, "replan", "move")
  /\ goal' = [goal EXCEPT ![c] = IF task = "ANALYZING" THEN "PLANNED" ELSE "ANALYZING"]
  /\ UNCHANGED <<seen, kind>> /\ Unstored

CallReview(c) == Begin(c, "review", "review") /\ UNCHANGED locals /\ Unstored
CallComplete(c) == Begin(c, "complete", "complete") /\ UNCHANGED locals /\ Unstored

\* superadmin_http_e2e_run: any published commit.
CallVerify(c) ==
  /\ NothingInFlight
  /\ Begin(c, "verify", "openE2e")
  /\ \E k \in Kinds : heads[k] # NoCommit /\ seen' = [seen EXCEPT ![c] = heads[k]]
  /\ UNCHANGED <<goal, kind>> /\ Unstored

CallCancel(c) ==
  /\ \E j \in Jobs :
       /\ jobs[j].status = "IN_FLIGHT"
       /\ EndJob(j)
       /\ LET r == jobs[j].run
          IN IF runs[r].status = "RUNNING"
             THEN UpdateRun(r, runs[r].commit, "CANCELLED") ELSE UNCHANGED runs
  /\ Begin(c, "cancel", "done")
  /\ UNCHANGED <<task, verifs, artifacts, origin, locals, crashes>>

\* superadmin_sandbox_pull_request_merge: the task, then its runs and artifacts,
\* then GitHub, which merges only the SHA it is given.
CallMerge(c) == task = "READY" /\ Begin(c, "merge", "resolveMerge") /\ UNCHANGED locals /\ Unstored

\* Mutant: the manifest need not name the latest commit.
MergeableWithAnyManifest(c) == {k \in LatestCommits(c) \cap Jobs : manifests # <<>>}

\* resolveMergeableCommit: the latest run's commit, if the manifest names it.
Mergeable(c) ==
  {k \in LatestCommits(c) \cap Jobs : manifests # <<>> /\ manifests[Len(manifests)] = k}

ResolveMerge(c) ==
  /\ pc[c] = "resolveMerge"
  /\ IF Mergeable(c) = {}
     THEN Goto(c, "done") /\ UNCHANGED seen
     ELSE Goto(c, "merge") /\ \E k \in Mergeable(c) : seen' = [seen EXCEPT ![c] = k]
  /\ UNCHANGED <<task, rows, artifacts, origin, goal, kind, crashes>>

MergePullRequest(c) ==
  /\ At(c, "merge", "done")
  /\ merged' = IF heads[jobs[seen[c]].kind] = seen[c] THEN merged \cup {seen[c]} ELSE merged
  /\ UNCHANGED <<task, rows, artifacts, heads, locals, crashes>>

Move(c) ==
  /\ At(c, "move", "done") \/ At(c, "moveAndSave", "save")
  /\ task' = goal[c]
  /\ UNCHANGED <<rows, artifacts, origin, locals, crashes>>

Born == Cardinality({j \in Jobs : jobs[j].status # "UNBORN"})

\* The commit a new job inherits: a rebase its source, an implementation the
\* commit of the last job on the task branch that has one.
Inherited(c) ==
  LET published == {j \in Jobs : jobs[j].status # "UNBORN" /\ jobs[j].kind = "IMPLEMENTATION"
                                 /\ jobs[j].commit # NoCommit}
      last == {j \in published : \A k \in published : jobs[k].born <= jobs[j].born}
  IN IF kind[c] = "REBASE" THEN {seen[c]}
     ELSE IF last = {} THEN {NoCommit} ELSE {jobs[j].commit : j \in last}

\* Run and job are saved and dispatched; a failed dispatch closes both.
Save(c) ==
  /\ At(c, "save", "done")
  /\ \E j \in Jobs, commit \in Inherited(c), dispatched \in BOOLEAN :
       /\ jobs[j].status = "UNBORN"
       /\ runs' = Append(runs, [commit |-> NoCommit,
                                status |-> IF dispatched THEN "RUNNING" ELSE "FAILED"])
       /\ jobs' = [jobs EXCEPT ![j] = [kind |-> kind[c], run |-> Len(runs) + 1,
                                       status |-> IF dispatched THEN "IN_FLIGHT" ELSE "ENDED",
                                       commit |-> commit, born |-> Born + 1]]
  /\ UNCHANGED <<task, verifs, artifacts, origin, locals, crashes>>

Call(c) ==
  \/ CallImplement(c) \/ CallRebase(c) \/ CallTransition(c) \/ CallReplan(c) \/ CallReview(c)
  \/ CallComplete(c) \/ CallVerify(c) \/ CallCancel(c) \/ CallMerge(c)

Serve(c) == ResolveMerge(c) \/ MergePullRequest(c) \/ Move(c) \/ Save(c)

(***************************************************************************)
(* HTTP E2E: enqueueHttpE2eJob, the recorder and its completion.           *)
(***************************************************************************)
OpenE2e(p) ==
  /\ At(p, "openE2e", "done")
  /\ \E v \in Verifications :
       /\ verifs[v].status = "UNBORN"
       /\ verifs' = [verifs EXCEPT ![v] = [commit |-> seen[p], status |-> "IN_FLIGHT"]]
  /\ UNCHANGED <<task, runs, jobs, artifacts, origin, locals, crashes>>

RecordEvidence(v) ==
  /\ pc[v] = "idle"
  /\ verifs[v].status = "IN_FLIGHT"
  /\ \E verdict \in Verdicts :
       /\ evidence' = Append(evidence, [commit |-> verifs[v].commit, verdict |-> verdict])
       /\ Goto(v, IF verdict = "PROVEN" THEN "closeProven" ELSE "closeNotProven")
  /\ UNCHANGED <<task, rows, kindsPresent, reports, ci, manifests, origin, locals, crashes>>

\* Mutant: nobody looks at the task once the evidence is recorded.
CloseE2eUnnoticed(v) ==
  /\ At(v, "closeProven", "done") \/ At(v, "closeNotProven", "done")
  /\ verifs' = [verifs EXCEPT ![v] = [commit |-> verifs[v].commit, status |-> "ENDED"]]
  /\ UNCHANGED <<task, runs, jobs, artifacts, origin, locals, crashes>>

CloseE2e(v) ==
  /\ At(v, "closeProven", "recheck") \/ At(v, "closeNotProven", "done")
  /\ verifs' = [verifs EXCEPT ![v] = [commit |-> verifs[v].commit, status |-> "ENDED"]]
  /\ UNCHANGED <<task, runs, jobs, artifacts, origin, locals, crashes>>

\* http-e2e-record.ts completes only a task that rests on exactly this commit.
Recheck(v) ==
  /\ pc[v] = "recheck"
  /\ \/ task = "VERIFYING" /\ verifs[v].commit \in LatestCommits(v) /\ Goto(v, "complete")
     \/ task # "VERIFYING" /\ Goto(v, "done")
     \/ (\E c \in LatestCommits(v) : c # verifs[v].commit) /\ Goto(v, "done")
  /\ UNCHANGED <<task, rows, artifacts, origin, locals, crashes>>

Recorder(v) == RecordEvidence(v) \/ CloseE2e(v) \/ Recheck(v)

(***************************************************************************)
(* The reconciler, as far as this task can tell (ExecutionJobs has its     *)
(* steps): a job it takes for stalled ends and its work starts again as a  *)
(* new job of the same run, whether or not the runner is really gone.      *)
(***************************************************************************)
ResumeJob(j) ==
  /\ Stalls
  /\ jobs[j].status = "IN_FLIGHT"
  /\ \E k \in Jobs :
       /\ jobs[k].status = "UNBORN"
       /\ jobs' = [jobs EXCEPT ![j] = [jobs[j] EXCEPT !.status = "ENDED"],
                               ![k] = [jobs[j] EXCEPT !.born = Born + 1]]
  /\ UNCHANGED <<task, runs, verifs, artifacts, origin, pc, locals, crashes>>

-----------------------------------------------------------------------------
Next ==
  \/ \E j \in Jobs : Runner(j) \/ Fault(j) \/ ResumeJob(j)
  \/ \E v \in Verifications : Recorder(v)
  \/ \E c \in Calls : Call(c) \/ Serve(c)
  \/ \E p \in Processes : Review(p) \/ OpenE2e(p) \/ Crash(p)

\* A started workflow run or request goes on; nobody owes a request or a fault.
Fairness ==
  /\ \A j \in Jobs : WF_vars(Runner(j))
  /\ \A v \in Verifications : WF_vars(Recorder(v))
  /\ \A c \in Calls : WF_vars(Serve(c))
  /\ \A p \in Processes : WF_vars(Review(p)) /\ WF_vars(OpenE2e(p))

Spec == Init /\ [][Next]_vars
FairSpec == Spec /\ Fairness

-----------------------------------------------------------------------------
\* Every variable holds a value the stores accept.
TypeOK ==
  /\ task \in States
  /\ runs \in Seq(RunRows)
  /\ jobs \in [Jobs -> JobRows]
  /\ verifs \in [Verifications -> VerifRows]
  /\ kindsPresent \in BOOLEAN
  /\ reports \in Seq([commit : Jobs, passed : BOOLEAN])
  /\ ci \subseteq Jobs
  /\ evidence \in Seq([commit : CommitOrNone, verdict : Verdicts])
  /\ manifests \in Seq(CommitOrNone)
  /\ heads \in [Kinds -> CommitOrNone]
  /\ merged \subseteq CommitOrNone
  /\ pc \in [Processes -> Labels]
  /\ seen \in [Processes -> CommitOrNone]
  /\ goal \in [Calls -> States]
  /\ kind \in [Calls -> Kinds]
  /\ crashes \in Nat

\* READY is backed by evidence whatever the interleaving: a READY task has a
\* manifest, and every manifest ever written names a commit whose own tests
\* passed, whose own CI report is green and, when the plan owes it, that was
\* proven over HTTP (promoteToReady, taskReadiness).
ReadyCommitVerified ==
  /\ task = "READY" => manifests # <<>>
  /\ \A i \in DOMAIN manifests : Verified(manifests[i])

\* What reaches the default branch has passed the gate, although the merge reads
\* the task, then the runs and artifacts, and merges later still, while other
\* requests and runners move all three (resolveMergeableCommit).
MergedCommitVerified == \A c \in merged : Verified(c)

\* A task is in TESTING or REVIEWING only while a runner is there to take it out
\* (the catch block of run-execution-job.ts: "a task must never be observed at
\* rest in either one").
NeverAtRestInGate ==
  task \in {"TESTING", "REVIEWING"} =>
    \E j \in Jobs : pc[j] \in RunnerBusy \cup {"catch", "unstrand"}

\* The manifest of a READY task is for the newest commit a run of the task
\* recorded: no later change set is hidden behind an earlier verdict
\* ("the exact latest commit was built, started and verified").
ReadyIsForLatestCommit ==
  task = "READY" /\ runs # <<>> => runs[Len(runs)].commit \in {manifests[Len(manifests)], NoCommit}

\* Proof that exists is acted on: a task that waits in VERIFYING for a commit
\* whose newest evidence is PROVEN does not wait for ever (http-e2e-record.ts).
AwaitedProofExists ==
  /\ task = "VERIFYING"
  /\ runs # <<>>
  /\ LET about == EvidenceAbout(runs[Len(runs)].commit)
     IN \E i \in about : (\A k \in about : k <= i) /\ evidence[i].verdict = "PROVEN"
ProofIsActedOn == AwaitedProofExists ~> ~AwaitedProofExists
=============================================================================
