----------------------------- MODULE StallRecovery -----------------------------
(***************************************************************************)
(* The clock rules of stall recovery: what the scheduled reconciler makes  *)
(* of one job after so many minutes, and when it resumes its work as the   *)
(* next attempt.  ExecutionJobs has the writes of a pass one by one; here  *)
(* a pass is one step and time is explicit.                                *)
(*                                                                         *)
(* Two workflows run jobs: the HTTP end-to-end jobs have one of their own, *)
(* with a longer lease and longer runs, all other kinds the execution      *)
(* workflow.  The thresholds are the same for both.                        *)
(*                                                                         *)
(* The variables describe the newest attempt of the work and its workflow  *)
(* run.  A timestamp of the row is the minutes gone by since (or left      *)
(* until) it, and stops where no rule can tell it from a later one.        *)
(***************************************************************************)
EXTENDS Integers

CONSTANTS Step,            \* minutes between two instants of the model
          PassGap,         \* the most minutes from one pass to the next
          Answers,         \* what asking GitHub may come to: TRUE, a view
          Conclusions,     \* how a workflow run that wrote no callback may end
          MaxSame          \* bound: repetitions of a cause that are told apart

dispatchGraceMinutes == 15
leaseGraceMinutes == 10
hardTimeoutMinutes == 90
Kinds == {"EXECUTION", "HTTP_E2E"}
\* How long a runner claims a job for.
LeaseMinutes(k) == IF k = "HTTP_E2E" THEN 75 ELSE 20
\* How long the jobs of one workflow run may take: one of 60 minutes, or those that prepare, run and
\* record the verification.
WorkflowTimeoutMinutes(k) == IF k = "HTTP_E2E" THEN 15 + 75 + 10 ELSE 60
RESUME_BACKOFF_BASE_MINUTES == 15
RESUME_BACKOFF_CEILING_MINUTES == 360

ASSUME StepIsPositive == Step \in Nat \ {0}
\* An execution job picked up in the last minute before the pass that would end it
\* still has the 60 minutes of its workflow run before the ceiling.
ASSUME PassesAreFrequent ==
  /\ PassGap \in Nat
  /\ dispatchGraceMinutes + PassGap + WorkflowTimeoutMinutes("EXECUTION") <= hardTimeoutMinutes
ASSUME AnswersAreBoolean == Answers \subseteq BOOLEAN
\* How a run ended is never mistaken for a wait, or for having had no cause.
ASSUME ConclusionsEndRuns == Conclusions \cap {"WAIT", "NONE"} = {}
\* Repetitions are told apart until their delay has reached the ceiling.
ASSUME MaxSameReachesCeiling ==
  /\ MaxSame \in Nat /\ MaxSame > 1
  /\ RESUME_BACKOFF_BASE_MINUTES * 2^(MaxSame - 2) >= RESUME_BACKOFF_CEILING_MINUTES

activeJobStatuses == {"QUEUED", "DISPATCHING", "DISPATCHED", "CLAIMED", "RUNNING"}
Causes == Conclusions \cup {"NEVER_DISPATCHED", "NEVER_STARTED", "LEASE_EXPIRED", "HARD_TIMEOUT"}

VARIABLES
  kind,       \* of the job: its workflow
  status,     \* of the job; CLOSED once its runner, CANCELLED once a person ended it
  stamped,    \* the runner has recorded its workflowRunId
  cause, same, \* resume.cause ("NONE" for the first attempt), consecutiveSameCause
  delay,      \* resume.notBefore - queuedAt as the attempt was created
  deferred,   \* a refused dispatch moved notBefore
  wait,       \* notBefore - now
  age,        \* now - queuedAt
  quiet,      \* now - updatedAt, until a runner has the job
  heldFor,    \* now - the instant of the claim
  run,        \* the workflow run: none, accepted by GitHub, running, completed
  conclusion, \* of a completed run
  runFor,     \* minutes the run has been running
  sincePass,  \* minutes since the last pass
  idleFor     \* minutes nobody has been working on or waiting with the job

resume == <<cause, same, delay, deferred>>
row == <<kind, status, stamped, resume>>
clocks == <<wait, age, quiet, heldFor, runFor, sincePass, idleFor>>
vars == <<row, clocks, run, conclusion>>

leaseMinutes == LeaseMinutes(kind)
workflowTimeoutMinutes == WorkflowTimeoutMinutes(kind)

Active == status \in activeJobStatuses
Resumed == cause # "NONE"
Waiting == status = "QUEUED" /\ Resumed /\ wait > 0
Delayed == delay > 0 \/ deferred

\* As enqueueImplementation or enqueueHttpE2eJob leaves the job, or a request that
\* died on its way.
Init ==
  /\ kind \in Kinds
  /\ \/ status = "QUEUED" /\ run = "none"
     \/ status = "DISPATCHING" /\ run \in {"none", "pending"}
     \/ status = "DISPATCHED" /\ run = "pending"
  /\ stamped = FALSE /\ cause = "NONE" /\ same = 0 /\ delay = 0 /\ deferred = FALSE
  /\ wait = 0 /\ age = 0 /\ quiet = 0 /\ heldFor = 0 /\ runFor = 0 /\ idleFor = 0
  /\ sincePass \in {n \in 0..PassGap : n % Step = 0}
  /\ conclusion = "NONE"

(***************************************************************************)
(* Time, and the workflow run.                                             *)
(***************************************************************************)
Until(minutes, bound) == IF minutes > bound THEN minutes ELSE minutes + Step

\* A pass comes at least every PassGap minutes; GitHub ends a run that takes too long.
Tick ==
  /\ Active
  /\ sincePass + Step <= PassGap
  /\ run = "running" => runFor + Step <= workflowTimeoutMinutes
  /\ sincePass' = sincePass + Step
  /\ age' = Until(age, hardTimeoutMinutes)
  /\ quiet' = IF Waiting \/ status \in {"CLAIMED", "RUNNING"} THEN quiet ELSE quiet + Step
  /\ heldFor' = IF status \in {"CLAIMED", "RUNNING"}
                THEN Until(heldFor, leaseMinutes + leaseGraceMinutes) ELSE heldFor
  /\ wait' = IF status = "QUEUED" /\ Resumed THEN wait - Step ELSE wait
  /\ runFor' = IF run = "running" THEN runFor + Step ELSE runFor
  /\ idleFor' = IF run = "running" \/ Waiting THEN 0 ELSE idleFor + Step
  /\ UNCHANGED <<row, run, conclusion>>

RunStarts ==
  /\ run = "pending"
  /\ run' = "running"
  /\ runFor' = 0 /\ idleFor' = 0
  /\ UNCHANGED <<row, wait, age, quiet, heldFor, sincePass, conclusion>>

\* claim_execution_job; a run that finds the job DISPATCHING fails and completes.
RunClaims ==
  /\ run = "running"
  /\ status \in {"QUEUED", "DISPATCHED"}
  /\ status' = "CLAIMED"
  /\ heldFor' = 0 /\ quiet' = 0
  /\ UNCHANGED <<kind, stamped, resume, wait, age, runFor, sincePass, idleFor, run, conclusion>>

RunStamps ==
  /\ run = "running"
  /\ status = "CLAIMED"
  /\ status' = "RUNNING"
  /\ stamped' = TRUE
  /\ UNCHANGED <<kind, resume, clocks, run, conclusion>>

\* The completion callback: SUCCEEDED, or FAILED or BLOCKED by the catch block, which
\* an HTTP end-to-end run enters only once it has recorded its run.
RunFinishes ==
  /\ run = "running"
  /\ kind = "HTTP_E2E" => status = "RUNNING"
  /\ status \in {"CLAIMED", "RUNNING"}
  /\ status' = "CLOSED"
  /\ run' = "completed"
  /\ UNCHANGED <<kind, stamped, resume, clocks, conclusion>>

\* A run is lost, refused, cancelled or timed out before its callback.
RunEnds ==
  /\ Active
  /\ run \in {"pending", "running"}
  /\ run' = "completed"
  /\ conclusion' \in Conclusions
  /\ runFor' = 0
  /\ UNCHANGED <<row, wait, age, quiet, heldFor, sincePass, idleFor>>

(***************************************************************************)
(* classifyExecutionJob: the code a job is ended with, or WAIT.            *)
(***************************************************************************)
BeyondCeiling == age > hardTimeoutMinutes

\* Mutant: only a claimed job can outlive its lease.
LeaseLapsedUnstamped == ~stamped /\ heldFor - leaseMinutes > leaseGraceMinutes

LeaseLapsed == heldFor - leaseMinutes > leaseGraceMinutes

NeverStarted == quiet > dispatchGraceMinutes

\* With a view of the run, its status decides; otherwise elapsed time does.
Verdict(view) ==
  CASE view /\ run = "completed" -> conclusion
    [] view /\ run # "completed" /\ BeyondCeiling -> "HARD_TIMEOUT"
    [] ~view /\ status \in {"CLAIMED", "RUNNING"} /\ LeaseLapsed -> "LEASE_EXPIRED"
    [] ~view /\ status \in {"CLAIMED", "RUNNING"} /\ ~LeaseLapsed /\ BeyondCeiling -> "HARD_TIMEOUT"
    [] ~view /\ status = "QUEUED" /\ NeverStarted -> "NEVER_DISPATCHED"
    [] ~view /\ status \in {"DISPATCHING", "DISPATCHED"} /\ NeverStarted -> "NEVER_STARTED"
    [] OTHER -> "WAIT"

(***************************************************************************)
(* recoverStalledWork.                                                     *)
(***************************************************************************)
Capped(minutes) ==
  IF minutes <= RESUME_BACKOFF_CEILING_MINUTES THEN minutes ELSE RESUME_BACKOFF_CEILING_MINUTES

\* Mutant: the first repetition of a cause is not waited for.
resumeDelayLate(k) == IF k <= 2 THEN 0 ELSE Capped(RESUME_BACKOFF_BASE_MINUTES * 2^(k - 2))

\* Mutant: no ceiling.
resumeDelayUncapped(k) == IF k <= 1 THEN 0 ELSE RESUME_BACKOFF_BASE_MINUTES * 2^(k - 2)

resumeDelayMinutes(k) == IF k <= 1 THEN 0 ELSE Capped(RESUME_BACKOFF_BASE_MINUTES * 2^(k - 2))

consecutiveSameCause(code) ==
  IF cause = code THEN (IF same < MaxSame THEN same + 1 ELSE same) ELSE 1

Accepted(before) == IF before = "running" THEN "running" ELSE "pending"

\* GitHub accepts; or it refuses, or its answer is lost, and the attempt stays
\* QUEUED for another 15 minutes.  before is the run the attempt has had so far.
Dispatch(before, late) ==
  \/ /\ status' = "DISPATCHED" /\ run' = Accepted(before)
     /\ wait' = 0 /\ deferred' = late
  \/ /\ status' = "QUEUED" /\ run' \in {before, Accepted(before)}
     /\ wait' = RESUME_BACKOFF_BASE_MINUTES /\ deferred' = TRUE

\* Mutant: an attempt is not yet due in the very minute of its notBefore.
NotDueYet == wait >= 0

BacksOff == wait > 0

QueuedResume == status = "QUEUED" /\ Resumed

PassOverWaiting ==
  /\ QueuedResume
  /\ BacksOff
  /\ sincePass' = 0
  /\ UNCHANGED <<row, wait, age, quiet, heldFor, runFor, idleFor, run, conclusion>>

PassDispatches ==
  /\ QueuedResume
  /\ ~BacksOff
  /\ Dispatch(run, deferred)
  /\ quiet' = 0 /\ idleFor' = 0 /\ sincePass' = 0
  /\ conclusion' = "NONE"
  /\ UNCHANGED <<kind, stamped, cause, same, delay, age, heldFor, runFor>>

\* What the pass may make of the job: only a stamped job has a run to ask about.
Verdicts == {Verdict(stamped /\ answered) : answered \in Answers}
Judged == Active /\ ~QueuedResume

PassLetsBe ==
  /\ Judged
  /\ "WAIT" \in Verdicts
  /\ sincePass' = 0
  /\ UNCHANGED <<row, wait, age, quiet, heldFor, runFor, idleFor, run, conclusion>>

\* A run a person cancelled in GitHub stays stopped.
PassParks ==
  /\ Judged
  /\ "CANCELLED" \in Verdicts
  /\ status' = "CANCELLED"
  /\ sincePass' = 0
  /\ UNCHANGED <<kind, stamped, resume, wait, age, quiet, heldFor, runFor, idleFor, run, conclusion>>

\* Mutant: the next attempt keeps the queuedAt of the stalled one.
queuedAtOfStalled == age

queuedAtOfNext == 0

\* resumeJob: the stalled job ends and its work starts again, at once or later.
PassResumes ==
  /\ Judged
  /\ \E code \in Verdicts \ {"WAIT", "CANCELLED"} :
       LET repetitions == consecutiveSameCause(code)
           minutes == resumeDelayMinutes(repetitions)
       IN /\ cause' = code
          /\ same' = repetitions
          /\ delay' = minutes
          /\ IF minutes > 0
             THEN status' = "QUEUED" /\ run' = "none" /\ wait' = minutes /\ deferred' = FALSE
             ELSE Dispatch("none", FALSE)
  /\ stamped' = FALSE
  /\ age' = queuedAtOfNext
  /\ quiet' = 0 /\ heldFor' = 0 /\ idleFor' = 0 /\ sincePass' = 0
  /\ runFor' = 0 /\ conclusion' = "NONE"
  /\ UNCHANGED kind

-----------------------------------------------------------------------------
Pass == PassOverWaiting \/ PassDispatches \/ PassLetsBe \/ PassParks \/ PassResumes

Next == Tick \/ RunStarts \/ RunClaims \/ RunStamps \/ RunFinishes \/ RunEnds \/ Pass

Spec == Init /\ [][Next]_vars

-----------------------------------------------------------------------------
\* Rows and clocks hold values the schema and the rules can have.
TypeOK ==
  /\ kind \in Kinds
  /\ status \in activeJobStatuses \cup {"CLOSED", "CANCELLED"}
  /\ stamped \in BOOLEAN /\ deferred \in BOOLEAN
  /\ cause \in Causes \cup {"NONE"}
  /\ same \in 0..MaxSame
  /\ delay \in 0..RESUME_BACKOFF_CEILING_MINUTES
  /\ wait \in Int
  /\ \A clock \in {age, quiet, heldFor, runFor, sincePass, idleFor} : clock \in Nat
  /\ run \in {"none", "pending", "running", "completed"}
  /\ conclusion \in Conclusions \cup {"NONE"}

\* The live runner of an execution job that did not wait for a back-off never meets
\* the 90-minute ceiling, although the ceiling counts from queuedAt and the pickup
\* comes out of it: 15 minutes of grace, a pass gap and the run's own 60 minutes
\* just fit (classifyExecutionJob, defaultStaleThresholds).  It says nothing of an
\* HTTP end-to-end job, whose run alone may take longer than the ceiling.
CeilingSparesExecutions ==
  [][PassResumes /\ run = "running" /\ cause' = "HARD_TIMEOUT" => Delayed \/ kind = "HTTP_E2E"]_vars

\* The ceiling is one "for a job that is genuinely running; the execution workflow
\* itself caps at 60": no running workflow run is cut off by it.  It does not hold,
\* of an attempt that waited as little as of an HTTP end-to-end job.
CeilingSparesRunners ==
  [][PassResumes /\ run = "running" => cause' # "HARD_TIMEOUT"]_vars

\* The same of the attempts that did not wait.  It does not hold of HTTP end-to-end jobs.
CeilingSparesUndelayed ==
  [][PassResumes /\ run = "running" /\ cause' = "HARD_TIMEOUT" => Delayed]_vars

\* The back-off of ADR 028: at once after a new cause, then 15 minutes, doubling
\* up to six hours for as long as the cause stays the same.
BackoffDoubles ==
  [][PassResumes =>
       delay' = IF cause' # cause THEN 0
                ELSE IF delay = 0 THEN RESUME_BACKOFF_BASE_MINUTES
                ELSE IF 2 * delay > RESUME_BACKOFF_CEILING_MINUTES
                THEN RESUME_BACKOFF_CEILING_MINUTES ELSE 2 * delay]_vars

\* Nobody but a later pass dispatches an attempt that waited: it does so before
\* the attempt is a whole gap between passes overdue.
DueAttemptStartsSoon == QueuedResume => wait > -PassGap

\* However a runner or a request went away, and whether or not GitHub answers, the
\* work is not left alone longer than its workflow's lease, grace and one gap between passes
\* ("a RUNNING state that can never end").
StallNoticedSoon == Active => idleFor <= leaseMinutes + leaseGraceMinutes + PassGap
=============================================================================
