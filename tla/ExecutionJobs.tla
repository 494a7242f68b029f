---------------------------- MODULE ExecutionJobs ----------------------------
(***************************************************************************)
(* The durable execution jobs of one task: a request enqueues and          *)
(* dispatches a job, GitHub starts a workflow run for it, the run claims   *)
(* the job row and writes it through to its end, and the scheduled         *)
(* reconciler ends stalled jobs and resumes their work.                    *)
(*                                                                         *)
(* Job <<o, 0>> carries operation o as it was requested, <<o, n>> its n-th *)
(* resumed attempt ("<operationId>#resume-<n>"), which the unique key on   *)
(* operationId makes one row.  All writers write whole rows from copies    *)
(* they read earlier (held); nothing compares before it writes except the  *)
(* claim.                                                                  *)
(*                                                                         *)
(* Time is abstract: with Overdue FALSE the reconciler's thresholds pass   *)
(* only for a job nobody works on; with Overdue TRUE also for a slow one.  *)
(***************************************************************************)
EXTENDS Integers, FiniteSets

CONSTANTS Operations,       \* operation ids requests carry
          Calls,            \* API requests, each served once
          Passes,           \* reconciler invocations that may overlap
          NoJob,
          MaxAttempt,       \* bound: resumed attempts per operation
          ConcurrentCalls,  \* how many requests may be in progress at once
          PassesAlone,      \* no request is served while a pass is under way
          CancelsJobs,      \* superadmin_job_cancel is among the requests
          FaultKinds,       \* what may go wrong
          MaxFaults,        \* how often, in all
          Overdue,          \* thresholds may pass although the runner is alive
          StaleReads        \* a runner may go on between the reconciler's read
                            \* of its job and what the reconciler does about it

Attempts == 0..MaxAttempt
JobIds == Operations \X Attempts
Actors == Calls \cup Passes

ASSUME BoundsAreNat ==
  MaxAttempt \in Nat /\ ConcurrentCalls \in Nat /\ MaxFaults \in Nat
ASSUME FaultsAreKnown ==
  FaultKinds \subseteq {"runner", "early", "step", "stop", "request", "pass", "dispatch", "answer"}
ASSUME ActorsDistinct == Calls \cap Passes = {} /\ IsFiniteSet(Calls) /\ NoJob \notin JobIds

inFlightStatuses == {"QUEUED", "DISPATCHING", "DISPATCHED", "CLAIMED", "RUNNING"}
\* STALLED: FAILED or TIMED_OUT, "Resumed automatically as a new attempt of the
\* same work".
JobStatuses == inFlightStatuses \cup
               {"NONE", "SUCCEEDED", "FAILED", "BLOCKED", "CANCELLED", "STALLED"}
RunStatuses == {"NONE", "RUNNING", "SUCCEEDED", "FAILED", "BLOCKED", "CANCELLED"}

\* A job row: the stamp is the workflowRunId its runner records; waiting is a
\* notBefore in the future; linked, that its runId names a stored run.
JobRows == [status : JobStatuses, stamped : BOOLEAN, waiting : BOOLEAN, linked : BOOLEAN]
NoRow == [status |-> "NONE", stamped |-> FALSE, waiting |-> FALSE, linked |-> FALSE]

Alive == {"claimed", "running", "published", "closeRun", "closeJob", "failJob", "failRun"}
RunnerLabels == Alive \cup {"none", "exited", "lost", "stopped"}
ActorLabels == {"idle", "done", "dead", "transition", "saveRun", "createJob", "dispatching",
                "dispatch", "dispatched", "blockJob", "failRun", "cancelJob", "cancelRun",
                "scan", "judge", "resume", "parkRun", "parkTask", "defer"}

VARIABLES
  task,     \* tasks.state, as far as enqueueing and closing a job read it
  run,      \* the run row of each operation
  jobs,     \* the job rows
  pending,  \* GitHub has accepted a workflow run of the job and not started it
  starts,   \* how many workflow runs GitHub accepted for the job
  runner,   \* the workflow run of the job that runs or ran last
  pc, on, held, \* each request and pass: next step, its job, its copy of the row
  own,      \* each request: did it save the run; did it create the job
  todo,     \* each pass: the jobs it listed and has still to look at
  faults

github == <<pending, starts>>
locals == <<on, held, own, todo>>
vars == <<task, run, jobs, github, runner, pc, locals, faults>>

InFlight == {j \in JobIds : jobs[j].status \in inFlightStatuses}
RunOf(j) == run[j[1]]

Init ==
  /\ task = "PLANNED"
  /\ run = [o \in Operations |-> "NONE"]
  /\ jobs = [j \in JobIds |-> NoRow]
  /\ pending = [j \in JobIds |-> FALSE]
  /\ starts = [j \in JobIds |-> 0]
  /\ runner = [j \in JobIds |-> "none"]
  /\ pc = [a \in Actors |-> "idle"]
  /\ on = [a \in Actors |-> NoJob]
  /\ held = [a \in Actors |-> NoRow]
  /\ own = [c \in Calls |-> [run |-> FALSE, job |-> FALSE]]
  /\ todo = [p \in Passes |-> {}]
  /\ faults = 0

Goto(a, label) == pc' = [pc EXCEPT ![a] = label]
At(a, from, to) == pc[a] = from /\ Goto(a, to)
RunnerAt(j, from, to) == runner[j] = from /\ runner' = [runner EXCEPT ![j] = to]

Fault(what) == what \in FaultKinds /\ faults < MaxFaults /\ faults' = faults + 1

\* updateExecutionJob: the whole row, whatever the stored one has become.
Write(j, row) == jobs' = [jobs EXCEPT ![j] = row]
WriteHeld(a, status) == Write(on[a], [held[a] EXCEPT !.status = status])

\* updateRun by someone who holds the id of operation o's stored run.
CloseRunRow(o, status) == run' = [run EXCEPT ![o] = status]

(***************************************************************************)
(* enqueueImplementation and enqueueRebase.                                *)
(***************************************************************************)
InProgress == {c \in Calls : pc[c] \notin {"idle", "done", "dead"}}

\* Mutant: the operation is not looked up first.
NotYetRequested(o) == TRUE

NewOperation(o) == jobs[<<o, 0>>].status = "NONE"

\* Mutant: a resumed attempt that waits for its back-off is not counted.
NoRunnerInFlight == \A j \in InFlight : jobs[j].waiting

NoJobInFlight == InFlight = {}

Admitted(c) ==
  /\ pc[c] = "idle"
  /\ Cardinality(InProgress) < ConcurrentCalls
  /\ PassesAlone => \A p \in Passes : pc[p] = "idle"

\* Everything up to the first write reads; a known operation is status-only.
\* Between them an implementation and a rebase accept every state in task.
Enqueue(c) ==
  /\ Admitted(c)
  /\ \E o \in Operations :
       /\ NewOperation(o)
       /\ on' = [on EXCEPT ![c] = <<o, 0>>]
  /\ NoJobInFlight
  /\ At(c, "idle", IF task = "IMPLEMENTING" THEN "saveRun" ELSE "transition")
  /\ UNCHANGED <<task, run, jobs, github, runner, held, own, todo, faults>>

EnterImplementing(c) ==
  /\ At(c, "transition", "saveRun")
  /\ task' = "IMPLEMENTING"
  /\ UNCHANGED <<run, jobs, github, runner, locals, faults>>

\* INSERT ... ON CONFLICT DO NOTHING: a second run of the operation is not stored.
SaveRun(c) ==
  /\ At(c, "saveRun", "createJob")
  /\ LET o == on[c][1]
     IN IF run[o] = "NONE"
        THEN CloseRunRow(o, "RUNNING") /\ own' = [own EXCEPT ![c].run = TRUE]
        ELSE UNCHANGED <<run, own>>
  /\ UNCHANGED <<task, jobs, github, runner, on, held, todo, faults>>

\* A second job of the operation is not stored either: the caller goes on with
\* the stored one.
CreateJob(c) ==
  /\ At(c, "createJob", "dispatching")
  /\ IF jobs[on[c]].status = "NONE"
     THEN LET row == [NoRow EXCEPT !.status = "QUEUED", !.linked = own[c].run]
          IN /\ Write(on[c], row)
             /\ held' = [held EXCEPT ![c] = row]
             /\ own' = [own EXCEPT ![c].job = TRUE]
     ELSE /\ held' = [held EXCEPT ![c] = jobs[on[c]]]
          /\ UNCHANGED <<jobs, own>>
  /\ UNCHANGED <<task, run, github, runner, on, todo, faults>>

\* The dispatch protocol, for a request and for the reconciler.
WriteDispatching(a) ==
  /\ At(a, "dispatching", "dispatch")
  /\ WriteHeld(a, "DISPATCHING")
  /\ UNCHANGED <<task, run, github, runner, locals, faults>>

Accepted(j) ==
  /\ pending' = [pending EXCEPT ![j] = TRUE]
  /\ starts' = [starts EXCEPT ![j] = @ + 1]

DispatchRefused(a) == Goto(a, IF a \in Calls THEN "blockJob" ELSE "defer")

\* GitHub accepts, or accepts and its answer is lost, or refuses.
Dispatch(a) ==
  /\ pc[a] = "dispatch"
  /\ \/ Accepted(on[a]) /\ Goto(a, "dispatched") /\ UNCHANGED faults
     \/ Accepted(on[a]) /\ DispatchRefused(a) /\ Fault("answer")
     \/ DispatchRefused(a) /\ Fault("dispatch") /\ UNCHANGED github
  /\ UNCHANGED <<task, run, jobs, runner, locals>>

\* executionResult throws for a request whose run is not the run of the job.
WriteDispatched(a) ==
  /\ pc[a] = "dispatched"
  /\ WriteHeld(a, "DISPATCHED")
  /\ Goto(a, IF a \in Passes THEN "scan" ELSE IF own[a].job THEN "done" ELSE "blockJob")
  /\ UNCHANGED <<task, run, github, runner, locals, faults>>

BlockJob(c) ==
  /\ At(c, "blockJob", "failRun")
  /\ WriteHeld(c, "BLOCKED")
  /\ UNCHANGED <<task, run, github, runner, locals, faults>>

FailRun(c) ==
  /\ At(c, "failRun", "done")
  /\ IF own[c].run THEN CloseRunRow(on[c][1], "FAILED") ELSE UNCHANGED run
  /\ UNCHANGED <<task, jobs, github, runner, locals, faults>>

\* superadmin_job_cancel reads the row, then writes it.
Cancel(c) ==
  /\ CancelsJobs
  /\ Admitted(c)
  /\ At(c, "idle", "cancelJob")
  /\ \E j \in InFlight : on' = [on EXCEPT ![c] = j] /\ held' = [held EXCEPT ![c] = jobs[j]]
  /\ UNCHANGED <<task, run, jobs, github, runner, own, todo, faults>>

CancelJob(c) ==
  /\ At(c, "cancelJob", "cancelRun")
  /\ WriteHeld(c, "CANCELLED")
  /\ UNCHANGED <<task, run, github, runner, locals, faults>>

CancelRun(c) ==
  /\ At(c, "cancelRun", "done")
  /\ IF held[c].linked /\ RunOf(on[c]) = "RUNNING"
     THEN CloseRunRow(on[c][1], "CANCELLED") ELSE UNCHANGED run
  /\ UNCHANGED <<task, jobs, github, runner, locals, faults>>

Serve(c) ==
  \/ EnterImplementing(c) \/ SaveRun(c) \/ CreateJob(c) \/ BlockJob(c) \/ FailRun(c)
  \/ CancelJob(c) \/ CancelRun(c)

RequestDies(c) ==
  /\ c \in InProgress
  /\ Goto(c, "dead")
  /\ Fault("request")
  /\ UNCHANGED <<task, run, jobs, github, runner, locals>>

\* Somebody is between two writes of this job's dispatch.
BeingDispatched(j) ==
  \E a \in Actors : on[a] = j /\ pc[a] \in {"dispatching", "dispatch", "dispatched", "blockJob", "defer"}

(***************************************************************************)
(* The workflow run (autopilot-execution.yml, run-execution-job.ts).  Its  *)
(* concurrency group runs one workflow run per job and keeps one pending.  *)
(***************************************************************************)
\* claim_execution_job: the only compare-and-set of the table.
Claimable(j) == jobs[j].status \in {"QUEUED", "DISPATCHED", "CLAIMED"}

\* A live lease, on this row or on another job of the task, may refuse the claim.
LeaseMayRefuse(j) ==
  jobs[j].status = "CLAIMED" \/ \E k \in JobIds \ {j} : jobs[k].status \in {"CLAIMED", "RUNNING"}

StartRun(j) == pending[j] /\ runner[j] \notin Alive /\ pending' = [pending EXCEPT ![j] = FALSE]

Claim(j) ==
  /\ StartRun(j)
  /\ Claimable(j)
  /\ jobs' = [jobs EXCEPT ![j].status = "CLAIMED"]
  /\ runner' = [runner EXCEPT ![j] = "claimed"]
  /\ UNCHANGED <<task, run, starts, pc, locals, faults>>

ClaimRefused(j) ==
  /\ StartRun(j)
  /\ ~Claimable(j) \/ LeaseMayRefuse(j)
  /\ ~BeingDispatched(j)
  /\ runner' = [runner EXCEPT ![j] = "exited"]
  /\ UNCHANGED <<task, run, jobs, starts, pc, locals, faults>>

\* The workflow installs dependencies for minutes before it claims, so coming
\* before the DISPATCHED write is a fault.
ClaimTooEarly(j) ==
  /\ StartRun(j)
  /\ ~Claimable(j)
  /\ BeingDispatched(j)
  /\ runner' = [runner EXCEPT ![j] = "exited"]
  /\ Fault("early")
  /\ UNCHANGED <<task, run, jobs, starts, pc, locals>>

\* Mutant: the row is written with a status the job table does not have.
RunnerWritesAsStarted(j, status) ==
  Write(j, [jobs[j] EXCEPT !.status = "STARTED", !.stamped = TRUE, !.waiting = FALSE])

\* The runner's copy carries its own run id from its first write on.
RunnerWrites(j, status) ==
  Write(j, [jobs[j] EXCEPT !.status = status, !.stamped = TRUE, !.waiting = FALSE])

Stamp(j) ==
  /\ RunnerAt(j, "claimed", "running")
  /\ RunnerWrites(j, "RUNNING")
  /\ UNCHANGED <<task, run, github, pc, locals, faults>>

\* Commit, push and the published commit.
Publish(j) ==
  /\ RunnerAt(j, "running", "published")
  /\ RunnerWrites(j, "RUNNING")
  /\ UNCHANGED <<task, run, github, pc, locals, faults>>

\* taskTest and taskReview (ReadyGate has their steps).
GateAccepts(j) ==
  /\ task = "IMPLEMENTING"
  /\ RunnerAt(j, "published", "closeRun")
  /\ task' = "VERIFYING"
  /\ UNCHANGED <<run, jobs, github, pc, locals, faults>>

GateRefuses(j) ==
  /\ RunnerAt(j, "published", "failJob")
  /\ task' = task \/ (task = "IMPLEMENTING" /\ task' = "BLOCKED")
  /\ UNCHANGED <<run, jobs, github, pc, locals, faults>>

CloseRun(j) ==
  /\ RunnerAt(j, "closeRun", "closeJob")
  /\ IF jobs[j].linked THEN CloseRunRow(j[1], "SUCCEEDED") ELSE UNCHANGED run
  /\ UNCHANGED <<task, jobs, github, pc, locals, faults>>

CloseJob(j) ==
  /\ RunnerAt(j, "closeJob", "exited")
  /\ RunnerWrites(j, "SUCCEEDED")
  /\ UNCHANGED <<task, run, github, pc, locals, faults>>

StepFails(j) ==
  /\ runner[j] \in {"claimed", "running", "closeRun", "closeJob"}
  /\ runner' = [runner EXCEPT ![j] = "failJob"]
  /\ Fault("step")
  /\ UNCHANGED <<task, run, jobs, github, pc, locals>>

FailJob(j) ==
  /\ RunnerAt(j, "failJob", "failRun")
  /\ \E status \in {"FAILED", "BLOCKED"} :
       Write(j, [jobs[j] EXCEPT !.status = status, !.waiting = FALSE])
  /\ UNCHANGED <<task, run, github, pc, locals, faults>>

FailOpenRun(j) ==
  /\ RunnerAt(j, "failRun", "exited")
  /\ IF jobs[j].linked /\ RunOf(j) = "RUNNING" THEN CloseRunRow(j[1], "FAILED") ELSE UNCHANGED run
  /\ UNCHANGED <<task, jobs, github, pc, locals, faults>>

\* With StaleReads FALSE no runner moves while a pass acts on a copy of its job.
Undisturbed(j) ==
  StaleReads \/ \A p \in Passes : ~(on[p] = j /\ pc[p] \in {"judge", "dispatching"})

Runner(j) ==
  /\ Undisturbed(j)
  /\ \/ Claim(j) \/ ClaimRefused(j) \/ Stamp(j) \/ Publish(j) \/ GateAccepts(j) \/ GateRefuses(j)
     \/ CloseRun(j) \/ CloseJob(j) \/ FailJob(j) \/ FailOpenRun(j)

\* The runner never comes, vanishes, or hits the workflow's 60-minute limit.
RunnerLost(j) ==
  /\ \/ pending[j] /\ runner[j] \notin Alive
     \/ runner[j] \in Alive /\ ~pending[j]
  /\ pending' = [pending EXCEPT ![j] = FALSE]
  /\ runner' = [runner EXCEPT ![j] = "lost"]
  /\ Fault("runner")
  /\ UNCHANGED <<task, run, jobs, starts, pc, locals>>

\* A person cancels the workflow run in GitHub.
PersonStops(j) ==
  /\ pending[j] \/ runner[j] \in Alive
  /\ pending' = [pending EXCEPT ![j] = FALSE]
  /\ runner' = [runner EXCEPT ![j] = "stopped"]
  /\ Fault("stop")
  /\ UNCHANGED <<task, run, jobs, starts, pc, locals>>

(***************************************************************************)
(* The reconciler (recoverStalledWork, classifyExecutionJob).              *)
(***************************************************************************)
BackoffEnds(j) ==
  /\ jobs[j].waiting
  /\ jobs' = [jobs EXCEPT ![j].waiting = FALSE]
  /\ UNCHANGED <<task, run, github, runner, pc, locals, faults>>

ListActive(p) ==
  /\ InFlight # {}
  /\ At(p, "idle", "scan")
  /\ todo' = [todo EXCEPT ![p] = InFlight]
  /\ UNCHANGED <<task, run, jobs, github, runner, on, held, own, faults>>

\* Mutant: the row is judged whatever its status has become.
StillListed(j) == TRUE

StillActive(j) == jobs[j].status \in inFlightStatuses

QueuedResume(j) == jobs[j].status = "QUEUED" /\ j[2] > 0

\* Mutant: nobody dispatches an attempt that once had to wait.
WaitsForSomebody(j) == QueuedResume(j)

BacksOff(j) == QueuedResume(j) /\ jobs[j].waiting

\* getExecutionJob: a resumed attempt that is due is dispatched, one that waits
\* or a job that has ended is left alone, anything else is judged.  GitHub's run
\* url equals the one the runner stamped, so the code rewrites no row for it.
ReadJob(p) ==
  /\ pc[p] = "scan"
  /\ \E j \in todo[p] :
       /\ todo' = [todo EXCEPT ![p] = @ \ {j}]
       /\ on' = [on EXCEPT ![p] = j]
       /\ held' = [held EXCEPT ![p] = jobs[j]]
       /\ Goto(p, IF ~StillActive(j) \/ BacksOff(j) THEN "scan"
                  ELSE IF QueuedResume(j) THEN "dispatching" ELSE "judge")
  /\ UNCHANGED <<task, run, jobs, github, runner, own, faults>>

EndPass(p) ==
  /\ At(p, "scan", "idle")
  /\ todo[p] = {}
  /\ UNCHANGED <<task, run, jobs, github, runner, locals, faults>>

\* A completed run of a stamped job, or a threshold that has passed: for a stamped
\* job the hard timeout, or the lease when GitHub does not answer; for a pending
\* one the dispatch grace, which no request outlives.
Stalled(p) ==
  LET j == on[p]
  IN \/ held[p].stamped /\ runner[j] \notin Alive
     \/ Overdue /\ held[p].stamped
     \/ Overdue /\ pending[j] /\ ~BeingDispatched(j)
     \/ runner[j] \notin Alive /\ ~pending[j] /\ ~BeingDispatched(j)

\* The end a stalled job is given, and whether its work may be resumed:
\* GITHUB_ACTIONS_CANCELLED needs a run id to ask GitHub about.
StoppedByPerson(p) == held[p].stamped /\ runner[on[p]] = "stopped"

Terminalize(p) ==
  /\ pc[p] = "judge"
  /\ Stalled(p)
  /\ IF StoppedByPerson(p)
     THEN WriteHeld(p, "CANCELLED") /\ Goto(p, "parkRun")
     ELSE WriteHeld(p, "STALLED") /\ Goto(p, "resume")
  /\ UNCHANGED <<task, run, github, runner, locals, faults>>

LetBe(p) ==
  /\ At(p, "judge", "scan")
  /\ Overdue \/ ~Stalled(p)
  /\ UNCHANGED <<task, run, jobs, github, runner, locals, faults>>

NextAttempt(j) == <<j[1], j[2] + 1>>

\* resumeJob and createExecutionJob: an attempt that exists already is not
\* created again, and is dispatched again if it is due.
Resume(p) ==
  /\ pc[p] = "resume"
  /\ on[p][2] < MaxAttempt
  /\ LET next == NextAttempt(on[p])
     IN /\ on' = [on EXCEPT ![p] = next]
        /\ IF jobs[next].status = "NONE"
           THEN \E waits \in BOOLEAN :
                  LET row == [status |-> "QUEUED", stamped |-> FALSE, waiting |-> waits,
                              linked |-> held[p].linked]
                  IN /\ Write(next, row)
                     /\ held' = [held EXCEPT ![p] = row]
                     /\ Goto(p, IF waits THEN "scan" ELSE "dispatching")
           ELSE /\ held' = [held EXCEPT ![p] = jobs[next]]
                /\ Goto(p, IF jobs[next].waiting THEN "scan" ELSE "dispatching")
                /\ UNCHANGED jobs
  /\ UNCHANGED <<task, run, github, runner, own, todo, faults>>

\* A refused dispatch leaves the attempt queued for another 15 minutes.
DeferDispatch(p) ==
  /\ At(p, "defer", "scan")
  /\ Write(on[p], [held[p] EXCEPT !.status = "QUEUED", !.waiting = TRUE])
  /\ UNCHANGED <<task, run, github, runner, locals, faults>>

ParkRun(p) ==
  /\ At(p, "parkRun", "parkTask")
  /\ IF held[p].linked /\ RunOf(on[p]) = "RUNNING"
     THEN CloseRunRow(on[p][1], "FAILED") ELSE UNCHANGED run
  /\ UNCHANGED <<task, jobs, github, runner, locals, faults>>

ParkTask(p) ==
  /\ At(p, "parkTask", "scan")
  /\ task' = IF task = "IMPLEMENTING" THEN "BLOCKED" ELSE task
  /\ UNCHANGED <<run, jobs, github, runner, locals, faults>>

Pass(p) ==
  \/ ListActive(p) \/ ReadJob(p) \/ EndPass(p) \/ Terminalize(p) \/ LetBe(p) \/ Resume(p)
  \/ DeferDispatch(p) \/ ParkRun(p) \/ ParkTask(p)

\* The edge function dies; the next invocation starts afresh.
PassDies(p) ==
  /\ pc[p] # "idle"
  /\ Goto(p, "idle")
  /\ todo' = [todo EXCEPT ![p] = {}]
  /\ Fault("pass")
  /\ UNCHANGED <<task, run, jobs, github, runner, on, held, own>>

-----------------------------------------------------------------------------
Dispatching(a) == WriteDispatching(a) \/ Dispatch(a) \/ WriteDispatched(a)

Next ==
  \/ \E c \in Calls : Enqueue(c) \/ Cancel(c) \/ Serve(c) \/ RequestDies(c)
  \/ \E a \in Actors : Dispatching(a)
  \/ \E j \in JobIds : Runner(j) \/ ClaimTooEarly(j) \/ StepFails(j) \/ RunnerLost(j) \/ PersonStops(j) \/ BackoffEnds(j)
  \/ \E p \in Passes : Pass(p) \/ PassDies(p)

\* Requests and workflow runs go on, the cron fires for ever, back-offs end.  The
\* fairness of a runner is strong because Undisturbed, which is no code, holds it
\* back now and then.
Fairness ==
  /\ \A c \in Calls : WF_vars(Serve(c) \/ Dispatching(c))
  /\ \A j \in JobIds : SF_vars(Runner(j)) /\ WF_vars(BackoffEnds(j))
  /\ \A p \in Passes : WF_vars(Pass(p) \/ Dispatching(p))

Spec == Init /\ [][Next]_vars
FairSpec == Spec /\ Fairness

-----------------------------------------------------------------------------
\* Rows hold what the schema accepts, and a process knows the job it works on.
TypeOK ==
  /\ task \in {"PLANNED", "IMPLEMENTING", "VERIFYING", "BLOCKED"}
  /\ run \in [Operations -> RunStatuses]
  /\ jobs \in [JobIds -> JobRows]
  /\ pending \in [JobIds -> BOOLEAN]
  /\ starts \in [JobIds -> Nat]
  /\ runner \in [JobIds -> RunnerLabels]
  /\ pc \in [Actors -> ActorLabels]
  /\ on \in [Actors -> JobIds \cup {NoJob}]
  /\ held \in [Actors -> JobRows]
  /\ own \in [Calls -> [run : BOOLEAN, job : BOOLEAN]]
  /\ todo \in [Passes -> SUBSET JobIds]
  /\ faults \in 0..MaxFaults

\* One job per task at a time, over requests, retries, lost runners and resumed
\* attempts that wait for their back-off (requireNoJobInFlight).
OneJobInFlight == Cardinality(InFlight) <= 1

\* Repeating an operationId never starts a second workflow run for the operation,
\* even after the request that carried it first died half-way.
ReplayIsStatusOnly == \A o \in Operations : starts[<<o, 0>>] <= 1

\* A job whose completion callback is stored is never judged to have ended
\* before that callback, nor reopened (classifyExecutionJob, recoverStalledWork).
CallbackIsFinal ==
  [][\A j \in JobIds : jobs[j].status = "SUCCEEDED" => jobs'[j].status = "SUCCEEDED"]_vars

LatestStatus(o) ==
  LET made == {n \in Attempts : jobs[<<o, n>>].status # "NONE"}
  IN IF made = {} THEN "NONE" ELSE jobs[<<o, CHOOSE n \in made : \A k \in made : k <= n>>].status

\* Stalled work resumes until a runner or a person ends it, however its runners,
\* dispatches and back-offs turn out ("Stalled work resumes; it is not parked").
WorkIsNotParked ==
  \A o \in Operations :
    LatestStatus(o) \in inFlightStatuses \cup {"STALLED"}
      ~> LatestStatus(o) \in {"SUCCEEDED", "FAILED", "BLOCKED", "CANCELLED"}
=============================================================================
