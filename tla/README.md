# Backend Autopilot: a TLA+ verification project

Backend Autopilot takes a planned task of a backend project, has a disposable
GitHub Actions runner implement, test and review it, keeps everything it learns
as rows and artifacts in Postgres, and lets a task become READY (and a pull
request be merged) only on evidence about the exact commit. Around that it runs
the application in throwaway containers and sends it its whole HTTP API, judges
epics and missions made of finished tasks, moves verified work onto newer bases,
and decides which repository a project is developed in. Nothing in it holds a
lock over a handler: edge functions, workflow runs and a scheduled reconciler
read rows, await, and write whole rows back. The modules here model those
handlers step by step. TLC checks them on small instances, and TLAPS proves nearly
all of their safety properties for every instance.

All paths below are relative to the root of the repository.

## 1. Inventory

| Component | Source | State it keeps | Operations | What makes it correct | Module |
|---|---|---|---|---|---|
| READY gate, task workflow | `packages/core/src/application.ts`, `task-readiness.ts`, `packages/workflow-engine`, `packages/execution-engine/src/reviewer.ts` | `tasks.state`, runs, artifacts | `taskTest`, `taskReview`, `promoteToReady`, `taskCompleteVerification`, retry, replan, transition | READY only on evidence about the commit; a task is never at rest in TESTING or REVIEWING; proof that exists is acted on | `ReadyGate` |
| Execution runner | `scripts/run-execution-job.ts`, `.github/workflows/autopilot-execution.yml` | its copy of the job row, a clone | claim, stamp, check out, publish, gate, close, catch block | one runner per job; the catch block takes the task out of the gate; the callback is final; nothing is recorded that was not pushed | `ReadyGate`, `ExecutionJobs`, `StallRecovery`, `TaskBranch` |
| Enqueue and dispatch | `packages/core/src/async-execution.ts`, `packages/adapters/github/src/actions-dispatcher.ts` | job and run rows | `enqueueImplementation`, `enqueueRebase`, dispatch | one job per task; an operationId is replayed, never run twice | `ExecutionJobs` |
| Job store | `packages/project-registry/src/postgres-store.ts`, `migrations/0002_remote_runtime.sql` | all rows | whole-row writes, insert-or-keep, `claim_execution_job`, lists without an order | the claim is exclusive; "latest" is the latest | `ExecutionJobs`, `ReadyGate` |
| Stall recovery | `packages/core/src/stall-recovery.ts`, `execution-reconciliation.ts`, `supabase/functions/reconcile` | the `resume` part of job rows | a pass: list, judge, end, resume, dispatch, defer, park | stalled work resumes and is not parked; live runners are spared; repeated causes back off | `ExecutionJobs`, `StallRecovery` |
| HTTP E2E jobs | `packages/ephemeral-environment/src/http-e2e-job.ts`, `scripts/http-e2e-*.ts` | HTTP_E2E jobs, evidence | enqueue, prepare, run, record, close | evidence belongs to one commit; a verdict completes a VERIFYING task | `ReadyGate`, `HttpE2e` |
| Merge and rebase eligibility | `packages/superadmin/src/merge-eligibility.ts`, `rebase-eligibility.ts` | none | `resolveMergeableCommit`, `resolveRebasePlan` | what is merged passed the gate; what is transferred is the verified work | `ReadyGate`, `RebaseTransfer`, `TaskBranch` |
| Branch continuity, rebase publication | `packages/execution-engine/src/branch-continuity.ts`, `rebase-transfer.ts`, `rebase-publication.ts`, `packages/adapters/git` | refs on origin, job rows | resume or heal a branch, transfer, create, adopt, replace | no push clobbers what it did not see; a transfer keeps both sides | `RebaseTransfer`, `TaskBranch` |
| Canonical repository | `packages/canonical-repository`, `migrations/0006_canonical_repository.sql`, `autopilot-repository-export.yml` | binding rows, registrations, reports | promote, rollback, rename, export, verify, handover | one ACTIVE row at the end of one line of versions; a move is the one its caller pinned; what is answered as done is there | `CanonicalRepository`, `BindingRegister` |
| Admin operations | `packages/superadmin/src/index.ts` | `admin_operations` | `mutate` and the calls that move tasks, jobs, registrations, missions | an operationId acts once | partly: `ReadyGate`, `ExecutionJobs`, `CanonicalRepository`, `Delivery` |
| Missions, epics | `packages/superadmin/src/missions.ts`, `packages/core/src/mission.ts`, `epic-verification.ts`, `scripts/run-epic-verification.ts` | missions, evidence, reports | derive the next call, update, run the dimensions, persist a verdict | a PASS was run at that head; every member is counted; ACHIEVED is what was read | `EpicVerification`, `MissionProgress`, `Delivery` |
| Ephemeral environment | `packages/ephemeral-environment/src/{plan,executor,docker-runtime,parity,diagnosis}.ts` | containers, evidence | plan, start, wait, run, compare, tear down | nothing is built on a guess; answers are the application's own | `EnvironmentPlan`, `EnvironmentVerdict`, `HttpE2e` |
| HTTP runner | `packages/http-runner/src/{index,collection,contract-discovery}.ts` | variables of a collection run | discover, import, send, extract, assert, cover | PROVEN covers every documented operation | `HttpScenario`, `HttpCollection`, `HttpE2e` |
| Artifact storage | `packages/artifact-store`, `packages/adapters/{r2,supabase,artifact-storage}` | blobs, index rows | write then index, route | an index row has its blob | not modelled |
| Repair progress, scope, profiles | `packages/core/src/repair-progress.ts`, ... | none | pure functions | a repeated cause is recognised | not modelled |
| Workspace and commands, schemas, policies, console, bootstrap, context, audit, entry points | several | none or append-only | I/O, validation, projection | | the quarantine of a checkout in `TaskBranch`; otherwise no state of their own |

How they interact. An entry point (control API, MCP server, edge function) calls
a service; enqueueing writes a run and a job and asks GitHub for a workflow run;
the run claims the job through a database function, publishes a commit and calls
the gate; a VERIFYING task gets an HTTP_E2E job whose own workflow records
evidence and completes the task; every quarter of an hour the reconciler reads
what is in flight, asks GitHub about it and ends, resumes or dispatches. A READY
task is merged, or transferred onto a newer base; epics and missions read READY
tasks; a promotion changes which repository all of this is about. The only
shared state is Postgres and the branches on origin. What is hard: writes from
old copies, two requests or a runner and a request at once, processes that die
between two writes, answers of GitHub that are lost or late, branches that others
move, rows read without an order, and clocks that count from the wrong instant.
`PROJECT.json` lists these hazards line by line.

## 2. Modules

`MC` modules extend a component's module with what one instance needs: symmetry
sets, the scenarios a run considers, and for TaskBranch an action constraint
(explained there). `_proofs` modules hold the theorems, and `Iteration` the
induction over 0..N that two of them share. `Selection` is what `filter` does to an
array, for two components. No module uses a RECURSIVE operator.
A definition whose comment begins with "Mutant" is no part of a specification: it
is what a plausible bug would make of the definition next to it, and the property
it is paired with in `PROJECT.json` then fails.

### ReadyGate: one task from PLANNED to READY and merged

State: the task's state, its runs in creation order, the execution and HTTP_E2E
job rows, the artifacts as far as the gate reads them (test reports, CI reports,
HTTP evidence, manifests, and whether the other kinds exist), the heads of the
task and rebase branch, the merged commits. Processes are the runners of `Jobs`,
the recorders of `Verifications` and the API requests `Calls`. Each has a program
counter `pc`; what it read earlier and will use later is in `seen` (a commit) and
`goal` (a state). A job names the commit it makes, because every ExecutionEngine
commit is new ("no diff" is an error).

| Actions | Code |
|---|---|
| `Runner`: checkout, push, record, test, gate, close, auto-verify | `scripts/run-execution-job.ts`, `application.ts` `taskTest` and `taskReview` |
| `Review`: review, read runs, gate, manifest, promote, leave | `application.ts` `taskReview`, `promoteToReady`, `taskCompleteVerification` |
| `Fault` with `Catch`, `Unstrand`, `FailJob`, `FailRun` | the runner's catch block |
| `Call` (implement, rebase, review, complete, verify, transition, replan, cancel, merge) and `Serve` | `async-execution.ts`, `superadmin/src/index.ts`, `merge-eligibility.ts`, `rebase-eligibility.ts` |
| `OpenE2e`, `Recorder` | `http-e2e-job.ts`, `scripts/http-e2e-record.ts` |
| `ResumeJob`, `Crash` | a stalled job's work beside its runner; a process that vanishes |

A retry is the same task write as a replan and is in `CallReplan`. Every task
write is unconditional: `WorkflowEngine.transition` checks the caller's own copy.
`StoreOrdered` says whether the runner's lists come in creation order. Postgres
promises none for a query without ORDER BY; the edge functions read through
PostgREST with one.

Left out: dependencies between tasks and their bases; already integrated
rebases and the healing of a diverged branch, which TaskBranch has; cancelling
and resuming an HTTP_E2E job, planning content, the repair budget. A REPAIR is an
IMPLEMENTATION here.

### ExecutionJobs: the durable job, its dispatch, its runner, the reconciler

State: the task (as far as enqueueing reads it), one run row per operation, one
job row per operation and resumed attempt (`<<o, n>>` is
`<operationId>#resume-<n>`, unique in the table), the workflow runs GitHub
accepted (`pending`, and `starts` counts them), the runner of each job, and per
request and pass its program counter, its job and its copy of the row (`held`).
The actions are one database write or one call of GitHub each, in the code's
order: `Enqueue`, `EnterImplementing`, `SaveRun`, `CreateJob`, `WriteDispatching`,
`Dispatch`, `WriteDispatched` and the refusal path; `Claim` to `CloseJob` and the
catch block; `ListActive`, `ReadJob`, `Terminalize`, `Resume`, `DeferDispatch`,
`ParkRun`, `ParkTask`. `FaultKinds` names what may go wrong: a runner lost, a
workflow run that claims too early, a throwing step, a person who cancels in
GitHub, a request or a pass that dies, a dispatch refused, an answer lost.
`MaxFaults` bounds how often in all.

Time is abstract here. With `Overdue = FALSE` the thresholds pass only for a job
nobody works on; with TRUE also for a slow one. `StaleReads` lets a runner go on
between the reconciler's read of its job and what the reconciler does about it.

### StallRecovery: the reconciler's clock

The same reconciler with a pass as one step and explicit minutes: the newest attempt of
one piece of work, its row, its workflow run, and each timestamp as the minutes since or
until it. `Verdict` is `classifyExecutionJob`, `resumeDelayMinutes` the back-off,
`PassResumes` is `resumeJob` with the dispatch that follows, `PassDispatches`,
`PassOverWaiting`, `PassParks`, `PassLetsBe` the other branches of `recoverStalledWork`.
A clock stops once no rule can tell it from a later one. `kind` is the workflow the job
runs in: EXECUTION stands for `IMPLEMENTATION`, `REPAIR` and `REBASE`, which claim for
20 minutes and run 60 at most (`timeout-minutes` of `autopilot-execution.yml`), HTTP_E2E
for the verification jobs, which claim for 75 and run 15 + 75 + 10
(`autopilot-http-e2e.yml`; the time GitHub needs to find runners for its second and
third job is not counted). The thresholds are the same for both. The environment is a
workflow run that may start, claim, stamp, finish or end at any time within those
minutes, GitHub that may not answer, refuse, or accept and lose the answer, and passes
that come at any time but at most `PassGap` minutes apart (the cron says every 15;
GitHub does not promise it, so this is an assumption).

### CanonicalRepository and BindingRegister: where a project is developed

State: the binding rows in insertion order, what each resource is registered
under and whether it is ACTIVE, the project row, the reports, the saved
operations; of the provider, its table of names (redirects included), full
names, default heads and dispatched transfers. A request is one execution of a
mutation inside `mutate`; two requests with one operationId are a call and its
retry. `Pin` is the dry run a caller pins a version, a head or a name from;
`Lookup`, `ReadRegistry`, the judgement of each tool, its writes, `Report` and
`Save` are one await each, and `Die` may come after any of them. `Swap` is the
database function `promote_canonical_repository` with its lock and unique
indexes, `ReadBack` the read that decides whether it may be called a success.
`BindingRegister` is the promise: a register that names one repository, moves
one version at a time and takes each operation at most once. `Register`
instantiates it over the rows and `RegisterSpec` is checked and proved.

### EpicVerification, MissionProgress, Delivery: what finished tasks amount to

`EpicVerification` has the pure part of an epic's verdict: the walk along
SUPERSEDES relationships, what plans oblige an epic to prove, which outcomes of a
suite answer a dimension, and the report. `MissionProgress` has the steps of a
mission and the next call it derives. `Delivery` puts them among processes: the
runner of an epic (`Preflight`, `CommitContainment`, `RecordDimension`,
`ReadMembers`, `PersistReport`), an operator who records and judges, requests on
a mission (`UpdateLoads` to `UpdateStores`, whole rows), comparisons, repositories
disabled and put back, and tasks that are finished, reopened and landed, with
squash merges that leave a verified commit in no branch.

### HttpScenario, HttpCollection, EnvironmentPlan, EnvironmentVerdict, HttpE2e

`HttpScenario` has one scenario: the target it may reach, what a step sends,
where redirects may lead, what is extracted and asserted, the status it earns.
`HttpCollection` has contracts and collections: path matching, discovery with
its limits and gaps, the import of a Postman collection, coverage and the verdict
a run may claim. `EnvironmentPlan` decides what is built and started from files
and manifest, `EnvironmentVerdict` compares two implementations and names the
area to change. `HttpE2e` is a job over all of these: claim, plan, network,
dependencies, commands, start, health, collection step by step, cleanup, perhaps
the same for a reference on the same port, comparison, recording. Every command,
container, exchange and cleanup may fail and the job may die. Texts are reduced
to what the code tells apart: a path is its segments, a body its fields and
their kinds, a file the marks the detection looks for. `Evidence` is an answer as
it is stored and compared, after `redact`: a field named like a secret keeps
nothing of its value, a text keeps all but a credential in it (`secret`). A path
item has operations of its own, a `$ref`, or both: `ResolvePathItem` merges it
with what its file holds, and `Unresolved` says which items become a gap.

### RebaseTransfer and TaskBranch: the branches of one task

`RebaseTransfer` has the decisions: continuity of a branch, eligibility, the
merge of a change set, and publication. A commit is its parent, its ancestors and
what each path holds; a path stands for the smallest unit git merges. `TaskBranch`
runs them: `EnqueueImplementation`, `EnqueueRebase`, `Cancel`; per runner
`Checkout` (with its quarantine and one fresh clone), `Implement` or `Transfer`,
`Record`, `Push` under a lease, `RecordPublished`, `RecordRun`, the outcome of the
gate, `Finish`, and `StepFails` and `RunnerDies` between any two; and others who
advance the base, merge, push to, rewrite and delete branches. The gate is its
outcome here; its steps are in ReadyGate.

`MCTaskBranch` explores what others do only while no job is in flight or a runner
may check out, work or push next. Nothing else reads origin or the default
branch, so such a step commutes with every step it is kept from: the order is a
partial-order argument, and every property speaks of states on which the two
orders agree.

## 3. Runs

| Run | Question | Properties | Bounds |
|---|---|---|---|
| `gate_overlap` | two runners of one task, racing requests, an outside review and merge, throwing steps, a stalled job resumed beside its runner | `TypeOK`, `ReadyCommitVerified`, `MergedCommitVerified`, `NeverAtRestInGate` | 2 jobs, 2 requests at once |
| `gate_e2e` | HTTP proof owed, cancellation, recovery call, one crash anywhere | `ReadyCommitVerified`, `MergedCommitVerified` | 2 jobs, 1 verification, 2 requests at once |
| `gate_sequential` | repair, rebase, replan, transition, merge one at a time | `ReadyIsForLatestCommit` | 2 jobs, 3 requests |
| `gate_progress` | fair runners, recorders and requests | `ProofIsActedOn` | 2 jobs, 2 verifications, 2 requests |
| `gate_unordered` | rows in no order | `ReadyIsForLatestCommit` is violated | 2 jobs, 2 requests |
| `jobs_retries` | a repeated operationId, cancellations, a reconciler with stale reads, any two faults | `TypeOK`, `ReplayIsStatusOnly` | 1 operation, 2 requests, 1 resumed attempt |
| `jobs_serial` | requests and passes one after the other; one lost or stopped runner, early claim, dead request, refused dispatch or lost answer | `OneJobInFlight`, `CallbackIsFinal`, `WorkIsNotParked` | 2 operations, 1 resumed attempt |
| `stall_clock` | all orders of deaths, claims, answers and passes | `TypeOK`, `DueAttemptStartsSoon`, `StallNoticedSoon`, `CeilingSparesExecutions`, `BackoffDoubles` | both kinds of job, steps of 5 minutes, gap 15, 8 repetitions |
| `canonical_calls` | any two mutations, the first retried, beside pushes, transfers and requests that die | `TypeOK`, `OneLineOfBindings`, `DoneIsDurable`, `RegistrationKeepsRepository`, `MovesWhatWasPinned`, `RegisterSpec` | 4 requests, 3 operations, 2 repositories, 1 spare name, `MaxCommits` 2 |
| `delivery` | epics, operators, mission updates and comparisons while tasks, branches and registrations move | `TypeOK`, `PassWasRunAtHead`, `SupersededHasStandIn`, `CheckedMembersInHead`, `AchievedAsJudged`, `ComparisonWaitsForTask` | 3 tasks, 2 dimensions, 2 repositories, 2 epic runs, 2 mission requests, 2 comparisons |
| `http_e2e` | one job over a catalogue of projects, contracts and collections, with faults | `TypeOK`, `ProvenMeansAnswered`, `MatchMeansSameAnswers`, `AnswersAreItsOwn`, `NothingBuiltOnAGuess` | 19 cases, 2 operations per contract, 1 reference |
| `task_branch` | implementations and transfers against a repository others move | `TypeOK`, `CommitWasPublished`, `DivergedOnlyWhenRewritten`, `TransferKeepsBothSides`, `RewritesOnlyWhatWasSeen` | 3 jobs, 2 paths, `MaxTrouble` 2 |

All but `gate_unordered` pass.

Why the bounds are enough. Two jobs give every pair of an older and a newer
commit, which is what every rule of the gate compares; a third request lets a
finished chain be followed by a rebase or a replan and a merge. One resumed
attempt beside its original gives a stalled job, its late runner and its
successor; longer chains repeat that pair, and `Resume` has no step beyond
`MaxAttempt`. Five minutes divide every threshold, so a clock is seen at and just
beyond each; eight repetitions reach the six-hour ceiling and stay on it. Two
mutations and a retry give a compare-and-set that wins, one that loses and one
that is repeated; what needs a third operation (a rollback of a line of two) is
given one. The SUPERSEDES graphs of three members are all there with one open
member: three is the smallest number with a chain, a fork and a cycle that is not
a pair. Three jobs of a task give an implementation, a transfer and whatever may
follow either. The cases of `http_e2e` are chosen, not enumerated: each is in
MCHttpE2e with what it is for. `MaxRedirects`, `MaxReads`, `MaxOperations`,
`MaxDepth` and `MaxStepsPerScenario` are limits of the code, made small enough to
be reached. The other bounds in guards are `MaxCrashes`, `MaxFaults`,
`MaxAttempt`, `ConcurrentCalls`, `MaxSame`, `MaxCommits`, `MaxComparisons`,
`MaxJobs`, `MaxTrouble` and a scenario's `moves`; requests are served once each.
Runs do not check for deadlock because the systems stop: all requests are served
and the work has ended.

Symmetry is used only in runs of invariants of the gate and of the jobs; jobs,
requests, operations and passes only name rows and processes there.

Fairness. `FairSpec` of ReadyGate: a runner, a recorder and a request that is
under way goes on (weak fairness of each); nobody owes a request, a fault or a
crash. `FairSpec` of ExecutionJobs: requests and dispatches go on, a workflow run
GitHub accepted runs, back-offs end and the cron fires for ever. A runner's
fairness is strong there because the guard that keeps a pass's read fresh
(`StaleReads = FALSE`) holds it back now and then, which is no code. Faults are
never fair. The other modules state safety only.

## 4. Where the code and its documents differ

`gate_unordered` is a run of its own: `PostgresStateStore.listRuns` has no ORDER
BY and the gate takes the last row; an older run's green report may stand for the
newest commit.

The following were found the same way, with the formula and the instance named.
The formulas stay in the modules; each is violated by the code as it is.

Jobs and their recovery:

- `OneJobInFlight`, two requests at once (`ExecutionJobsSerial.cfg` with
  `Operations` {o1, o2}, `Calls` {c1, c2}, `Passes` {}, `ConcurrentCalls` 2,
  `MaxAttempt` 0, no fault): "one job per task at a time" is checked several
  awaits before the job is created, with no constraint in the table.
- `WorkIsNotParked`, a pass that dies (one operation, `FaultKinds` {"runner",
  "pass"}, `MaxFaults` 2, `MaxAttempt` 2, `PassesAlone` FALSE): a stalled job is
  ended in one write and resumed in another; what lies between them is lost to
  every later pass.
- `CallbackIsFinal`, a late answer (one operation, `Overdue` and `StaleReads` TRUE,
  no fault): the reconciler writes a row it read before it asked GitHub, over a
  completion stored meanwhile, and the work is done twice.
- `CeilingSparesRunners` (`StallRecoveryClock.cfg`): the ceiling "for a job that is
  genuinely running" counts from `queuedAt`, back-off included.
- `CeilingSparesUndelayed` (the same run): the ceiling is the execution workflow's
  ("the execution workflow itself caps at 60", `execution-reconciliation.ts:23`), but
  the reconciler holds `HTTP_E2E` jobs to it too (`stall-recovery.ts:23`), and their
  workflow may take 15 + 75 + 10 minutes (`autopilot-http-e2e.yml:34,103,144`). In the
  counterexample a verification picked up after a quarter of an hour is 95 minutes old
  while its run is in its 80th: it is ended as TIMED_OUT, its evidence is then refused
  (the row is no longer RUNNING), and it is run again. `CeilingSparesExecutions` and
  its theorem are therefore about execution jobs only.
- A killed runner (no catch block) leaves its task in TESTING or REVIEWING; the
  reconciler moves only IMPLEMENTING tasks. `NeverAtRestInGate` is stated for
  runs without kills.
- A recorder or a review that started before a new execution was enqueued may
  write READY after it; `ReadyIsForLatestCommit` holds one request at a time, and
  beside recorders as long as no run is added between their read and their write.
- With `Overdue = TRUE`, a slow runner's next write makes a job it was taken from
  active again, and the reconciler may then dispatch the attempt that already
  SUCCEEDED. A cancelled job is made active again the same way, since cancelling
  does not stop its runner.
- Two requests with one operationId at once may both dispatch its one job.
- `CallbackIsFinal`, two passes at once (one operation and request, `Passes` {p1, p2}):
  nothing keeps passes apart, both may dispatch the attempt that is due, and the
  later DISPATCHED is written over whatever its runner stored in between.
  `OneJobInFlight` holds there.
- A run cancelled in GitHub before its runner stamped the job is resumed like a
  stall: an unstamped job has no run to ask about.

The canonical repository (`CanonicalRepositoryCalls.cfg`):

- `CanonicalWaitsForTransfer`: a promotion that read the artifacts before an export
  was reported lands while the transfer is under way.
- `ActiveNamesItsResource`: a rollback restores the whole earlier row; when its
  repository was renamed meanwhile, so does the old name come back.
- `ProjectNamesItsResource`: re-pointing a project beside a rename leaves a name
  its resource no longer has, although `projectUpdate` says it "can never drift".
- `RegistrationKeepsRepository` needs `NamesAreClaimedOnce`: of two renames to one
  name, judged before either was made, the provider refuses one, but a third
  rename in between frees the name and a registration changes hands.

Epics and missions (`Delivery.cfg`):

- `PassMembersInHead`: containment is asked about the commits of the preflight; a
  member that is verified anew while the dimensions run is counted at a commit
  nobody looked for in the head (`scripts/run-epic-verification.ts:86-88`).
- `AchievedWasJudged`: attaching a task or moving the pin of an ACHIEVED mission
  keeps the status, and a whole-row write may put ACHIEVED beside tasks another
  request attached (`packages/core/src/mission.ts:12-13`,
  `packages/superadmin/src/index.ts:760-772`).
- A new pin while a comparison of the old one runs derives "compare" again
  (`mission.ts:206-208`); work of the reference is named before a repository that
  fails (`mission.ts:197` says otherwise).
- A row of evidence is replayed by epic, dimension, commit and actor: a rerun that
  fails at the same head cannot take a PASS back, and one for a mirror writes
  nothing. Reports of operators ask nothing about containment.

Branches (`TaskBranch.cfg`, one trouble is enough):

- `VerifiedBranchCarriesCommit`: a transfer that was already integrated records a
  rebase branch that is never pushed (`run-execution-job.ts:101-103`), while
  `async-execution.ts` makes that branch the base of dependents, whose checkout
  then fails (`run-execution-job.ts:177`).
- A task merged and reverted on the base counts as already integrated
  (`rebase-transfer.ts:203-204`); after a repair, its transfer carries only the
  repair's paths, against `rebase-eligibility.ts:29-31`.
- A first job that dies between its push and its record makes the second run's
  base a commit of the task, and its transfer is refused as NOT_MERGED.
- A force push is classified as ForcePush only when the clone still has the old
  commit (`branch-continuity.ts:8-9`); a fresh clone has not, and the rewritten
  branch is adopted.
- `run-execution-job.ts:202-204` asks `rev-parse` about a 40-digit name, which git
  echoes whether or not it exists; the outcomes REVERTED and NO_COMMITS of the
  transfer's safety net are never reached. A continuity heal written to the row
  is undone by the runner's next whole-row write. `rebaseInProgress` stays true
  after any REBASE job.

HTTP verification (`HttpE2e.cfg`):

- Scenarios of the same name from two collections share a key in
  `parity.ts:140-141`; one of them is compared with the other side's namesake
  (`Cases <- MCTwinCases`: `MatchMeansSameAnswers` is violated).
- Requests outside a folder run before the folders (`collection.ts:955-961`), also
  when a folder between them extracts what they send, and no warning says so
  (`Cases <- MCGroupedCases`: `WarnedOfMissing` is violated).
- A contract of a registered resource's artifact that cannot be read, or has more
  than 2,000 operations, is left out without a gap (`collection.ts:254-258`), and
  the run may be PROVEN about the rest, although "A gap is never silent" (ADR 017:19;
  `Cases <- MCUnreadCases`: `ProvenMeansAnswered` is violated). Discovery in a
  checkout does record the gap.
- `EveryRefIsFollowed`: a path item with an operation of its own and a `$ref` that
  leads nowhere is kept as it is (`contract-discovery.ts:141`), and is a gap only
  when it has no operation of its own (`collection.ts:204`). What the `$ref` hides is
  never asked for and the run may be PROVEN, although such an item "stays a `$ref`,
  which `extractApiOperations` records as an inventory gap"
  (`contract-discovery.ts:118-119`). `ProvenMeansAnswered` is about the operations
  that a file holds, and about path items that are only a `$ref`.
- `MatchHidesNothing`: bodies are compared as the evidence has them, redacted
  (`http-runner/src/index.ts:491-498,596`, `audit/src/index.ts:3-9`). Two sides that
  differ in a field named like a secret (`tokenTtl` contains "token"), or in a
  credential within a text, are a MATCH, although "a check that was not made is not a
  match" (`parity.ts:11-13`). `MatchMeansSameAnswers` asks of such a field only that
  both sides have it.
- The file listing stops at 20,000 files and reports that it was not cut short.
- `--openapi` drops what discovery found incomplete and lists shared operations
  twice. A repository that documents nothing is COVERAGE_INCOMPLETE.
- Scenarios skipped for the budget are reported as failures of the
  implementation; so is a login answered 401 or 500, because extraction comes
  before the status check, and a container that Docker could not run. A
  POLICY_VIOLATION is looked for in the error's message, and is in its code.
- Variables a failing step extracted remain; a step without an expected status
  passes on any. A container created and not started is not removed, and failures
  of cleanup are swallowed.

## 5. Proofs

Seven `_proofs` modules hold the theorems; each EXTENDS its component and rests on the
ASSUMEs of that component, which TLC evaluates in the runs, and on nothing else but the
hypotheses named below. Every theorem is for all values of the constants: any sets of
jobs, requests, repositories, paths, tasks or cases, any interleaving, any budget of
faults. Of the properties the runs check, all are theorems but two, `ProofIsActedOn` and
`WorkIsNotParked`, which are liveness. Each inductive invariant was first checked by TLC
as an invariant of its run, with the number of states given here, and then proved: it
holds initially, every action keeps it (one lemma or step per action), it implies the
property.

Seven theorems have a hypothesis about how the system is used, because the code
promises nothing without it; section 4 has the counterexample each time.
`Iteration` stands in for induction over data: `Climb`, induction over 0..N for a
set, and `Iterates`, which says that the function a recursion over 0..N defines
exists. From these come least, greatest and first best elements (`Least`,
`Greatest`, `Foremost`) and what a selection does at each place (`PickedSteps`).

### ReadyGate

| Theorem | Property | Hypothesis |
|---|---|---|
| `TypeCorrect`, `ReadySafe`, `MergeSafe` | `TypeOK`, `ReadyCommitVerified`, `MergedCommitVerified` | none |
| `NeverAtRest` | `NeverAtRestInGate` | `NobodyLeavesItThere`: no runner is killed, nobody moves the task to TESTING or REVIEWING by hand |
| `ReadyIsLatest` | `ReadyIsForLatestCommit` | `OneAfterTheOther`: requests one at a time, lists in order, no job taken from its runner, no cancellation; and, in the statement, `[]Undisturbed`: no request is about to add a run while a recorder goes by runs it has read |

`ReadyCommitVerified` is not inductive: it says nothing of a process that has
already passed the gate and will write its manifest some awaits later. `GateInv`
adds what such a process carries. A CI report is only of a commit that passed its
own tests; a process at a marked step (`testsPassed`, `reportCi`, `manifest`,
`promote`, `merge`) holds in `seen` a commit with the evidence that step needs;
and no request is about to write READY itself. The argument is that evidence is
never taken away (`EvidenceGrows`), so `Verified(c)` is stable
(`VerifiedIsStable`) and what a process saw of a commit is still true when it
writes, however old its read. `SoundStep` says what a step must do for that, and
`SoundStepKeepsGate` that it is enough; most actions are a `QuietStep` (no
evidence taken, no marked step entered), and the few that enter a marked step
are proved one by one. Neither StoreOrdered nor the number of concurrent
requests is used: safety of READY rests on exact-commit evidence alone.

`NeverAtRest`: a task in the gate has a runner at a label from which it, or its
catch block, still takes the task out (`Attended`, 842,305 states). Only that
runner leaves those labels, and it writes the task when it does (`AttendedStep`).

`ReadyIsLatest` (`LatestInv`; 11,943 states of its run and 925,223 of a wider
instance; with recorders and an HTTP proof required, its main parts on 25,833):
a job in flight works on the newest run, whose commit is none until its
runner records it, and its own from then on; so a commit read from the newest run
stays the newest until it is written into a manifest. `OrderlyStep` is what one
step of one process may do to that. Repairs, reviews, crashes, failing steps and
manual transitions may all come in between, and so may recorders: one that opens,
proves, looks at the task and completes it takes the newest run like any review.
What may not is a second writer that started earlier: cancelling is excluded (the
runner goes on), and so is the one disturbance a recorder can meet. Between its
read of the runs (`completeRuns`) and its promotion no request may stand before
`save`; that is `Undisturbed`, a condition on the behaviour, not on the constants.
Without it TLC finds the older commit promoted; with it a task with two runs
still becomes READY by an HTTP proof, so the theorem is not about nothing.

### ExecutionJobs

| Theorem | Property | Hypothesis |
|---|---|---|
| `TypeCorrect` | `TypeOK` | none |
| `ReplaysStartNothing` | `ReplayIsStatusOnly` | `Singly`: one request at a time |
| `OneJobAtATime`, `CallbackStays` | `OneJobInFlight`, `CallbackIsFinal` | `Serially`: one request or pass at a time, no cancellation, no live job overdue, no late answer |

`Sound` holds without a hypothesis: whoever is past its first step knows its job,
its row exists unless the process is the one to create it, and a runner that is
alive has its row. `ReplayInv` adds that a job as it was requested is dispatched
only by the request that created it (`RequestedOnce`) and a pass dispatches resumed
attempts only, so a replay finds a row and writes nothing. `SerialInv` ties the
status of a row to the process that works on it (`RequestOwnsJob`,
`PassKnowsJob`, `JobInOrder`): the job in flight is the newest attempt, and there is
no other. The hypotheses are needed because nothing compares before it writes:
each race excluded by `Serially` is a counterexample in section 4.

### StallRecovery

`TypeCorrect`, `DueAttemptsStart` (`DueAttemptStartsSoon`), `StallsAreNoticed`
(`StallNoticedSoon`), `DelaysDouble` (`BackoffDoubles`) and `CeilingLeavesExecutions`
(`CeilingSparesExecutions`) hold for every step length and every gap between passes that
satisfies `PassesAreFrequent` (15 minutes of grace, one gap and the 60 minutes of an
execution run fit in 90; with the code's 15-minute cron they fit exactly). The last says
nothing of `HTTP_E2E` jobs, of which it is false (section 4); the others are about both
kinds, each with its own lease. `AgeInv` bounds the age of a job by where it is: a job
nobody picked up is at most one grace period and one gap old (else a pass would have
ended it, which is where `sincePass` comes in), and from the claim on the age is ahead
of the run by at most that much. `WatchInv` (3,399,739 states with `AgeInv`) says how
quiet a job is that nobody works on: as quiet as the time since the last pass plus what
that pass found within its grace (`NotAlone`); an attempt that waits is not due at a
pass and left (`DueSoon`); the row's delay is the one its repetitions call for
(`BackoffOK`). That 2^n doubles is proved by counting subsets, since the exponent of the
arithmetic modules has no rule of its own. Two assumptions serve these theorems:
`ConclusionsEndRuns`, no conclusion of a run is called WAIT or NONE, and
`MaxSameReachesCeiling`, repetitions are counted until the delay is six hours.

### CanonicalRepository

`TypeCorrect`, `OneLine` (`OneLineOfBindings`), `DoneIsThere` (`DoneIsDurable`),
`PinnedOnly` (`MovesWhatWasPinned`), `ImplementsRegister` (`RegisterSpec`, the
refinement of BindingRegister) and `RegistrationsLead`
(`RegistrationKeepsRepository`), with requests that die anywhere.

None of these is inductive. `OneLineOfBindings` says nothing of the row a request
read before others wrote; `DoneIsDurable` nothing of a request that is about to
save. `Inv` adds `Carries(q, req[q])`: the row a request read is still a row, its
names still lead to a repository, a promotion past its judgement read what it
pinned, a request past its confirmation has its row, and past its report that
too. It is kept because rows, reports and redirects are only ever added (`Grows`):
`CarriedOn` says that what a request carries outlasts every growth, so each action
is looked at for its own request alone (`SoundStep`, `ReadingStep`, `EndedStep`).
The compare-and-set then sees the row it read as the last of the line
(`ActiveIsLast`), and `AppendsKeepLine` extends the line by one. Only `Swap`
changes rows (`OnlySwapWrites`), and a successful one is one `Move` of the
register; every other step leaves the register where it is.

`KeepInv` (1,300,264 states) says of each name on its way into a registration that
it leads to the repository it is for, or is still free. It is kept under
`NamesAreClaimedOnce`, the antecedent of the property itself: no new name is wanted
for two repositories.

### TaskBranch

`TypeCorrect`, `CommitsWerePublished` (`CommitWasPublished`), `DivergedMeansRewritten`
(`DivergedOnlyWhenRewritten`), `TransfersKeepBothSides` (`TransferKeepsBothSides`) and
`NothingIsClobbered` (`RewritesOnlyWhatWasSeen`), without hypotheses, for any paths,
payloads, number of jobs and trouble. `Inv` (947,858 states) has five parts:
`Graph`, commits grow in number along their ancestry and any two have one merge
base; `Published`, what origin had on a branch fits that branch, and the head of
the task branch is behind nothing it ever had; `Typed`; `Rows`, what a row, a run
and a runner hold of branches and commits at each step; `Secrets`, a commit that
was made and not pushed is in no other hands. The merge base is what makes
`TransfersKeepBothSides` true: base and task are compared to the one commit both
descend from.

### Delivery

`TypeCorrect`, `PassesWereRunAtHead` (`PassWasRunAtHead`), `ComparisonsWaitForTasks`
(`ComparisonWaitsForTask`), `SupersededHaveStandIns` (`SupersededHasStandIn`),
`CheckedMembersAreInHead` (`CheckedMembersInHead`) and `AchievedIsAsJudged`
(`AchievedAsJudged`), without hypotheses, for any tasks, graph of SUPERSEDES
relationships, runs and requests. `Inv` (218,833 states): `Repository`, tasks
are verified at commits that exist; `EpicSound`, a run knows an answer for each
commit it asked about and evidence in CI's name has its suite; `MissionSound`, what
a request read and judged is still what it will write, and the comparison it found
is still there. `SupersededHaveStandIns` follows the walk along relationships step
by step with `Climb`: it ends, and where it ends on a READY task every task passed
on the way has that one as its stand-in.

### HttpE2e

| Theorem | Property | Hypothesis |
|---|---|---|
| `TypeCorrect`, `EachSideAnswersForItself`, `NothingIsGuessed` | `TypeOK`, `AnswersAreItsOwn`, `NothingBuiltOnAGuess` | none |
| `MatchesAreSame` | `MatchMeansSameAnswers` (redacted values only as being there) | `NamesDiffer`: scenarios of a case have names of their own |
| `ProvenIsAnswered` | `ProvenMeansAnswered` | `RegisteredContractsRead`: what a registered resource's artifact holds can be read |

`RunInv` (33,260 states with `MatchInv` and `AnswerInv`) follows the phases: on the way
to an answer the only application that runs is the side's own, so one port is enough for
two implementations; a plan that is executed is executable; a side's evidence is PROVEN
exactly when it has no failure. `MatchInv` follows what was answered: each result that
passed has its exchange on the wire, a collection without failure passed every step of
every scenario, so sides that are PROVEN and whose executions do not differ stored the
same normalized evidence (`NormalizedEvidence`), and what has the same evidence has the
same status and fields and, but for what `redact` removed, the same normalized values
(`SameEvidence`). `NamesDiffer` is needed because `parity.ts` pairs scenarios by name
(section 4, `MCTwinCases`); MCHttpE2e's ASSUME `ScenarioNamesDiffer` has TLC evaluate it
for the cases of the run, and `RegisteredAreRead` the other hypothesis (section 4,
`MCUnreadCases`).

`ProvenIsAnswered` has two halves. One is about data: what is between a repository's
files and the verdict, for every list of documents. The candidates are the files that
may hold a contract, whatever their depth (`InDepthOrder`, `Candidates`); a contract
without a gap has all its operations extracted (`ExtractedWhole`), several are merged
without losing one (`FirstsDocument`, `Together`), and resolving a path item keeps its
own operations and adds those its file holds (`MergedItem`, `ResolvedItem`,
`ResolvedDocument`), while one that is only a `$ref` and leads nowhere is a gap; so an
inventory without a gap has every operation of every contract held in the repository,
and no document named like one went unread (`FoundWhole`). An operation is covered only
by a request that passed, of its method, whose path fits its template, also when it fits
several and the most specific one counts (`MatchFits`), and such a request is on the
wire (`CoveredIsAsked`). The other half is `AnswerInv`: the verdict is about the
outcomes of one side (`VerdictAnswers`), and what was asked for stays asked for, through
the cleanup, the other side's run, the comparison and the record; most steps are
`Quiet`.

`CasesAssumption`, `DocumentsAssumption` and `HandedAssumption` say that what a case
starts from, its files, documents and the scenarios handed in, has the shape of
lists and records the code gives it, and that a document has each path once, its
paths being the keys of an object. What is computed from that is proved to be
lists too: a collection's groups and their parts (`ImportedLists`), the saved
scenarios put back in the order of their import (`OrderedList`, `SavedInOrder`),
and so whatever a case sends (`ScenariosOfCase`).

### Only model-checked

- `ProofIsActedOn` and `WorkIsNotParked`: liveness under fairness is out of the
  prover's reach, and so is ENABLED.
- That the models are the code: the mapping in `PROJECT.json`, and the mutants.

## 6. Not modelled, and what comes next

Not modelled inside modelled components: the dependency base of a task's first
run, publication of a transfer's pull request, the Gradle wrapper commit, and two
hunks of one path that only conflict together (TaskBranch); roles of archived
repositories, the product link of a mission, check plans of other stacks
(Delivery); drafts of contracts, assertion operators other than those on status
and body, redaction of requests, headers and addresses (HttpE2e);
cancelling and resuming an HTTP_E2E job; dependencies between tasks, the repair
budget and planning content (ReadyGate).

Coarser or smaller than the code, where no property depends on it:

- Several reads in one step: the task and its jobs in flight when work is enqueued
  (`async-execution.ts:58`, `:65`; ReadyGate, ExecutionJobs, TaskBranch), the
  registration and what a rename plan reads (`service.ts:268`, `:344`), and what the
  provider says of a repository (`service.ts:548-550`). Two requests that overlap
  there are in section 4 (`OneJobInFlight`).
- Writes left out: the whole task row before its move after failed tests
  (`application.ts:600-601`), and the refused dispatch of an HTTP_E2E job
  (`http-e2e-job.ts:183-186`).
- `execution_jobs.run_id` refers to `runs(id)` (`0002_remote_runtime.sql:6`), so a
  retry of a request that died between the two writes fails in the database;
  ExecutionJobs lets it create the job and so has more behaviours.
- A task that is BLOCKED or FAILED is BLOCKED in MissionProgress, which treats both
  alike.
- HttpCollection has neither `maxRefFiles` (`contract-discovery.ts:190`) nor
  `maxRequests` (`collection.ts:656`), and a `$ref` within a document is one to a file
  of its own. `SecretNames` is a set of names that `secretPattern` finds.
- A `docker inspect` that fails counts as an exit (`executor.ts:316`), which HttpE2e
  has only as an exit; the manifest's own install, build and prepare commands
  (`plan.ts:608-610`) are commands like the planned ones.

Not modelled as components: the operator console (projections of stored rows),
schemas and policies (validation of shapes and texts), configuration reports,
prompt context and audit records. None has state another part depends on.

Next, in this order:

1. `AdminOperations`: creating projects, tasks, resources and secrets inside
   `mutate`, against the abstract promise that an operationId acts once.
2. `TaskLifecycle`: dependencies between tasks and their bases, refined by
   ReadyGate's task writes.
3. `ArtifactStore`: write-then-index and routing between two storages; repair
   progress as a pure function.
4. Proofs: `OneJobInFlight` with more than one pass.
