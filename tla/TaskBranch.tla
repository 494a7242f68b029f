----------------------------- MODULE TaskBranch -----------------------------
(***************************************************************************)
(* The branches of one task on origin: jobs that add commits to the task   *)
(* branch, transfers of the verified work onto a newer base, published on  *)
(* a branch of their own, the runners that do both, and what else happens  *)
(* to the repository meanwhile.                                            *)
(*                                                                         *)
(* <<>> names the task branch, Append(b, base) the branch a transfer of    *)
(* branch b onto base is published on.  Job i, its run and its runner      *)
(* share their index.  A runner holds a copy of its job row and writes     *)
(* whole rows from it.  The gate (tests, review, HTTP E2E) is its outcome; *)
(* module ReadyGate has its steps, ExecutionJobs those of the dispatch.    *)
(***************************************************************************)
EXTENDS RebaseTransfer, FiniteSets

CONSTANTS Paths,
          Payloads,     \* sets of paths a change set or a set of resolutions covers
          Canonical,    \* the repository is the project's ACTIVE canonical one
          MaxJobs,      \* bound: jobs of the task
          MaxTrouble    \* bound: what others do to the repository, failing
                        \* steps, dying runners and cancelled jobs together

ASSUME TaskBranchAssumption ==
    /\ Paths # {} /\ IsFiniteSet(Paths) /\ Payloads \subseteq (SUBSET Paths) \ {{}}
    /\ Canonical \in BOOLEAN
    /\ MaxJobs \in Nat /\ MaxTrouble \in Nat

VARIABLES commits,   \* every commit made so far
          main,      \* head of the default branch
          origin,    \* head of each task branch origin has
          carried,   \* <<branch, commit>> pairs origin has had
          task, manifest,  \* the task's state; the commit its manifest verified
          jobs, runs, runners,
          outside, faults  \* how much of the bound is used up

vars == <<commits, main, origin, carried, task, manifest, jobs, runs, runners, outside, faults>>
others == <<outside, faults>>

Contents == {"original", "upstream", "task", "operator", "resolved"}
TaskBranchName == <<>>
Ids == DOMAIN commits
InFlight == {"QUEUED", "RUNNING"}

\* pinned: the base of an ACTIVE canonical repository, or 0.
Job(kind, branch, commit, source, original, wanted, pinned) ==
    [kind |-> kind, status |-> "QUEUED", branch |-> branch, prefix |-> branch, commit |-> commit,
     source |-> source, original |-> original, wanted |-> wanted, pinned |-> pinned,
     error |-> "none"]
Run(base) == [status |-> "RUNNING", base |-> base, branch |-> TaskBranchName, commit |-> 0]
Runner(step) ==
    [step |-> step, branch |-> TaskBranchName, commit |-> 0, at |-> 0, known |-> {},
     clones |-> 0, base |-> 0, made |-> 0, on |-> TaskBranchName, seen |-> 0, way |-> "PUSH"]

TypeOK ==
    /\ \A c \in Ids : /\ commits[c].past \subseteq 1..c /\ c \in commits[c].past
                      /\ commits[c].parent \in 0..(c - 1)
                      /\ commits[c].tree \in [Paths -> Contents]
    /\ main \in Ids
    /\ \A b \in DOMAIN origin : origin[b] \in Ids /\ <<b, origin[b]>> \in carried
    /\ task \in {"PLANNED", "IMPLEMENTING", "READY", "BLOCKED"}
    /\ manifest \in Ids \cup {0}
    /\ DOMAIN runs = DOMAIN jobs /\ DOMAIN runners = DOMAIN jobs
    /\ \A j \in DOMAIN jobs :
          /\ jobs[j].status \in InFlight \cup {"SUCCEEDED", "FAILED", "BLOCKED", "CANCELLED"}
          /\ jobs[j].commit \in Ids \cup {0}
          /\ runs[j].status \in {"RUNNING", "SUCCEEDED", "FAILED", "BLOCKED"}
          /\ runs[j].base \in Ids \cup {0} /\ runs[j].commit \in Ids \cup {0}
          /\ runners[j].known \subseteq Ids

Init ==
    /\ commits = <<[parent |-> 0, past |-> {1}, tree |-> [p \in Paths |-> "original"]]>>
    /\ main = 1
    /\ origin = <<>> /\ carried = {}
    /\ task = "PLANNED" /\ manifest = 0
    /\ jobs = <<>> /\ runs = <<>> /\ runners = <<>>
    /\ outside = 0 /\ faults = 0

-----------------------------------------------------------------------------
\* Git.
NextId == Len(commits) + 1
Commit(parent, merged, tree) ==
    [parent |-> parent, tree |-> tree,
     past |-> (UNION {commits[c].past : c \in {parent} \cup merged}) \cup {NextId}]
Heads == {main} \cup {origin[b] : b \in DOMAIN origin}
Objects == UNION {commits[c].past : c \in Heads}
On(b) == IF b \in DOMAIN origin THEN origin[b] ELSE 0
Point(b, c) == /\ origin' = [x \in DOMAIN origin \cup {b} |-> IF x = b THEN c ELSE origin[x]]
               /\ carried' = carried \cup {<<b, c>>}
repository == <<commits, main, origin, carried>>
records == <<task, manifest, jobs, runs>>
MayFail == outside + faults < MaxTrouble

-----------------------------------------------------------------------------
\* Requests.
NoJobInFlight == \A j \in DOMAIN jobs : jobs[j].status \notin InFlight
Add(job, run) == /\ jobs' = Append(jobs, job)
                 /\ runs' = Append(runs, run)
                 /\ runners' = Append(runners, Runner("checkout"))

\* Mutant: the last job with any commit, whatever its branch.
InheritedFromAnyBranch ==
    LET Has(job) == job.commit # 0
        last == SelectLastInSeq(jobs, Has)
    IN  IF last = 0 THEN 0 ELSE jobs[last].commit

\* Branch continuity: the commit last published on the branch this job checks out.
Inherited ==
    LET Published(job) == job.commit # 0 /\ job.branch = TaskBranchName
        last == SelectLastInSeq(jobs, Published)
    IN  IF last = 0 THEN 0 ELSE jobs[last].commit

EnqueueImplementation(paths) ==
    /\ Len(jobs) < MaxJobs
    /\ task \in {"PLANNED", "IMPLEMENTING"} /\ NoJobInFlight
    /\ Add(Job("IMPLEMENTATION", TaskBranchName, Inherited, 0, 0, paths,
               IF Canonical THEN main ELSE 0), Run(0))
    /\ task' = "IMPLEMENTING"
    /\ UNCHANGED <<repository, manifest, others>>

EnqueueRebase(resolutions) ==
    LET underWay == \E j \in DOMAIN jobs : jobs[j].kind = "REBASE"
        branch == runs[VerifiedRun(runs, manifest)].branch
        original == OriginalBase(runs)
    IN  /\ Len(jobs) < MaxJobs
        /\ Eligible(task, underWay, runs, manifest) /\ NoJobInFlight
        /\ Add(Job("REBASE", branch, manifest, manifest, original, resolutions, 0), Run(original))
        /\ task' = "IMPLEMENTING"
        /\ UNCHANGED <<repository, manifest, others>>

\* superadmin_job_cancel, or the reconciler ending a job it takes for stalled.
\* Its runner, if one is under way, goes on.
Cancel(j) ==
    /\ jobs[j].status \in InFlight /\ MayFail
    /\ jobs' = [jobs EXCEPT ![j].status = "CANCELLED"]
    /\ runs' = [runs EXCEPT ![j].status = "FAILED"]
    /\ runners' = IF jobs[j].status = "QUEUED"
                  THEN [runners EXCEPT ![j] = Runner("exited")] ELSE runners
    /\ faults' = faults + 1
    /\ UNCHANGED <<repository, task, manifest, outside>>

-----------------------------------------------------------------------------
\* The runner of job j.
At(j, step) == runners[j].step = step

\* A whole-row write of the runner's copy.
WriteJob(j, status, branch, commit, error) ==
    jobs' = [jobs EXCEPT ![j].status = status, ![j].branch = branch,
                         ![j].commit = commit, ![j].error = error]

\* Mutant: the job ends in its task's state.
JobEndsAsTask(state) == state

JobEndsAs(state) == IF state = "BLOCKED" THEN "BLOCKED" ELSE "FAILED"

\* The catch block: the runner's copy goes back with its inherited commit, and
\* a run that is still RUNNING ends.
Abort(j, held, error, state) ==
    LET status == JobEndsAs(state)
    IN  /\ WriteJob(j, status, held.branch, held.commit, error)
        /\ runs' = IF runs[j].status = "RUNNING"
                   THEN [runs EXCEPT ![j].status = status, ![j].branch = held.branch,
                            ![j].commit = IF held.commit # 0 THEN held.commit ELSE @]
                   ELSE runs
        /\ runners' = [runners EXCEPT ![j] = Runner("exited")]
        /\ task' = state
        /\ UNCHANGED manifest

\* Claims the job on its first checkout: the copy is read once.
Held(j) == IF runners[j].clones > 0 THEN runners[j]
           ELSE [runners[j] EXCEPT !.branch = jobs[j].branch, !.commit = jobs[j].commit]

\* ensureDisposableCleanWorkspace: one quarantine, then one fresh checkout.
maxAttempts == 2
GivesUp(held, clean) == ~clean /\ held.clones + 1 = maxAttempts

\* prepareWorkspace and, with an unclean tree, the quarantine of the checkout:
\* one fresh clone, then the job fails.  A continuity heal is written to the
\* row, not to the copy the runner goes on with.
Checkout(j, clean) ==
    LET held == Held(j)
        head == IF On(held.branch) # 0 THEN On(held.branch) ELSE main
        continuity == IF On(held.branch) # 0
                      THEN Continuity(commits, held.commit, head, Objects) ELSE "MATCH"
        baseMoved == On(held.branch) = 0 /\ jobs[j].pinned \notin {0, main}
    IN  /\ At(j, "checkout")
        /\ jobs[j].status = "QUEUED" \/ held.clones > 0
        /\ clean \/ MayFail
        /\ IF continuity = "DIVERGED" THEN Abort(j, held, "DIVERGED", task)
           ELSE IF baseMoved THEN Abort(j, held, "BASE_MOVED", task)
           ELSE IF GivesUp(held, clean) THEN Abort(j, held, "UNCLEAN", task)
           ELSE /\ WriteJob(j, "RUNNING", held.branch,
                            IF continuity = "MATCH" THEN held.commit ELSE head, "none")
                /\ runners' = [runners EXCEPT ![j] =
                      [held EXCEPT !.step = IF clean THEN "work" ELSE "checkout",
                                   !.clones = @ + 1, !.at = head, !.known = Objects]]
                /\ UNCHANGED <<task, manifest, runs>>
        /\ faults' = IF clean THEN faults ELSE faults + 1
        /\ UNCHANGED <<repository, outside>>

\* ExecutionEngine.execute: the change set, committed on what was checked out.
Implement(j) ==
    LET runner == runners[j]
        tree == [p \in Paths |-> IF p \in jobs[j].wanted THEN "task"
                                 ELSE commits[runner.at].tree[p]]
    IN  /\ At(j, "work") /\ jobs[j].kind = "IMPLEMENTATION"
        /\ IF tree = commits[runner.at].tree
           THEN Abort(j, runners[j], "NO_DIFF", task) /\ UNCHANGED repository
           ELSE /\ commits' = Append(commits, Commit(runner.at, {}, tree))
                /\ runners' = [runners EXCEPT ![j].step = "record", ![j].made = NextId,
                                              ![j].base = runner.at, ![j].on = TaskBranchName]
                /\ UNCHANGED <<main, origin, carried, records>>
        /\ UNCHANGED others

\* Why performRebase stops, "none" when it does not.
TransferError(job, known) ==
    LET conflicts == Conflicts(commits, main, job.source)
        tree == Transferred(commits, main, job.source, "resolved")
    IN  IF ~IsAncestor(commits, job.original, main) THEN "NOT_MERGED"
        ELSE IF job.source \notin known THEN "UNREACHABLE"
        ELSE IF IsAncestor(commits, job.source, job.original) THEN "NO_COMMITS"
        ELSE IF conflicts = {} THEN "none"
        ELSE IF job.wanted = {} THEN "CONFLICTS"
        ELSE IF job.wanted # conflicts THEN "RESOLUTIONS"
        ELSE IF Reverted(commits, job.original, main, job.source, tree) # {} THEN "REVERTED"
        ELSE "none"

\* performRebase, against the default branch as it is now and what origin holds
\* for the transfer's branch.
Transfer(j) ==
    LET runner == runners[j]
        job == jobs[j]
        branch == RebaseBranch(job.prefix, main)
        seen == On(branch)
        error == TransferError(job, runner.known \cup commits[main].past)
        tree == Transferred(commits, main, job.source, "resolved")
        local == [parent |-> main, tree |-> tree]
        Go(made, way) ==
            /\ runners' = [runners EXCEPT ![j].step = "record", ![j].made = made, ![j].way = way,
                              ![j].base = main, ![j].on = branch, ![j].seen = seen]
            /\ UNCHANGED records
    IN  /\ At(j, "work") /\ job.kind = "REBASE"
        /\ IF error # "none"
           THEN /\ Abort(j, runners[j], error, IF error = "CONFLICTS" THEN "BLOCKED" ELSE task)
                /\ UNCHANGED commits
           ELSE IF tree = commits[main].tree
           THEN Go(main, "INTEGRATED") /\ UNCHANGED commits
           ELSE IF Publication(commits, seen, local) = "ADOPT"
           THEN Go(seen, "PUSH") /\ UNCHANGED commits
           ELSE /\ Go(NextId, IF Publication(commits, seen, local) = "REPLACE" THEN "LEASE" ELSE "PUSH")
                /\ commits' = Append(commits, Commit(main, {}, tree))
        /\ UNCHANGED <<main, origin, carried, others>>

\* Mutant: the commit is written as published before it is pushed.
RecordAsPublished(j) ==
    LET runner == runners[j]
    IN  /\ At(j, "record")
        /\ WriteJob(j, "RUNNING", runner.on, runner.made, "none")
        /\ runners' = [runners EXCEPT ![j].step = "push", ![j].branch = runner.on,
                                      ![j].commit = runner.made]
        /\ UNCHANGED <<repository, task, manifest, runs, others>>

\* The commit is recorded as attempted; one published on another branch is
\* dropped from the row.
Record(j) ==
    LET runner == runners[j]
        stillPublished == IF runner.branch = runner.on THEN runner.commit ELSE 0
    IN  /\ At(j, "record")
        /\ WriteJob(j, "RUNNING", runner.on, stillPublished, "none")
        /\ runners' = [runners EXCEPT ![j].step = "push", ![j].branch = runner.on,
                                      ![j].commit = stillPublished]
        /\ UNCHANGED <<repository, task, manifest, runs, others>>

\* Mutant: --force instead of --force-with-lease.
AcceptedByForce(runner) ==
    \/ runner.way = "LEASE"
    \/ On(runner.on) = 0 \/ IsAncestor(commits, On(runner.on), runner.made)

\* What origin accepts: a fast-forward, or the replacement of the leased head.
Accepted(runner) ==
    IF runner.way = "LEASE" THEN On(runner.on) = runner.seen
    ELSE On(runner.on) = 0 \/ IsAncestor(commits, On(runner.on), runner.made)

Push(j) ==
    LET runner == runners[j]
    IN  /\ At(j, "push")
        /\ IF runner.way # "INTEGRATED" /\ ~Accepted(runner)
           THEN Abort(j, runners[j], "PUSH_FAILED", task) /\ UNCHANGED <<origin, carried>>
           ELSE /\ IF runner.way = "INTEGRATED" THEN UNCHANGED <<origin, carried>>
                   ELSE Point(runner.on, runner.made)
                /\ runners' = [runners EXCEPT ![j].step = "publish"]
                /\ UNCHANGED records
        /\ UNCHANGED <<commits, main, others>>

RecordPublished(j) ==
    /\ At(j, "publish")
    /\ WriteJob(j, "RUNNING", runners[j].on, runners[j].made, "none")
    /\ runners' = [runners EXCEPT ![j].step = "run", ![j].commit = runners[j].made]
    /\ UNCHANGED <<repository, task, manifest, runs, others>>

RecordRun(j) ==
    /\ At(j, "run")
    /\ runs' = [runs EXCEPT ![j].base = runners[j].base, ![j].branch = runners[j].on,
                            ![j].commit = runners[j].made]
    /\ runners' = [runners EXCEPT ![j].step = "gate"]
    /\ UNCHANGED <<repository, task, manifest, jobs, others>>

GatePasses(j) ==
    /\ At(j, "gate") /\ task = "IMPLEMENTING"
    /\ task' = "READY" /\ manifest' = runners[j].made
    /\ runners' = [runners EXCEPT ![j].step = "finish"]
    /\ UNCHANGED <<repository, jobs, runs, others>>

GateFails(j) ==
    /\ At(j, "gate")
    /\ Abort(j, runners[j], "GATE", task)
    /\ UNCHANGED <<repository, others>>

Finish(j) ==
    /\ At(j, "finish")
    /\ runs' = [runs EXCEPT ![j] = [status |-> "SUCCEEDED", base |-> runners[j].base,
                                    branch |-> runners[j].on, commit |-> runners[j].made]]
    /\ WriteJob(j, "SUCCEEDED", runners[j].on, runners[j].made, "none")
    /\ runners' = [runners EXCEPT ![j] = Runner("exited")]
    /\ UNCHANGED <<repository, task, manifest, others>>

UnderWay(j) == runners[j].step \notin {"exited", "checkout"}

\* A step between the others throws; the runner dies.
StepFails(j) ==
    /\ UnderWay(j) /\ MayFail
    /\ Abort(j, runners[j], "STEP", task)
    /\ faults' = faults + 1
    /\ UNCHANGED <<repository, outside>>

RunnerDies(j) ==
    /\ UnderWay(j) /\ MayFail
    /\ runners' = [runners EXCEPT ![j] = Runner("exited")]
    /\ faults' = faults + 1
    /\ UNCHANGED <<repository, records, outside>>

-----------------------------------------------------------------------------
\* The repository moves under the program.
Outside ==
    /\ outside + faults < MaxTrouble /\ outside' = outside + 1
    /\ UNCHANGED <<records, runners, faults>>

AdvanceBase(p, content) ==
    /\ Outside /\ commits[main].tree[p] # content
    /\ commits' = Append(commits, Commit(main, {}, [commits[main].tree EXCEPT ![p] = content]))
    /\ main' = NextId
    /\ UNCHANGED <<origin, carried>>

\* A pull request of branch b is merged with a merge commit.
MergeIntoBase(b) ==
    /\ Outside /\ ~IsAncestor(commits, origin[b], main)
    /\ Conflicts(commits, main, origin[b]) = {}
    /\ commits' = Append(commits, Commit(main, {origin[b]}, Merged(commits, main, origin[b])))
    /\ main' = NextId
    /\ UNCHANGED <<origin, carried>>

OperatorPushes(b, p) ==
    /\ Outside /\ commits[origin[b]].tree[p] # "operator"
    /\ commits' = Append(commits,
                    Commit(origin[b], {}, [commits[origin[b]].tree EXCEPT ![p] = "operator"]))
    /\ Point(b, NextId)
    /\ UNCHANGED main

\* The branch is force-pushed: its head rebased onto the current base, or amended.
OperatorRewrites(b, parent) ==
    /\ Outside
    /\ commits' = Append(commits, Commit(parent, {}, commits[origin[b]].tree))
    /\ Point(b, NextId)
    /\ UNCHANGED main

BranchDeleted(b) ==
    /\ Outside
    /\ origin' = [x \in DOMAIN origin \ {b} |-> origin[x]]
    /\ UNCHANGED <<commits, main, carried>>

RunnerStep(j) ==
    \/ \E clean \in BOOLEAN : Checkout(j, clean)
    \/ Implement(j) \/ Transfer(j) \/ Record(j) \/ Push(j) \/ RecordPublished(j)
    \/ RecordRun(j) \/ GatePasses(j) \/ GateFails(j) \/ Finish(j)
    \/ StepFails(j) \/ RunnerDies(j)
OutsideStep ==
    \/ \E p \in Paths, content \in {"original", "upstream"} : AdvanceBase(p, content)
    \/ \E b \in DOMAIN origin : \/ MergeIntoBase(b) \/ BranchDeleted(b)
                                \/ \E p \in Paths : OperatorPushes(b, p)
                                \/ \E parent \in {main, commits[origin[b]].parent} :
                                      OperatorRewrites(b, parent)
Request ==
    \/ \E paths \in Payloads : EnqueueImplementation(paths)
    \/ \E resolutions \in Payloads \cup {{}} : EnqueueRebase(resolutions)
    \/ \E j \in DOMAIN jobs : Cancel(j)

Next == Request \/ OutsideStep \/ \E j \in DOMAIN jobs : RunnerStep(j)
Spec == Init /\ [][Next]_vars

-----------------------------------------------------------------------------
\* A runner's push replaces only a head its commit descends from, or, on the
\* branch of a transfer, the very head it observed, and never by the same
\* transfer again: nobody's push is clobbered and no open pull request is
\* rewritten for nothing (rebase-publication.ts, push).
RewritesOnlyWhatWasSeen ==
    [][\A b \in DOMAIN origin \cap DOMAIN origin' :
          LET old == origin[b]  new == origin'[b]
          IN  (old # new /\ outside' = outside) =>
                 \/ IsAncestor(commits, old, new)
                 \/ /\ b # TaskBranchName
                    /\ ~SameTransfer(commits[old], commits[new])
                    /\ \E j \in DOMAIN jobs : runners[j].on = b /\ runners[j].seen = old]_vars

\* A commit recorded as a job's is one origin has had on the job's branch, or
\* the base an already integrated transfer was made onto: a job that dies
\* before its push leaves no commit behind that later jobs would be held to.
CommitWasPublished ==
    \A j \in DOMAIN jobs : jobs[j].commit # 0 =>
        \/ <<jobs[j].branch, jobs[j].commit>> \in carried
        \/ jobs[j].branch # TaskBranchName /\ jobs[j].commit = Last(jobs[j].branch)

\* A job is refused as diverged only when its branch really was rewritten: two
\* heads origin has had there, neither a descendant of the other.
DivergedOnlyWhenRewritten ==
    \A j \in DOMAIN jobs : jobs[j].error = "DIVERGED" =>
        \E c, d \in Ids : /\ <<jobs[j].branch, c>> \in carried /\ <<jobs[j].branch, d>> \in carried
                          /\ ~IsAncestor(commits, c, d) /\ ~IsAncestor(commits, d, c)

\* What a transfer published holds, path by path: the base's content where the
\* task changed nothing, the task's where the base changed nothing since they
\* parted, and at a conflict the resolution handed in with this very job,
\* whether its commit was created, adopted or put in another one's place.
TransferKeepsBothSides ==
    \A j \in DOMAIN jobs :
        (jobs[j].branch # jobs[j].prefix /\ jobs[j].commit # 0) =>
            LET base == Last(jobs[j].branch)
                fork == MergeBase(commits, base, jobs[j].source)
                Tree(c) == commits[c].tree
            IN  \A p \in Paths :
                   /\ Tree(jobs[j].source)[p] = Tree(fork)[p] => Tree(jobs[j].commit)[p] = Tree(base)[p]
                   /\ Tree(base)[p] = Tree(fork)[p] => Tree(jobs[j].commit)[p] = Tree(jobs[j].source)[p]
                   /\ Tree(jobs[j].commit)[p] \notin {Tree(base)[p], Tree(jobs[j].source)[p]}
                        => Tree(jobs[j].commit)[p] = "resolved" /\ p \in jobs[j].wanted

\* The branch of the run a READY task rests on carries the verified commit on
\* origin, unless somebody moved or deleted it.
VerifiedBranchCarriesCommit ==
    (task = "READY" /\ VerifiedRun(runs, manifest) # 0) =>
        <<runs[VerifiedRun(runs, manifest)].branch, manifest>> \in carried
=============================================================================
