----------------------------- MODULE Delivery -----------------------------
(***************************************************************************)
(* What is claimed about finished tasks: that a set of them composes into  *)
(* a verified system at one commit (an epic, judged by the operators of    *)
(* EpicVerification), and that a mission's goal is reached (judged by      *)
(* those of MissionProgress).  The epic runner (scripts/run-epic-          *)
(* verification.ts) and a mission update (superadmin/index.ts) both read   *)
(* the tasks, the history and the recorded runs in several awaits while    *)
(* tasks are re-verified, commits land and comparisons finish; steps here  *)
(* are those awaits.                                                       *)
(***************************************************************************)
EXTENDS EpicVerification, MissionProgress, Selection

CONSTANTS
    Tasks,         \* the tasks of the project
    Dimensions,    \* the epic dimensions evidence is recorded for
    Repositories,  \* repositories that hold the epic's commits: one and its mirrors
    Runs,          \* executions of the epic workflow, each an actor of its own
    Updates,       \* requests on the mission
    Scenarios,     \* what happens: [tasks, mission, moves, operator, runs, asks]
    Pins,          \* values of a mission's referenceRef; "none" is no pin
    MaxComparisons \* bound: comparisons of target and reference

\* The rows a scenario starts from; what an attached task or a request names exists.
TaskStates == {"READY", "PLANNED", "BLOCKED"}
Statuses == {"ACTIVE", "ACHIEVED", "CANCELLED"}
TaskRow == [state: TaskStates, busy: BOOLEAN, plan: Plans \cup {NoPlan}, verified: Nat,
            supersedes: SUBSET Tasks]
Distinct(s) == \A i, j \in DOMAIN s : s[i] = s[j] => i = j
MissionRow(m) == /\ m.kind = "DELIVERY" => m.pin = "none"
                 /\ Distinct(m.tasks)
MissionRows(ts) == [kind: {"DELIVERY", "PARITY"}, tasks: Seq(ts), pin: Pins, status: Statuses]
Request(ask, ts) == ask.add \in Seq(ts) /\ ask.status \in Statuses \cup {"same"}

ASSUME DeliveryAssumption ==
    /\ Dimensions \subseteq AllDimensions
    /\ "none" \in Pins /\ "operator" \notin Runs
    /\ MaxComparisons \in Nat
    /\ IsFiniteSet(Tasks)
    /\ \A s \in Scenarios :
           LET ts == DOMAIN s.tasks IN
           /\ ts \subseteq Tasks /\ s.tasks \in [ts -> TaskRow]
           /\ \A t \in ts : s.tasks[t].verified \in 0..1 /\ (s.tasks[t].busy => s.tasks[t].state # "READY")
           /\ s.moves \in Nat
           /\ s.operator \in BOOLEAN
           /\ s.runs \subseteq Runs
           /\ s.mission \in MissionRows(ts) /\ MissionRow(s.mission)
           /\ \A ask \in s.asks : Request(ask, ts)

VARIABLES
    tasks,        \* [state, busy, plan, verified, supersedes] of each task
    history,      \* the commits: the ancestors of each, a commit included
    main,         \* head of the integration branch
    squashed,     \* commits that are in no branch of the repository any more
    evidence,     \* EPIC_DIMENSION_EVIDENCE rows
    proven,       \* what suites really did: [commit, repository, dimension]
    reports,      \* EPIC_VERIFICATION_REPORTs, with the members' commits when judged
    run,          \* the executions of the epic workflow
    mission,      \* the mission's row
    comparisons,  \* HTTP_E2E jobs of the target against the reference, oldest first
    place,        \* registration of the target and the reference
    update,       \* the requests on the mission
    moves,        \* what is left of the scenario's task and branch changes
    operator,     \* whether an operator records evidence and judges the epic too
    asks          \* what requests on the mission may ask: [add, remove, pin, status]

epicVars == <<evidence, proven, reports, run>>
missionVars == <<mission, comparisons, place, update>>
taskVars == <<tasks, history, main, squashed, moves>>
vars == <<tasks, history, main, squashed, evidence, proven, reports, run,
          mission, comparisons, place, update, moves, operator, asks>>

\* A row of evidence and a persisted report, of what this model keeps of them.
EvidenceRow == [dimension: Dimensions, commit: DOMAIN history, passed: BOOLEAN,
                repository: Repositories, actor: Runs \cup {"operator"}, source: SourceTypes]
ReportRow == [by: Runs \cup {"operator"}, head: DOMAIN history, repository: Repositories,
              result: {"PASS", "BLOCKED"}, required: SUBSET Dimensions,
              trust: {"CI_VERIFIED", "OPERATOR_ASSERTED", "MIXED", "NONE"}]
IdleRun == [pc |-> "idle", head |-> 0, repository |-> "none", required |-> {}, 
            todo |-> {}, at |-> <<>>, contained |-> <<>>, read |-> <<>>]
IdleUpdate == [pc |-> "idle", row |-> <<>>, tasks |-> <<>>, place |-> <<>>,
               parity |-> NoComparison, head |-> 0]
RunPhases == {"idle", "pinned", "tested", "judging", "read", "over"}
UpdatePhases == {"idle", "loaded", "listed", "compared", "judged", "over"}

Init == \E s \in Scenarios :
    /\ tasks = s.tasks
    /\ mission = s.mission
    /\ moves = s.moves
    /\ operator = s.operator
    /\ asks = s.asks
    /\ run = [r \in Runs |-> IF r \in s.runs THEN IdleRun ELSE [IdleRun EXCEPT !.pc = "over"]]
    /\ history = <<{1}>>
    /\ main = 1
    /\ squashed = {}
    /\ evidence = {} /\ proven = {} /\ reports = {}
    /\ comparisons = <<>>
    /\ place = [target |-> [registered |-> TRUE, active |-> TRUE, write |-> TRUE],
                reference |-> [registered |-> TRUE, active |-> TRUE, write |-> FALSE]]
    /\ update = [u \in Updates |-> IdleUpdate]

(*------------------------ tasks and the repository -----------------------*)
NextCommit == Len(history) + 1
Commit(ancestors) == history' = Append(history, ancestors \cup {NextCommit})
Moving == moves > 0 /\ moves' = moves - 1

\* A task that is not READY reaches READY at a commit of its own, on top of the branch.
Finish(t) ==
    /\ Moving
    /\ tasks[t].state # "READY"
    /\ Commit(history[main])
    /\ tasks' = [tasks EXCEPT ![t].state = "READY", ![t].busy = FALSE, ![t].verified = NextCommit]
    /\ UNCHANGED <<main, squashed, epicVars, missionVars, operator, asks>>

\* A task is taken up again: a transfer onto a newer base, or a run that blocks.
Reopen(t) ==
    /\ Moving
    /\ tasks[t].state = "READY"
    /\ \E s \in TaskStates \ {"READY"}, b \in BOOLEAN :
           tasks' = [tasks EXCEPT ![t].state = s, ![t].busy = b]
    /\ UNCHANGED <<history, main, squashed, epicVars, missionVars, operator, asks>>

\* A pull request is merged; a squash merge keeps none of its commits.
Land(t) ==
    /\ Moving
    /\ tasks[t].verified # 0
    /\ tasks[t].verified \notin history[main]
    /\ \/ Commit(history[main] \cup history[tasks[t].verified]) /\ UNCHANGED squashed
       \/ Commit(history[main]) /\ squashed' = squashed \cup {tasks[t].verified}
    /\ main' = NextCommit
    /\ UNCHANGED <<tasks, epicVars, missionVars, operator, asks>>

(*------------------------------- the epic --------------------------------*)
\* The members as a report reads them: tasks in one read, their artifacts in a later one.
Members(rows, contained) ==
    [t \in DOMAIN rows |-> [state |-> rows[t].state, supersedes |-> rows[t].supersedes,
                            plan |-> tasks[t].plan, verified |-> tasks[t].verified,
                            contained |-> IF t \in DOMAIN contained THEN contained[t] ELSE "unknown"]]
Judged(rows, contained, head, repository) ==
    Report(Members(rows, contained), evidence, Dimensions, head, repository)
Persist(report, by) ==
    reports' = reports \cup {[by |-> by, head |-> report.head, repository |-> report.repository,
                              result |-> report.result, trust |-> report.trust,
                              required |-> report.required]}
With(row, fields) == [f \in DOMAIN row |-> IF f \in DOMAIN fields THEN fields[f] ELSE row[f]]
Step(r, fields) == run' = [run EXCEPT ![r] = With(@, fields)]

\* Mutant: a run covers a fixed list of dimensions.
PreflightFixedList(r) ==
    /\ run[r].pc = "idle"
    /\ \E repository \in Repositories :
           LET report == Judged(tasks, <<>>, main, repository) IN
           Step(r, [pc |-> "pinned", head |-> main, repository |-> repository,
                    required |-> report.required, todo |-> Dimensions])
    /\ UNCHANGED <<taskVars, missionVars, operator, asks, evidence, proven, reports>>

\* One run at a time per commit: the workflow's concurrency group.
Preflight(r) ==
    /\ run[r].pc = "idle"
    /\ \A s \in Runs : run[s].pc \in {"idle", "over"} \/ run[s].head # main
    /\ \E repository \in Repositories :
           LET report == Judged(tasks, <<>>, main, repository) IN
           Step(r, [pc |-> "pinned", head |-> main, repository |-> repository,
                    required |-> report.required, todo |-> report.required,
                    at |-> [t \in {t \in report.effective : tasks[t].verified # 0} |-> tasks[t].verified]])
    /\ UNCHANGED <<taskVars, missionVars, operator, asks, evidence, proven, reports>>

\* Mutant: the arguments of the ancestor test are swapped.
CommitContainmentSwapped(r) ==
    /\ run[r].pc = "pinned"
    /\ LET known == {t \in DOMAIN run[r].at : run[r].at[t] \notin squashed} IN
       Step(r, [pc |-> "tested",
                contained |-> [t \in known |-> IF run[r].head \in history[run[r].at[t]]
                                               THEN "yes" ELSE "no"]])
    /\ UNCHANGED <<taskVars, missionVars, operator, asks, evidence, proven, reports>>

\* Is the commit a member was verified at an ancestor of the head?  No answer for a commit the
\* clone does not have.
CommitContainment(r) ==
    /\ run[r].pc = "pinned"
    /\ LET known == {t \in DOMAIN run[r].at : run[r].at[t] \notin squashed} IN
       Step(r, [pc |-> "tested",
                contained |-> [t \in known |-> IF run[r].at[t] \in history[run[r].head]
                                               THEN "yes" ELSE "no"]])
    /\ UNCHANGED <<taskVars, missionVars, operator, asks, evidence, proven, reports>>

\* The first row of an actor for a dimension and a commit stands.
Recorded(d, commit, actor) ==
    \E e \in evidence : e.dimension = d /\ e.commit = commit /\ e.actor = actor
Row(d, commit, passed, repository, actor) ==
    [dimension |-> d, commit |-> commit, passed |-> passed, repository |-> repository,
     actor |-> actor, source |-> IF actor \in Runs THEN "TRUSTED_CI" ELSE "OPERATOR"]
Record(d, commit, passed, repository, actor) ==
    evidence' = IF Recorded(d, commit, actor) THEN evidence
                ELSE evidence \cup {Row(d, commit, passed, repository, actor)}

\* What the suite did for a dimension shows when its row is written.
RecordDimension(r, d) ==
    /\ run[r].pc = "tested"
    /\ d \in run[r].todo
    /\ \E seen \in SUBSET TestOutcomes, p \in IF d = "INVARIANTS" THEN PropertyRuns ELSE {<<>>} :
           LET passed == IF d = "INVARIANTS" THEN InvariantsPassed(TRUE, seen, p)
                         ELSE DimensionPassed(seen)
               real == /\ "FAILED" \notin seen
                       /\ IF d = "INVARIANTS" THEN p.spoke /\ p.properties /\ ~p.counterexample
                          ELSE "PASSED" \in seen
           IN /\ Record(d, run[r].head, passed, run[r].repository, r)
              /\ proven' = IF real THEN proven \cup {<<d, run[r].head, run[r].repository>>} ELSE proven
    /\ Step(r, [todo |-> run[r].todo \ {d}])
    /\ UNCHANGED <<taskVars, missionVars, operator, asks, reports>>

\* epicVerification with persist: the tasks, then their artifacts and the evidence.
ReadMembers(r) ==
    /\ run[r].pc = "tested" /\ run[r].todo = {}
    /\ Step(r, [pc |-> "read", read |-> tasks])
    /\ UNCHANGED <<taskVars, missionVars, operator, asks, evidence, proven, reports>>
PersistReport(r) ==
    /\ run[r].pc = "read"
    /\ Persist(Judged(run[r].read, run[r].contained, run[r].head, run[r].repository), r)
    /\ run' = [run EXCEPT ![r] = [IdleRun EXCEPT !.pc = "over"]]
    /\ UNCHANGED <<taskVars, missionVars, operator, asks, evidence, proven>>

\* The workflow is cancelled or its runner is lost.
RunDies(r) ==
    /\ run[r].pc \notin {"idle", "over"}
    /\ run' = [run EXCEPT ![r] = [IdleRun EXCEPT !.pc = "over"]]
    /\ UNCHANGED <<taskVars, missionVars, operator, asks, evidence, proven, reports>>

\* A person records what a run of theirs showed, and asks for the verdict, with no containment.
OperatorRecords ==
    /\ operator
    /\ \E d \in Dimensions, c \in 1..main, passed \in BOOLEAN, repository \in Repositories :
           ~Recorded(d, c, "operator") /\ Record(d, c, passed, repository, "operator")
    /\ UNCHANGED <<taskVars, missionVars, operator, asks, proven, reports, run>>
OperatorVerifies ==
    /\ operator
    /\ \A p \in reports : p.by # "operator"    \* bound: one verdict of theirs
    /\ \E repository \in Repositories : Persist(Judged(tasks, <<>>, main, repository), "operator")
    /\ UNCHANGED <<taskVars, missionVars, operator, asks, evidence, proven, run>>

(*------------------------------ the mission ------------------------------*)
\* Mutant: any comparison with the reference counts, whatever it was pinned to.
NewestOfAnyPin(pin) ==
    IF comparisons = <<>> THEN NoComparison
    ELSE LET j == comparisons[Len(comparisons)] IN
         [commit |-> j.commit, status |-> j.status, verdict |-> j.verdict, reference |-> j.reference]
Newest(pin) ==
    LET of == {i \in DOMAIN comparisons : pin \in {"none", comparisons[i].pin}} IN
    IF of = {} THEN NoComparison
    ELSE LET j == comparisons[CHOOSE i \in of : \A k \in of : k <= i] IN
         [commit |-> j.commit, status |-> j.status, verdict |-> j.verdict, reference |-> j.reference]

Evidence(taskIds, rows, where, parity, head) ==
    [target |-> where.target, reference |-> where.reference,
     tasks |-> [i \in DOMAIN taskIds |-> [state |-> rows[taskIds[i]].state, busy |-> rows[taskIds[i]].busy]],
     missing |-> FALSE, parity |-> parity, head |-> head]

\* The evidence as one read would find it: what the brief shows.
Brief == Evidence(mission.tasks, tasks, place, Newest(mission.pin),
                  IF Newest(mission.pin).verdict = "PROVEN" THEN main ELSE 0)

\* A comparison is queued at the target's head, runs, and ends with a verdict.
Compare ==
    /\ mission.kind = "PARITY" /\ mission.status = "ACTIVE"
    /\ Len(comparisons) < MaxComparisons
    /\ NextCall(mission, Brief).tool = "compare"
    /\ comparisons' = Append(comparisons, [commit |-> main, pin |-> mission.pin, status |-> "QUEUED",
                                           verdict |-> "none", reference |-> FALSE])
    /\ UNCHANGED <<taskVars, epicVars, mission, place, update, operator, asks>>
CompareEnds ==
    /\ \E i \in DOMAIN comparisons, v \in {"PROVEN", "NOT_PROVEN", "none"}, ref \in BOOLEAN :
           /\ comparisons[i].status = "QUEUED"
           /\ v # "NOT_PROVEN" => ~ref
           /\ comparisons' = [comparisons EXCEPT ![i].status = IF v = "PROVEN" THEN "COMPLETED" ELSE "FAILED",
                                                 ![i].verdict = v, ![i].reference = ref]
    /\ UNCHANGED <<taskVars, epicVars, mission, place, update, operator, asks>>

\* A repository is disabled or put back (superadmin_resource_update).
Disable ==
    /\ asks # {} /\ Moving
    /\ \E which \in DOMAIN place : place' = [place EXCEPT ![which].active = ~@]
    /\ UNCHANGED <<tasks, history, main, squashed, epicVars, mission, comparisons, update, operator, asks>>

To(u, fields) == update' = [update EXCEPT ![u] = With(@, fields)]

\* The elements of s that are not in gone; each of them once.
Without(s, gone) == Picked(s, {n \in DOMAIN s : s[n] \notin gone})
Unique(s) == Picked(s, {n \in DOMAIN s : \A i \in 1..(n - 1) : s[i] # s[n]})

\* The row a request makes of the mission it read; the whole row is written back.
Changed(row, ask) ==
    [row EXCEPT !.tasks = Unique(Without(@, ask.remove) \o ask.add),
                !.pin = IF ask.pin \in Pins THEN ask.pin ELSE @]
UpdateLoads(u) ==
    /\ update[u].pc = "idle"
    /\ \E ask \in asks :
           /\ ask.pin \in Pins => mission.kind = "PARITY"
           /\ IF ask.status = "ACHIEVED" /\ mission.status # "ACHIEVED"
              THEN To(u, [pc |-> "loaded", row |-> Changed(mission, ask)])
              ELSE To(u, [pc |-> "judged",
                          row |-> [Changed(mission, ask) EXCEPT
                                       !.status = IF ask.status = "same" THEN @ ELSE ask.status]])
    /\ UNCHANGED <<taskVars, epicVars, mission, comparisons, place, operator, asks>>

\* The evidence for ACHIEVED, of the row to be written: registrations and tasks, then the
\* newest comparison, then the head (unknown when the provider does not answer).
UpdateLists(u) ==
    /\ update[u].pc = "loaded"
    /\ To(u, [pc |-> "listed", place |-> place,
              tasks |-> [i \in DOMAIN update[u].row.tasks |->
                            [state |-> tasks[update[u].row.tasks[i]].state,
                             busy |-> tasks[update[u].row.tasks[i]].busy]]])
    /\ UNCHANGED <<taskVars, epicVars, mission, comparisons, place, operator, asks>>
UpdateCompares(u) ==
    /\ update[u].pc = "listed"
    /\ To(u, [pc |-> "compared", parity |-> Newest(update[u].row.pin)])
    /\ UNCHANGED <<taskVars, epicVars, mission, comparisons, place, operator, asks>>
SeenBy(u, head) ==
    [target |-> update[u].place.target, reference |-> update[u].place.reference,
     tasks |-> update[u].tasks, missing |-> FALSE, parity |-> update[u].parity, head |-> head]
UpdateJudges(u) ==
    /\ update[u].pc = "compared"
    /\ \E head \in IF update[u].parity.verdict = "PROVEN" THEN {0, main} ELSE {0} :
           IF Complete(update[u].row, SeenBy(u, head))
           THEN To(u, [pc |-> "judged", head |-> head, row |-> [update[u].row EXCEPT !.status = "ACHIEVED"]])
           ELSE update' = [update EXCEPT ![u] = [IdleUpdate EXCEPT !.pc = "over"]]
    /\ UNCHANGED <<taskVars, epicVars, mission, comparisons, place, operator, asks>>
UpdateStores(u) ==
    /\ update[u].pc = "judged"
    /\ mission' = update[u].row
    /\ update' = [update EXCEPT ![u] = [IdleUpdate EXCEPT !.pc = "over"]]
    /\ UNCHANGED <<taskVars, epicVars, comparisons, place, operator, asks>>

Next ==
    \/ \E t \in DOMAIN tasks : Finish(t) \/ Reopen(t) \/ Land(t)
    \/ \E r \in Runs : \/ Preflight(r) \/ CommitContainment(r) \/ ReadMembers(r)
                       \/ PersistReport(r) \/ RunDies(r)
                       \/ \E d \in Dimensions : RecordDimension(r, d)
    \/ OperatorRecords \/ OperatorVerifies
    \/ Compare \/ CompareEnds \/ Disable
    \/ \E u \in Updates : \/ UpdateLoads(u) \/ UpdateLists(u) \/ UpdateCompares(u)
                          \/ UpdateJudges(u) \/ UpdateStores(u)

Spec == Init /\ [][Next]_vars

(*------------------------------- properties ------------------------------*)
\* Every variable holds what the code can put in it.
TypeOK ==
    /\ \A t \in DOMAIN tasks : /\ tasks[t].state \in TaskStates /\ tasks[t].busy \in BOOLEAN
                               /\ tasks[t].plan \in Plans \cup {NoPlan}
                               /\ tasks[t].verified \in 0..Len(history)
                               /\ tasks[t].busy => tasks[t].state # "READY"
    /\ main \in DOMAIN history /\ squashed \subseteq DOMAIN history
    /\ \A r \in Runs : /\ run[r].pc \in RunPhases /\ run[r].head \in 0..Len(history)
                       /\ run[r].todo \subseteq run[r].required
                       /\ \A t \in DOMAIN run[r].contained : run[r].contained[t] \in Containment
    /\ evidence \subseteq EvidenceRow /\ reports \subseteq ReportRow
    /\ \A u \in Updates : update[u].pc \in UpdatePhases
    /\ mission \in MissionRows(DOMAIN tasks) /\ MissionRow(mission)

\* A PASS that says CI verified it rests, for every dimension the epic owes, on a suite that
\* exercised the dimension and succeeded at that very commit of that very repository: never on a
\* member's older run, another repository's run, an empty or skipped suite, or an operator's word.
PassWasRunAtHead ==
    \A p \in reports : p.result = "PASS" /\ p.trust = "CI_VERIFIED" =>
        \A d \in p.required : <<d, p.head, p.repository>> \in proven

\* A PASS counts every member: one that is not READY at rest has a READY member standing in for
\* it, reached along SUPERSEDES relationships of the selection, however they chain, fork or loop.
Stands(s, t) == s # t /\ \E n \in 1..Cardinality(DOMAIN tasks) :
                    \E p \in [1..(n + 1) -> DOMAIN tasks] :
                        /\ p[1] = t /\ p[n + 1] = s
                        /\ \A i \in 1..n : p[i] \in tasks[p[i + 1]].supersedes
SupersededHasStandIn ==
    [][\A p \in reports' \ reports : p.result = "PASS" =>
           \A t \in DOMAIN tasks :
               LET rows == IF p.by \in Runs THEN run[p.by].read ELSE tasks IN
               \/ rows[t].state = "READY"
               \/ \E s \in DOMAIN tasks : rows[s].state = "READY" /\ Stands(s, t)]_vars

\* When the runner reports PASS, every counted member whose commit it asked git about, and that
\* has not been verified anew since, is in the head (or was unknown to the clone).
CheckedMembersInHead ==
    [][\A p \in reports' \ reports : p.result = "PASS" /\ p.by \in Runs =>
           \A t \in Effective(Members(run[p.by].read, <<>>)) :
               /\ t \in DOMAIN run[p.by].at
               /\ run[p.by].at[t] = tasks[t].verified
               => tasks[t].verified \in history[p.head] \cup squashed]_vars

\* "asks git whether that commit is actually reachable from the head being released": of every
\* member a PASS of the runner counts.  The code asks about the commits of the preflight.
PassMembersInHead ==
    [][\A p \in reports' \ reports : p.result = "PASS" /\ p.by \in Runs =>
           \A t \in Effective(Members(run[p.by].read, <<>>)) :
               tasks[t].verified \in history[p.head] \cup squashed \cup {0}]_vars

\* A request that makes the mission ACHIEVED found the tasks it stores all READY and, for PARITY,
\* the newest comparison at the pin it stores PROVEN at the target's head as it read it.
AchievedAsJudged ==
    [][\A u \in Updates :
           update[u].pc = "judged" /\ update'[u].pc = "over" /\ update[u].tasks # <<>>
           /\ mission'.status = "ACHIEVED" =>
               /\ Len(mission'.tasks) = Len(update[u].tasks)
               /\ \A i \in DOMAIN update[u].tasks : update[u].tasks[i].state = "READY"
               /\ update[u].place.target.active
               /\ mission'.kind = "PARITY" =>
                      \E j \in DOMAIN comparisons :
                          /\ comparisons[j].verdict = "PROVEN"
                          /\ mission'.pin \in {"none", comparisons[j].pin}
                          /\ comparisons[j].commit = update[u].parity.commit
                          /\ update[u].head \in {0, comparisons[j].commit}]_vars

\* The next call a session is told is never to compare while the task that carries the comparison
\* is open with a job in flight, nor before the mission has such a task.
ComparisonWaitsForTask ==
    mission.kind = "PARITY" /\ NextCall(mission, Brief).tool = "compare" =>
        /\ mission.tasks # <<>>
        /\ ~tasks[mission.tasks[1]].busy

\* "a mission can never read as further along than its evidence": ACHIEVED is only read of tasks
\* and a pin that a request found complete.  (A later attach or pin keeps the status.)
AchievedWasJudged ==
    [][mission'.status = "ACHIEVED" =>
           \/ mission.status = "ACHIEVED" /\ mission'.tasks = mission.tasks /\ mission'.pin = mission.pin
           \/ \E u \in Updates : update[u].pc = "judged" /\ update[u].tasks # <<>>]_vars
=============================================================================
