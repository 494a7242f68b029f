------------------------------- MODULE HttpE2e ------------------------------
(***************************************************************************)
(* HTTP end-to-end verification of one commit: the job is claimed, the     *)
(* repository is planned, its containers are started, its scenarios are    *)
(* sent to the application, perhaps once more to a reference               *)
(* implementation, the containers are removed and the evidence recorded    *)
(* (packages/ephemeral-environment/src/executor.ts, docker-runtime.ts,     *)
(* http-e2e-job.ts, scripts/run-ephemeral-environment.ts).  The same       *)
(* collection run serves a registered resource of the control plane, which *)
(* may be disabled while it runs (packages/http-runner/src/collection.ts,  *)
(* index.ts).                                                              *)
(*                                                                         *)
(* A case is what a run is given: the projects by side, the side that is   *)
(* verified and, for a registered resource, the control plane's rows.      *)
(* The application answers a request with any of the answers its project   *)
(* lists for it, or not at all.                                            *)
(***************************************************************************)
EXTENDS HttpCollection, EnvironmentPlan, EnvironmentVerdict

CONSTANT Cases   \* the runs considered: mode, projects, target, prefix, handed scenarios

\* A comparison has a reference and the subject it verifies, any other run the one project it is about;
\* a checkout is a finite set of files, each path a name below some directories.
ASSUME CasesAssumption ==
    \A case \in Cases :
      /\ case.mode \in {"environment", "comparison", "registered"}
      /\ IF case.mode = "comparison"
         THEN DOMAIN case.projects = {"reference", "subject"} /\ case.verified = "subject"
         ELSE DOMAIN case.projects = {case.verified} /\ case.verified # "reference"
      /\ \A s \in DOMAIN case.projects :
           /\ IsFiniteSet(DOMAIN case.projects[s].files)
           /\ \A p \in DOMAIN case.projects[s].files : p \in Seq(STRING) /\ p # <<>>

IsSeq(s) == s \in Seq(ToSet(s))

\* A checkout lists its documents, each once; each is below some directories, is read in one of three ways
\* and lists what it holds.
ASSUME DocumentsAssumption ==
    /\ MaxReads \in Nat /\ MaxStepsPerScenario \in Nat \ {0}
    /\ \A case \in Cases : \A s \in DOMAIN case.projects :
         /\ IsSeq(case.projects[s].documents)
         /\ \A f \in ToSet(case.projects[s].documents) :
              /\ f.named \in BOOLEAN /\ f.oversized \in BOOLEAN /\ f.depth \in Nat \ {0}
              /\ f.fate \in {"ok", "unreadable", "unparseable"}
              /\ {"path", "kind", "items"} \subseteq DOMAIN f /\ IsSeq(f.items)
              /\ f.kind = "POSTMAN" => IsSeq(f.requests)
              /\ \A item \in ToSet(f.items) : /\ {"path", "ref", "operations"} \subseteq DOMAIN item
                                             /\ IsSeq(item.path) /\ IsSeq(item.operations)
              /\ \A g \in ToSet(case.projects[s].documents) : f.path = g.path => f = g

\* Scenarios handed in are a list, and the steps of each.
ASSUME HandedAssumption ==
    \A case \in Cases : \A scenarios \in case.handed :
      IsSeq(scenarios) /\ \A i \in DOMAIN scenarios : IsSeq(scenarios[i].steps)

VARIABLES
    setup,       \* the case, with its plans, inventory and scenarios
    job,         \* status of the HTTP_E2E job, or of the control plane's run
    pc,          \* the phase of the run
    side,        \* the implementation being run: "reference", "subject" or "registered"
    at,          \* the dependency, command or scenario the phase has reached
    results,     \* the results of the running scenario's steps
    memory,      \* the variables the collection has extracted, by their sensitivity
    outcomes,    \* the scenarios of the collection that were run, skipped or refused
    spent,       \* the budget exceeded: "none", the collection's, or the scenario's as well
    failure,     \* the first failure of the environment
    containers,  \* the containers executeEnvironment is to remove
    world,       \* the containers Docker has
    wire,        \* the exchanges the applications have had
    evidence,    \* what each side has to show
    report       \* the evidence recorded for the job

vars == <<setup, job, pc, side, at, results, memory, outcomes, spent, failure, containers, world, wire,
          evidence, report>>
collectionVars == <<results, memory, outcomes, spent, wire>>
runVars == <<at, failure, containers, world, collectionVars>>

NoFailure == [class |-> "none", step |-> "none", cause |-> "none"]
Failure(class, step, cause) == [class |-> class, step |-> step, cause |-> cause]
NoReport == [verdict |-> "none", failure |-> NoFailure, reports |-> <<>>, area |-> "none"]

(*------------------------------- the set-up ------------------------------*)
\* run-ephemeral-environment.ts: scenarios handed in, if only none, replace those of the repository's
\* collections.
\* It takes the files of the checkout itself, so the listing it hands to discovery is never cut short.
Discovered(project) == DiscoverRepositoryApi([files |-> project.documents, truncated |-> FALSE])
\* The API_CONTRACT artifact of a registered resource's project.
ApiContracts(project) ==
    Picked(project.documents, {i \in DOMAIN project.documents : project.documents[i].kind = "OPENAPI"})
ImportedScenarios(project, prefix) ==
    LET collections == Discovered(project).collections
    IN FlattenSeq([i \in DOMAIN collections |-> ImportPostmanCollection(collections[i], prefix).scenarios])
\* collectionImport saves each scenario with its place in the import; the store lists them in any order.
Saved(project, prefix) ==
    LET collections == Discovered(project).collections
        Of(i) == ImportPostmanCollection(collections[i], prefix).scenarios
        Artifacts(i, imported) ==
            [k \in DOMAIN imported |-> [scenario |-> imported[k], createdAt |-> i, index |-> k, deleted |-> FALSE]]
    IN Reverse(FlattenSeq([i \in DOMAIN collections |-> Artifacts(i, Of(i))]))
SetUp(case) ==
    LET project == case.projects[case.verified]
        found == Discovered(project)
        registered == case.mode = "registered"
        Known(f) == registered \/ f.contracts # <<>> \/ f.gaps # {}
        Scenarios(artifacts) == [i \in DOMAIN artifacts |-> artifacts[i].scenario]
    IN [mode |-> case.mode, verified |-> case.verified, projects |-> case.projects, prefix |-> case.prefix,
        handed |-> case.handed, target |-> case.target,
        plans |-> [s \in DOMAIN case.projects |->
                     LET p == case.projects[s] IN PlanEnvironment(p.files, p.manifest, p.root)],
        inventory |-> IF registered
                      THEN InventoryFromContractArtifact(ApiContracts(project))
                      ELSE IF Known(found) THEN found.inventory ELSE NoInventory,
        documentedBy |-> IF Known(found) /\ ~registered THEN found.documentedBy ELSE <<>>,
        scenarios |-> IF registered THEN Scenarios(CollectionScenarios(Saved(project, case.prefix)))
                      ELSE IF case.handed # {} THEN CHOOSE handed \in case.handed : TRUE
                      ELSE ImportedScenarios(project, case.prefix)]

plan == setup.plans[side]
Commands == [i \in DOMAIN plan.install |-> "install"] \o [i \in DOMAIN plan.build |-> "build"]
            \o [i \in DOMAIN plan.prepare |-> "prepare"]
App == [side |-> side, name |-> "app"]
Service(i) == [side |-> side, name |-> plan.dependencies[i].kind]
Running == {c \in DOMAIN world : world[c]}
\* Docker publishes the application's port for one container at a time.
Listeners == {c \in Running : c.name = "app"}
Placed(container, runs) ==
    [c \in DOMAIN world \cup {container} |-> IF c = container THEN runs ELSE world[c]]
Without(names) == [c \in DOMAIN world \ names |-> world[c]]

(*------------------------------- the job ---------------------------------*)
\* prepareHttpE2eJob: the job is claimed and resolved, or closed with evidence of why it was not.
Claim ==
    /\ pc = "queued" /\ setup.mode # "registered"
    /\ \/ job' = "RUNNING" /\ pc' = "plan" /\ UNCHANGED report
       \/ /\ job' = "FAILED" /\ pc' = "done"
          /\ report' = [NoReport EXCEPT !.verdict = "NOT_PROVEN", !.area = "INFRASTRUCTURE",
                          !.failure = Failure("INFRASTRUCTURE_UNAVAILABLE", "prepare", "none")]
    /\ UNCHANGED <<setup, side, evidence, runVars>>

\* recordHttpE2eEvidence: the file the environment job left, or evidence that it left none.  A file
\* that is missing, too large or not evidence fails the job.
Record(file) ==
    /\ pc = "record" /\ setup.mode # "registered"
    /\ file = "valid" => setup.verified \in DOMAIN evidence
    /\ LET lost == Failure("INFRASTRUCTURE_UNAVAILABLE", "environment", "none")
           e == IF file = "valid" THEN evidence[setup.verified]
                ELSE [verdict |-> "NOT_PROVEN", failure |-> lost, reports |-> <<>>]
       IN report' = [verdict |-> e.verdict, failure |-> e.failure, reports |-> e.reports,
                     area |-> IF e.verdict = "PROVEN" THEN "none" ELSE DiagnoseHttpE2e(e)]
    /\ job' = IF file = "valid" THEN "SUCCEEDED" ELSE "FAILED"
    /\ pc' = "done"
    /\ UNCHANGED <<setup, side, evidence, runVars>>

\* The machine of the environment job is gone, and with it every container; nothing was written.
EnvironmentDies ==
    /\ pc \notin {"queued", "record", "done"} /\ setup.mode # "registered"
    /\ pc' = "record" /\ evidence' = <<>> /\ world' = <<>> /\ containers' = {}
    /\ UNCHANGED <<setup, job, side, report, at, failure, collectionVars>>

(*--------------------------- executeEnvironment --------------------------*)
Fail(class, step, cause) ==
    /\ failure' = IF failure = NoFailure THEN Failure(class, step, cause) ELSE failure
    /\ pc' = "cleanup"

\* Nothing is started for a plan that is not executable, without scenarios, or whose environment
\* names a dependency it does not provide.
CheckPlan ==
    /\ pc = "plan"
    /\ \/ ~PlanIsExecutable(plan) /\ Fail("PLAN_UNRESOLVED", "plan", "none")
       \/ PlanIsExecutable(plan) /\ setup.scenarios = <<>> /\ Fail("NO_SCENARIOS", "collection", "none")
       \/ /\ PlanIsExecutable(plan) /\ setup.scenarios # <<>> /\ UnknownReferences(plan) # {}
          /\ Fail("PLAN_UNRESOLVED", "env", "none")
       \/ /\ PlanIsExecutable(plan) /\ setup.scenarios # <<>> /\ UnknownReferences(plan) = {}
          /\ pc' = "network" /\ UNCHANGED failure
    /\ UNCHANGED <<setup, job, side, at, containers, world, evidence, report, collectionVars>>

\* DockerRuntime.prepare creates the network and the cache volume.
PrepareRuntime ==
    /\ pc = "network"
    /\ \/ pc' = "dependency" /\ UNCHANGED failure
       \/ Fail("INFRASTRUCTURE_UNAVAILABLE", "prepare", "none")
    /\ at' = 1
    /\ UNCHANGED <<setup, job, side, containers, world, evidence, report, collectionVars>>

\* docker run -d: the container runs, Docker refuses, or Docker creates it and fails to start it.
DockerRuns(container) ==
    /\ container.name = "app" => Listeners = {}
    /\ container \notin DOMAIN world
    /\ world' = Placed(container, TRUE)
DockerFails(container) ==
    \/ UNCHANGED world
    \/ container \notin DOMAIN world /\ world' = Placed(container, FALSE)

\* A dependency is started and becomes ready, or the environment ends here.
StartDependency ==
    /\ pc = "dependency"
    /\ \/ /\ at > Len(plan.dependencies)
          /\ pc' = "command" /\ at' = 1 /\ UNCHANGED <<world, containers, failure>>
       \/ /\ at <= Len(plan.dependencies)
          /\ \/ DockerRuns(Service(at)) /\ containers' = containers \cup {Service(at)}
                /\ \/ at' = at + 1 /\ UNCHANGED <<pc, failure>>
                   \/ Fail("DEPENDENCY_UNAVAILABLE", "ready", "none") /\ UNCHANGED at
             \/ DockerFails(Service(at)) /\ Fail("DEPENDENCY_UNAVAILABLE", "start", "none")
                /\ UNCHANGED <<containers, at>>
    /\ UNCHANGED <<setup, job, side, evidence, report, collectionVars>>

\* install, build and prepare commands, each in a container of its own that is removed with it.
RunCommand ==
    /\ pc = "command"
    /\ \/ at > Len(Commands) /\ pc' = "start" /\ UNCHANGED <<at, failure>>
       \/ at <= Len(Commands) /\ at' = at + 1 /\ UNCHANGED <<pc, failure>>
       \/ /\ at <= Len(Commands) /\ UNCHANGED at
          /\ \E cause \in {"unexecutable", "network", "code"} :
               IF Commands[at] = "prepare" THEN Fail("ENVIRONMENT_BOOT_FAILED", "prepare", cause)
               ELSE Fail("BUILD_FAILED", Commands[at], cause)
    /\ UNCHANGED <<setup, job, side, containers, world, evidence, report, collectionVars>>

\* Mutant: an application that could not be started is probed all the same.
StartApplicationUnchecked ==
    /\ pc = "start"
    /\ DockerRuns(App) \/ DockerFails(App)
    /\ containers' = containers \cup {App} /\ pc' = "health" /\ UNCHANGED failure
    /\ UNCHANGED <<setup, job, side, at, evidence, report, collectionVars>>

\* docker run of the application itself; a container that Docker could not start is not remembered.
StartApplication ==
    /\ pc = "start"
    /\ \/ DockerRuns(App) /\ containers' = containers \cup {App} /\ pc' = "health" /\ UNCHANGED failure
       \/ DockerFails(App) /\ Fail("ENVIRONMENT_BOOT_FAILED", "start", "none") /\ UNCHANGED containers
    /\ UNCHANGED <<setup, job, side, at, evidence, report, collectionVars>>

\* The application may exit by itself at any time.
ApplicationExits ==
    /\ pc \in {"health", "collection", "step"} /\ App \in Running
    /\ world' = [world EXCEPT ![App] = FALSE]
    /\ UNCHANGED <<setup, job, pc, side, at, failure, containers, evidence, report, collectionVars>>

\* Ready means that something on the port answers below 500.
WaitForHealth ==
    /\ pc = "health"
    /\ \/ Listeners # {} /\ pc' = "collection" /\ UNCHANGED failure
       \/ App \notin Running /\ \E cause \in {"placeholder", "refused", "code"} :
                                  Fail("ENVIRONMENT_BOOT_FAILED", "start", cause)
       \/ App \in Running /\ Fail("HEALTH_CHECK_FAILED", "health", "none")
    /\ at' = 1
    /\ UNCHANGED <<setup, job, side, containers, world, evidence, report, collectionVars>>

(*---------------------------- the collection run -------------------------*)
\* Each scenario is authorized anew.  In an environment the target is a resource made for the run.
ScenarioAuthorized(scenario) ==
    setup.mode = "registered" => Authorized(setup.target.project, setup.target.resource, scenario)

BudgetPasses ==
    /\ pc \in {"collection", "step"} /\ spent # "scenario"
    /\ spent' = IF pc = "step" /\ spent = "collection" THEN "scenario" ELSE "collection"
    /\ UNCHANGED <<setup, job, pc, side, at, failure, containers, world, evidence, report,
                   results, memory, outcomes, wire>>

NextScenario ==
    /\ pc = "collection" /\ at <= Len(setup.scenarios)
    /\ LET scenario == setup.scenarios[at]
           Unrun(status) == outcomes' = Append(outcomes, [scenario |-> scenario.name, status |-> status, steps |-> <<>>])
       IN \/ spent # "none" /\ Unrun("SKIPPED") /\ at' = at + 1 /\ UNCHANGED pc
          \/ /\ spent = "none" /\ ~ScenarioAuthorized(scenario)
             /\ Unrun("ERROR") /\ at' = at + 1 /\ UNCHANGED pc
          \/ /\ spent = "none" /\ ScenarioAuthorized(scenario)
             /\ pc' = "step" /\ UNCHANGED <<outcomes, at>>
    /\ results' = <<>>
    /\ UNCHANGED <<setup, job, side, failure, containers, world, evidence, report, memory, spent, wire>>

Scenario == setup.scenarios[at]
Step == Scenario.steps[Len(results) + 1]
Halted == results # <<>> /\ Last(results).status # "PASSED"

\* A step that cannot be sent, or that comes after the scenario's budget, ends the scenario.
RefuseStep ==
    /\ pc = "step" /\ ~Halted /\ Len(results) < Len(Scenario.steps)
    /\ \/ spent = "scenario" /\ results' = Append(results, ErrorResult(Step, "budget"))
       \/ /\ spent # "scenario" /\ Unsendable(Step, memory) # "none"
          /\ results' = Append(results, ErrorResult(Step, Unsendable(Step, memory)))
    /\ UNCHANGED <<setup, job, pc, side, at, failure, containers, world, evidence, report, memory, outcomes, spent, wire>>

Sendable == /\ pc = "step" /\ ~Halted /\ Len(results) < Len(Scenario.steps)
            /\ spent # "scenario" /\ Unsendable(Step, memory) = "none"
NotFound == [status |-> 404, type |-> "json", body |-> <<>>, cut |-> FALSE, slow |-> FALSE]
Route(project, step) ==
    LET routes == {r \in DOMAIN project.answers : TemplateMatchScore(r[2], Rendered(step.path)) >= 0 /\ r[1] = step.method}
    IN IF routes = {} THEN {NotFound} ELSE UNION {project.answers[r] : r \in routes}

\* The request is answered by whichever application listens.
SendStep ==
    /\ Sendable
    /\ \E listener \in (IF setup.mode = "registered" THEN {App} ELSE Listeners) :
       \E answer \in Route(setup.projects[listener.side], Step) :
         /\ results' = Append(results, StepResult(Step, answer))
         /\ memory' = Remembered(Step, answer, memory)
         /\ wire' = Append(wire, [side |-> side, by |-> listener.side, scenario |-> at,
                                  step |-> Len(results) + 1, answer |-> answer])
    /\ UNCHANGED <<setup, job, pc, side, at, failure, containers, world, evidence, report, outcomes, spent>>
\* Nothing answers in time, or the answer redirects out of the registered base.
LoseStep ==
    /\ Sendable
    /\ \E why \in {"transport", "escaped"} : results' = Append(results, ErrorResult(Step, why))
    /\ UNCHANGED <<setup, job, pc, side, at, failure, containers, world, evidence, report, memory, outcomes, spent, wire>>

EndScenario ==
    /\ pc = "step" /\ (Halted \/ Len(results) = Len(Scenario.steps))
    /\ outcomes' = Append(outcomes, ScenarioReport(Scenario, results))
    /\ at' = at + 1 /\ pc' = "collection"
    /\ spent' = IF spent = "scenario" THEN "collection" ELSE spent
    /\ UNCHANGED <<setup, job, side, failure, containers, world, evidence, report, results, memory, wire>>

\* The verdict of the collection over the requests its scenarios made.
Requests == FlattenSeq([i \in DOMAIN outcomes |-> outcomes[i].steps])
Number(status) == Cardinality({i \in DOMAIN outcomes : outcomes[i].status = status})
Coverage == ComputeApiCoverage(setup.inventory, setup.documentedBy, Requests, "EXECUTED")
Verdict == CollectionVerdict(Len(outcomes), Number("PASSED"), Number("SKIPPED"), Coverage)
CollectionStatus == IF Number("ERROR") > 0 THEN "ERROR" ELSE IF Number("PASSED") = Len(outcomes) THEN "PASSED" ELSE "FAILED"

\* Why a collection that is not PROVEN fails the environment.
EndCollection ==
    /\ pc = "collection" /\ at > Len(setup.scenarios)
    /\ \/ Verdict.verdict = "PROVEN" /\ UNCHANGED failure /\ pc' = "cleanup"
       \/ /\ Verdict.verdict # "PROVEN"
          /\ Fail(CASE CollectionStatus # "PASSED" -> "SCENARIO_FAILED"
                    [] CollectionStatus = "PASSED" /\ Coverage.incomplete # {} -> "CONTRACT_GAP"
                    [] OTHER -> "COVERAGE_INCOMPLETE", "collection", "none")
    /\ UNCHANGED <<setup, job, side, at, containers, world, evidence, report, collectionVars>>

(*-------------------------------- the end --------------------------------*)
\* cleanup in the finally: the containers that were started are removed, or Docker fails and that is
\* ignored; then the side has its evidence, and the next side, if any, starts afresh.  A scenario that
\* was not run is in the evidence without steps.
Cleanup ==
    /\ pc = "cleanup"
    /\ \E removed \in {containers, {}} : world' = Without(removed)
    /\ evidence' = [s \in DOMAIN evidence \cup {side} |-> IF s # side THEN evidence[s]
                      ELSE [verdict |-> IF failure = NoFailure THEN "PROVEN" ELSE "NOT_PROVEN", failure |-> failure,
                            reports |-> outcomes]]
    /\ IF side = "reference" THEN side' = "subject" /\ pc' = "plan"
       ELSE side' = side /\ pc' = IF setup.mode = "comparison" THEN "compare" ELSE "record"
    /\ at' = 1 /\ results' = <<>> /\ memory' = <<>> /\ outcomes' = <<>> /\ spent' = "none"
    /\ failure' = NoFailure /\ containers' = {}
    /\ UNCHANGED <<setup, job, wire, report>>

\* executeComparison: the subject's failure first, then the reference's, then any difference.
Parity == CompareExecutions(StepsFromReports(evidence["reference"].reports), StepsFromReports(evidence["subject"].reports))
Compare ==
    /\ pc = "compare"
    /\ LET subject == evidence["subject"]
           first == IF subject.failure # NoFailure THEN subject.failure
                    ELSE IF evidence["reference"].verdict # "PROVEN" THEN Failure("REFERENCE_NOT_PROVEN", "reference", "none")
                    ELSE IF Parity.verdict # "MATCH" THEN Failure("PARITY_MISMATCH", "parity", "none")
                    ELSE NoFailure
       IN evidence' = [evidence EXCEPT !["subject"].failure = first,
                                       !["subject"].verdict = IF first = NoFailure THEN "PROVEN" ELSE "NOT_PROVEN"]
    /\ pc' = "record"
    /\ UNCHANGED <<setup, job, side, report, runVars>>

(*-------------------- a registered resource's collection -----------------*)
\* The run of a registered resource is refused whole when its target is not allowed or it has nothing.
StartRegistered ==
    /\ pc = "queued" /\ setup.mode = "registered"
    /\ job' = "RUNNING"
    /\ pc' = IF TargetAllowed(setup.target.resource) /\ setup.scenarios # <<>> THEN "collection" ELSE "done"
    /\ UNCHANGED <<setup, side, evidence, report, runVars>>
\* An administrator disables the resource, or takes its permission away, while the collection runs.
DisableResource ==
    /\ setup.mode = "registered" /\ pc \in {"collection", "step"} /\ setup.target.resource.active
    /\ setup' = [setup EXCEPT !.target.resource.active = FALSE]
    /\ UNCHANGED <<job, pc, side, evidence, report, runVars>>
RecordRegistered ==
    /\ setup.mode = "registered" /\ pc = "cleanup"
    /\ report' = [verdict |-> Verdict.verdict, failure |-> failure, reports |-> outcomes, area |-> "none"]
    /\ job' = "SUCCEEDED" /\ pc' = "done"
    /\ UNCHANGED <<setup, side, evidence, runVars>>

-----------------------------------------------------------------------------
Init ==
    /\ setup \in {SetUp(case) : case \in Cases}
    /\ side = IF setup.mode = "comparison" THEN "reference" ELSE setup.verified
    /\ job = "QUEUED" /\ pc = "queued" /\ at = 1 /\ results = <<>> /\ memory = <<>> /\ outcomes = <<>>
    /\ spent = "none" /\ failure = NoFailure /\ containers = {} /\ world = <<>> /\ wire = <<>>
    /\ evidence = <<>> /\ report = NoReport

Environment == \/ CheckPlan \/ PrepareRuntime \/ StartDependency \/ RunCommand \/ StartApplication
               \/ ApplicationExits \/ WaitForHealth \/ EnvironmentDies
Collection == NextScenario \/ RefuseStep \/ SendStep \/ LoseStep \/ EndScenario \/ BudgetPasses \/ EndCollection
Next ==
    \/ Claim
    \/ Environment
    \/ Collection
    \/ Cleanup /\ setup.mode # "registered"
    \/ Compare
    \/ \E file \in {"none", "refused", "valid"} : Record(file)
    \/ StartRegistered \/ DisableResource \/ RecordRegistered
Spec == Init /\ [][Next]_vars

(*------------------------------- properties ------------------------------*)
\* Types of the variables; what a case holds is chosen at the start and kept.
TypeOK ==
    /\ job \in {"QUEUED", "RUNNING", "SUCCEEDED", "FAILED"}
    /\ pc \in {"queued", "plan", "network", "dependency", "command", "start", "health", "collection", "step",
               "cleanup", "compare", "record", "done"}
    /\ side \in DOMAIN setup.projects /\ at \in Nat \ {0}
    /\ spent \in {"none", "collection", "scenario"}
    /\ containers \subseteq DOMAIN world /\ DOMAIN evidence \subseteq DOMAIN setup.projects
    /\ report.verdict = "PROVEN" => /\ report.failure = NoFailure /\ job = "SUCCEEDED"
    /\ report.verdict = "NOT_PROVEN" /\ setup.mode # "registered" =>
         report.area \in {"IMPLEMENTATION", "SCENARIOS", "ENVIRONMENT_MANIFEST", "CONTRACT", "INFRASTRUCTURE", "REFERENCE"}

\* The exchanges of a side, each with the step that was sent.
Exchanges(s) == {x \in ToSet(wire) : x.side = s}
Sent(x) == setup.scenarios[x.scenario].steps[x.step]
AsExpected(x) == Sent(x).expects \in {0, x.answer.status}
Project == setup.projects[setup.verified]

\* PROVEN is a claim about the whole API (collection.ts, contract-discovery.ts): no file that is named
\* like a contract went unread; a path item that is only a $ref was followed to one that is more; and for
\* every operation that a contract of the repository documents, itself or behind a $ref that leads to a
\* file, an application answered a request to it in this run, as the request expected.  Not covered: what
\* a $ref that leads nowhere hides beside operations of the path item's own (EveryRefIsFollowed).
OnlyRef(item) == item.ref # "none" /\ item.operations = <<>>
Behind(item) == IF setup.mode = "registered" \/ item.ref = "none" THEN {} ELSE Held(Project.documents, item.ref)
DocumentedBy(item) == ToSet(item.operations) \cup UNION {ToSet(target.operations) : target \in Behind(item)}
ProvenMeansAnswered == report.verdict = "PROVEN" =>
    \A s \in DOMAIN setup.projects :
    \A f \in {f \in ToSet(Project.documents) : ContractCandidate(f)} :
      /\ f.named => f.fate = "ok"
      /\ f.fate = "ok" /\ f.kind = "OPENAPI" => \A item \in ToSet(f.items) :
           /\ OnlyRef(item) => \E target \in Behind(item) : ~OnlyRef(target)
           /\ \A o \in DocumentedBy(item) : o.method \in SupportedMethods => \E x \in Exchanges(s) :
                /\ Sent(x).method = o.method /\ AsExpected(x)
                /\ TemplateMatchScore(item.path, Rendered(Sent(x).path)) >= 0
\* What the comment on resolvePathItemRefs promises (contract-discovery.ts:118), and the code keeps only
\* for path items without operations of their own: PROVEN leaves no $ref that leads nowhere.
EveryRefIsFollowed == report.verdict = "PROVEN" =>
    \A f \in {f \in ToSet(Project.documents) : ContractCandidate(f) /\ f.fate = "ok" /\ f.kind = "OPENAPI"} :
    \A item \in ToSet(f.items) : item.ref # "none" => Behind(item) # {}

\* A comparison that is PROVEN (parity.ts, executor.ts): at every step of every scenario the reference
\* and the subject were both asked, and gave in full the same status and bodies of the same fields, whose
\* normalized values are the same.  What the evidence redacts is compared only as being there: any value
\* of a field named like a secret, and a credential within a text.
SameAnswers(a, b) ==
    /\ a.status = b.status /\ ~a.cut /\ ~b.cut /\ DOMAIN a.body = DOMAIN b.body
    /\ \A k \in DOMAIN a.body \ SecretNames :
         LET v == NormalizeValue(k, a.body[k]) w == NormalizeValue(k, b.body[k])
         IN v.kind = w.kind /\ v.text = w.text /\ (v.secret = "" <=> w.secret = "")
AtEveryStep(Same(_, _)) ==
    \A i \in DOMAIN setup.scenarios : \A j \in DOMAIN setup.scenarios[i].steps :
      \E x \in Exchanges("reference"), y \in Exchanges("subject") :
        <<x.scenario, x.step>> = <<i, j>> /\ <<y.scenario, y.step>> = <<i, j>> /\ Same(x.answer, y.answer)
MatchMeansSameAnswers == setup.mode = "comparison" /\ report.verdict = "PROVEN" => AtEveryStep(SameAnswers)
\* What the head of parity.ts says (:9-13) and redaction takes away: of a MATCH, nothing went uncompared.
SameBodies(a, b) == NormalizeBody(a.body) = NormalizeBody(b.body)
MatchHidesNothing == setup.mode = "comparison" /\ report.verdict = "PROVEN" => AtEveryStep(SameBodies)

\* Both implementations are published on one port, one after the other (executor.ts executeComparison,
\* docker-runtime.ts): no answer recorded for one was given by a container left over from the other.
AnswersAreItsOwn == \A x \in ToSet(wire) : x.by = x.side

\* An application is built or started only where the project said which one (plan.ts detectRoots): by
\* its manifest, which is then valid, by the caller, or by having one outermost directory to build.
Outermost(files) == {p \in DOMAIN files : /\ Last(p) \in BuildMarkers /\ ~Ignored(p) /\ Len(p) <= 3
                       /\ ~\E q \in DOMAIN files : /\ Last(q) \in BuildMarkers /\ ~Ignored(q)
                                                   /\ IsStrictPrefix(Front(q), Front(p))}
NothingBuiltOnAGuess == pc \in {"command", "start", "health"} =>
    LET p == setup.projects[side] IN
    /\ p.manifest.present => p.manifest.valid
    /\ \/ p.root # Unset \/ (p.manifest.present /\ p.manifest.root # Unset)
       \/ Cardinality({Front(f) : f \in Outermost(p.files)}) <= 1
    /\ plan.run # ""

\* A collection imported without a warning never stops on a variable nobody extracted, when every
\* request before it passed (collection.ts importPostmanCollection).
WarnedOfMissing == \A i \in DOMAIN outcomes : \A j \in DOMAIN outcomes[i].steps :
    outcomes[i].steps[j].why = "missing" =>
      \/ \E k \in 1..i : outcomes[k].status # "PASSED" /\ k < i
      \/ \E f \in ToSet(Discovered(Project).collections) : ImportPostmanCollection(f, setup.prefix).warnings # {}
=============================================================================
