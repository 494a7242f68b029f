------------------------- MODULE EnvironmentVerdict -------------------------
(***************************************************************************)
(* What is made of an environment's evidence: the comparison of two        *)
(* implementations' answers (packages/ephemeral-environment/src/parity.ts) *)
(* and the diagnosis of a verdict that is not PROVEN, which names the area *)
(* to change (packages/ephemeral-environment/src/diagnosis.ts).            *)
(***************************************************************************)
EXTENDS Integers, Sequences, SequencesExt, FiniteSets, FiniteSetsExt

(*---------------------------------- parity -------------------------------*)
VolatileKeys == {"id", "uuid", "etag", "version", "createdAt", "updatedAt", "userId"}
\* A value that differs from run to run is replaced by its type, an instant by its format.
NormalizeValue(key, value) ==
    LET Marked(kind, text) == [kind |-> kind, text |-> text, secret |-> ""] IN
    CASE value.kind = "datetime" -> Marked("datetime", value.format)
      [] value.kind # "datetime" /\ key \in VolatileKeys -> Marked(IF value.kind = "number" THEN "number" ELSE "string", "")
      [] value.kind \in {"uuid", "token"} /\ key \notin VolatileKeys -> Marked(value.kind, "")
      [] OTHER -> [kind |-> value.kind, text |-> value.text, secret |-> value.secret]
NormalizeBody(body) == [key \in DOMAIN body |-> NormalizeValue(key, body[key])]
\* Mutant: two bodies of the same fields are the same body.
DifferingShape(left, right) == (DOMAIN left \ DOMAIN right) \cup (DOMAIN right \ DOMAIN left)
\* The fields in which two normalized bodies differ: absent from one, or of another value.
DifferingPaths(left, right) ==
    {k \in DOMAIN left \cup DOMAIN right : k \in DOMAIN left \cap DOMAIN right => left[k] # right[k]}

\* The steps of an environment's scenario reports, each with its place in its scenario.
StepsFromReports(reports) == FlattenSeq([r \in DOMAIN reports |->
    [i \in DOMAIN reports[r].steps |-> [scenario |-> reports[r].scenario, index |-> i, result |-> reports[r].steps[i]]]])
ComparisonKey(step) == <<step.scenario, step.index>>

\* The differences between two steps of the same place.
Differences(left, right) ==
    {d \in {"OUTCOME", "STATUS", "CONTENT_TYPE", "UNCOMPARED", "BODY"} :
       CASE d = "OUTCOME" -> left.status # right.status
         [] d = "STATUS" -> left.httpStatus # right.httpStatus
         [] d = "CONTENT_TYPE" -> left.answer.type # right.answer.type
         [] d = "UNCOMPARED" -> left.answer.cut \/ right.answer.cut
         [] d = "BODY" -> /\ ~left.answer.cut /\ ~right.answer.cut
                          /\ DifferingPaths(NormalizeBody(left.answer.body), NormalizeBody(right.answer.body)) # {}}
\* Steps are paired by scenario and position; of the subject's steps with one key the last is kept.
CompareExecutions(reference, subject) ==
    LET At(key) == {i \in DOMAIN subject : ComparisonKey(subject[i]) = key}
        keys == {ComparisonKey(s) : s \in ToSet(reference)}
        missing == {i \in DOMAIN reference : At(ComparisonKey(reference[i])) = {}}
        differ == {i \in DOMAIN reference \ missing :
                     Differences(reference[i].result, subject[Max(At(ComparisonKey(reference[i])))].result) # {}}
        extra == {i \in DOMAIN subject : ComparisonKey(subject[i]) \notin keys}
    IN [verdict |-> IF missing \cup differ = {} /\ extra = {} THEN "MATCH" ELSE "MISMATCH",
        differing |-> {ComparisonKey(reference[i]) : i \in missing \cup differ} \cup {ComparisonKey(subject[i]) : i \in extra},
        compared |-> Len(reference), matched |-> Len(reference) - Cardinality(missing \cup differ)]

(*-------------------------------- diagnosis ------------------------------*)
\* The area a failing step points to, judged from its error or from the status it was answered with.
StepArea(result) ==
    CASE result.why \in {"missing", "forbidden"} -> "SCENARIOS"
      [] result.httpStatus \in {401, 403} -> "SCENARIOS"
      [] result.httpStatus >= 500 -> "IMPLEMENTATION"
      [] result.httpStatus = 404 /\ result.expectedStatus # 404 -> "IMPLEMENTATION"
      [] result.httpStatus \in {400, 422} -> "SCENARIOS"
      [] OTHER -> "IMPLEMENTATION"
FailingSteps(reports) ==
    SelectSeq(StepsFromReports(reports), LAMBDA s : s.result.status \in {"FAILED", "ERROR"})
\* The area most failing steps point to, and of two the one met first.
VotedArea(steps) ==
    LET Votes(area) == {i \in DOMAIN steps : StepArea(steps[i].result) = area}
        For == Votes("SCENARIOS")
        Against == Votes("IMPLEMENTATION")
    IN CASE Cardinality(For) > Cardinality(Against) -> "SCENARIOS"
         [] Cardinality(For) = Cardinality(Against) /\ For # {} /\ 1 \in For -> "SCENARIOS"
         [] OTHER -> "IMPLEMENTATION"

\* cause is what the failed step's log and the application's show.
BuildArea(cause) == IF cause \in {"unexecutable", "network"} THEN "INFRASTRUCTURE" ELSE "IMPLEMENTATION"
BootArea(step, cause) ==
    CASE step = "prepare" -> "IMPLEMENTATION"
      [] cause \in {"placeholder", "credentials", "refused", "port"} -> "ENVIRONMENT_MANIFEST"
      [] OTHER -> "IMPLEMENTATION"
DiagnoseHttpE2e(evidence) ==
    LET failure == evidence.failure IN
    CASE failure.class \in {"PLAN_UNRESOLVED", "DEPENDENCY_UNAVAILABLE", "HEALTH_CHECK_FAILED"} -> "ENVIRONMENT_MANIFEST"
      [] failure.class = "INFRASTRUCTURE_UNAVAILABLE" -> "INFRASTRUCTURE"
      [] failure.class = "BUILD_FAILED" -> BuildArea(failure.cause)
      [] failure.class = "ENVIRONMENT_BOOT_FAILED" -> BootArea(failure.step, failure.cause)
      [] failure.class \in {"NO_SCENARIOS", "COVERAGE_INCOMPLETE"} -> "SCENARIOS"
      [] failure.class = "SCENARIO_FAILED" -> VotedArea(FailingSteps(evidence.reports))
      [] failure.class = "CONTRACT_GAP" -> "CONTRACT"
      [] failure.class = "REFERENCE_NOT_PROVEN" -> "REFERENCE"
      [] OTHER -> "IMPLEMENTATION"
=============================================================================
