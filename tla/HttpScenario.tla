---------------------------- MODULE HttpScenario ----------------------------
(***************************************************************************)
(* One validation scenario of the HTTP runner (packages/http-runner/src/   *)
(* index.ts): the registered target it may reach, what a step sends, where *)
(* redirects may lead, what it extracts and asserts, and the status the    *)
(* scenario earns.                                                         *)
(*                                                                         *)
(* A path is a sequence of segments and a segment a sequence of parts: a   *)
(* literal, a parameter of a contract ("{}") or a scenario variable        *)
(* ("{{}}").  A body is a function from the fields it has to their values; *)
(* a value keeps a credential that is part of its text apart.  A variable  *)
(* is a field of an earlier answer, of which its sensitivity is kept.      *)
(***************************************************************************)
EXTENDS Integers, Sequences, SequencesExt, TLC

CONSTANT MaxRedirects   \* scenarioHttpRunnerLimits.maxRedirects

(*------------------------------- the target ------------------------------*)
\* The class of a host, without a name being looked up; an address is four octets.
ClassifyAddress(a, b, c, d) ==
    CASE a = 127 -> "LOOPBACK"
      [] a = 169 /\ b = 254 -> IF <<c, d>> = <<169, 254>> THEN "METADATA" ELSE "LINK_LOCAL"
      [] \/ a \in {0, 10} \/ a >= 224
         \/ a = 172 /\ b \in 16..31
         \/ a = 192 /\ b = 168
         \/ a = 192 /\ b = 0 /\ c \in {0, 2}
         \/ a = 100 /\ b \in 64..127
         \/ a = 198 /\ b \in {18, 19} -> "PRIVATE"
      [] OTHER -> "PUBLIC"
ClassifyHost(host) ==
    CASE host.octets # <<>> -> ClassifyAddress(host.octets[1], host.octets[2], host.octets[3], host.octets[4])
      [] host.name \in {"localhost", "::1"} -> "LOOPBACK"
      [] host.name \in {"metadata.google.internal", "metadata"} -> "METADATA"
      [] host.name \in {"", "::", "internal", "local"} -> "PRIVATE"   \* the last two: the suffixes
      [] OTHER -> "PUBLIC"

\* The base URLs a request may target: those of a registered, active resource outside production.
TargetAllowed(resource) ==
    LET class == ClassifyHost(resource.url.host) IN
    /\ resource.type = "HTTP_API" /\ resource.active /\ resource.environment # "PRODUCTION"
    /\ ~resource.url.credentials /\ ~resource.url.query
    /\ resource.url.scheme \in {"http", "https"}
    /\ \/ class = "LOOPBACK" /\ resource.environment \in {"LOCAL", "SANDBOX"}
       \/ class = "PUBLIC" /\ resource.url.scheme = "https"

\* PolicyEngine.authorize for an action on a registered resource.
PolicyAllows(action, project, resource, permission) ==
    /\ project.mode # "AUTONOMOUS_PRODUCTION"
    /\ action = "EXECUTE" => project.mode # "OBSERVE"
    /\ action \in {"MIGRATE", "NETWORK", "PROVISION", "DESTRUCTIVE"} => project.mode = "AUTONOMOUS_STAGING"
    /\ project.environment = "PRODUCTION" => action \in {"RESOURCE_READ", "ARTIFACT_READ"}
    /\ resource.owned /\ resource.active /\ permission \in resource.permissions
    /\ resource.environment = "PRODUCTION" => action = "RESOURCE_READ"

\* What authorize asks before a scenario sends anything: the policy, the target, and steps that carry
\* no credential of their own.
Authorized(project, resource, scenario) ==
    /\ project.environment # "PRODUCTION"
    /\ PolicyAllows("NETWORK", project, resource, "READ")
    /\ TargetAllowed(resource)
    /\ \A i \in DOMAIN scenario.steps : ~scenario.steps[i].secret

(*-------------------------------- one step -------------------------------*)
\* A URL under the registered base: its origin, and its path below the registered prefix.
Contained(base, url) == url.origin = base.origin /\ IsPrefix(base.path, url.path)

\* The redirects a request follows: each keeps the scheme and the base, and there are few.
FollowedOk(base, hops) ==
    /\ Len(hops) <= MaxRedirects
    /\ \A i \in DOMAIN hops : hops[i].scheme = base.scheme /\ Contained(base, hops[i])

\* Why a step cannot be sent, the first reason met: rendering, the bearer, then the request itself.
Unsendable(step, memory) ==
    CASE step.uses \ DOMAIN memory # {} -> "missing"
      [] \E v \in step.uses : memory[v] = "sensitive" -> "sensitive"
      [] step.bearer # "none" /\ step.bearer \notin DOMAIN memory -> "missing"
      [] step.refused -> "forbidden"
      [] OTHER -> "none"

\* A path as it is sent: every variable is replaced by a value.
Rendered(path) == [i \in DOMAIN path |-> [j \in DOMAIN path[i] |->
                     IF path[i][j] = "{{}}" THEN "value" ELSE path[i][j]]]

\* Extractions are taken in order, and those before one that is not found are kept.
Taken(step, answer) ==
    LET lost == SelectInSeq(step.extract, LAMBDA e : e.field \notin DOMAIN answer.body)
    IN IF lost = 0 THEN step.extract ELSE SubSeq(step.extract, 1, lost - 1)
Remembered(step, answer, memory) ==
    FoldLeft(LAMBDA m, e : (e.name :> IF e.sensitive THEN "sensitive" ELSE "plain") @@ m,
             memory, Taken(step, answer))

Asserted(step, answer) == \A a \in step.asserts :
    CASE a.type = "BODY_FIELD_EXISTS" -> a.field \in DOMAIN answer.body
      [] a.type = "BODY_FIELD_EQUALS" -> a.field \in DOMAIN answer.body /\ answer.body[a.field] = a.value
      [] a.type = "MAX_DURATION_MS" -> ~answer.slow
      [] OTHER -> FALSE

\* What redact leaves of a body: of a field named like a secret, whatever its value, that it was there,
\* and of a credential within a text that there was one.
SecretNames == {"token", "tokenTtl", "secret", "password", "authorization", "apiKey"}   \* fields redact finds by name
Removed == "[REDACTED]"
Hidden(secret) == IF secret = "" THEN "" ELSE Removed
Redacted(body) == [field \in DOMAIN body |->
    IF field \in SecretNames THEN [kind |-> "text", text |-> Removed, format |-> "", secret |-> ""]
    ELSE [kind |-> body[field].kind, text |-> body[field].text, format |-> body[field].format,
          secret |-> Hidden(body[field].secret)]]
\* The evidence of an answer; cut is that its body was too long to read or to keep.
Evidence(answer) ==
    [status |-> answer.status, type |-> answer.type, body |-> Redacted(answer.body), cut |-> answer.cut]

\* The result of a step.  httpStatus is 0 when it is absent, why says what made it an error, and answer
\* is the evidence of what was answered.
Result(step, path, status, httpStatus, why, answer) ==
    [method |-> step.method, path |-> path, status |-> status, httpStatus |-> httpStatus,
     expectedStatus |-> step.expects, why |-> why, answer |-> answer]
NoAnswer == [status |-> 0, type |-> "none", body |-> <<>>, cut |-> FALSE]
ErrorResult(step, why) == Result(step, step.path, "ERROR", 0, why, NoAnswer)
SkippedResult(step) == Result(step, step.path, "SKIPPED", 0, "none", NoAnswer)
StepResult(step, answer) ==
    LET passed == step.expects \in {0, answer.status} /\ Asserted(step, answer) IN
    IF Taken(step, answer) # step.extract THEN ErrorResult(step, "extraction")
    ELSE Result(step, Rendered(step.path), IF passed THEN "PASSED" ELSE "FAILED", answer.status, "none",
                Evidence(answer))

(*------------------------------ the scenario -----------------------------*)
ScenarioStatus(steps) ==
    LET Has(s) == \E i \in DOMAIN steps : steps[i].status = s IN
    IF Has("ERROR") THEN "ERROR" ELSE IF Has("FAILED") THEN "FAILED" ELSE "PASSED"
\* The report of a scenario; the steps after the one that did not pass are skipped.
ScenarioReport(scenario, results) ==
    LET steps == [i \in DOMAIN scenario.steps |->
                    IF i <= Len(results) THEN results[i] ELSE SkippedResult(scenario.steps[i])]
    IN [scenario |-> scenario.name, status |-> ScenarioStatus(steps), steps |-> steps]
=============================================================================
