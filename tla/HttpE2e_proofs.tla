------------------------- MODULE HttpE2e_proofs -------------------------
(***************************************************************************)
(* Theorems about HTTP E2E jobs, for every case: mode, sides, repository,  *)
(* inventory, collection and budgets.  Three invariants, each inductive    *)
(* in its turn:                                                            *)
(*                                                                         *)
(*   RunInv    the set-up is a case's; the phases follow one another; on   *)
(*             the way to an answer the only application that runs is the  *)
(*             side's own; every exchange is with the side's own; a side's *)
(*             evidence is PROVEN exactly when it has no failure           *)
(*   MatchInv  every result that passed has its exchange on the wire; a    *)
(*             collection without failure passed every scenario; sides     *)
(*             that are PROVEN after the comparison are Matched            *)
(*   AnswerInv a collection without failure asked for every operation of   *)
(*             an inventory without gaps; so did every side that is PROVEN *)
(*                                                                         *)
(* Names.  MatchesAreSame takes NamesDiffer: the comparison pairs          *)
(* scenarios by name, and two that share one are compared with the first.  *)
(* Contracts.  ProvenIsAnswered takes RegisteredContractsRead: the         *)
(* inventory of a registered resource leaves out what it cannot read.      *)
(***************************************************************************)
EXTENDS HttpE2e, Iteration, FiniteSetTheorems, SequenceTheorems, TLAPS

(*------------------------------ the invariant ----------------------------*)
Phases == {"queued", "plan", "network", "dependency", "command", "start", "health", "collection", "step",
           "cleanup", "compare", "record", "done"}
Jobs == {"QUEUED", "RUNNING", "SUCCEEDED", "FAILED"}
Budgets == {"none", "collection", "scenario"}
Areas == {"IMPLEMENTATION", "SCENARIOS", "ENVIRONMENT_MANIFEST", "CONTRACT", "INFRASTRUCTURE", "REFERENCE"}
Ended == {"record", "done"}
Prepared == {"network", "dependency", "command", "start", "health", "collection", "step"}
Asking == {"health", "collection", "step"}

SetupFields == {"mode", "verified", "projects", "prefix", "handed", "target", "plans", "inventory", "documentedBy",
                "scenarios"}
SetupOK(st) ==
    /\ DOMAIN st = SetupFields
    /\ \E case \in Cases :
         /\ st.mode = case.mode /\ st.verified = case.verified /\ st.projects = case.projects
         /\ st.plans = SetUp(case).plans /\ st.scenarios = SetUp(case).scenarios
         /\ st.inventory = SetUp(case).inventory

FlowOK(st, j, p, sd, a, sp, fl) ==
    /\ j \in Jobs /\ p \in Phases /\ a \in Nat \ {0} /\ sp \in Budgets
    /\ sd \in DOMAIN st.projects
    /\ p = "compare" => st.mode = "comparison" /\ sd = "subject"
    /\ p \notin Ended \cup {"cleanup"} => fl = NoFailure
    /\ st.mode = "registered" => p \in {"queued", "collection", "step", "cleanup", "done"}
    /\ p = "queued" => a = 1 /\ (st.mode = "comparison" => sd = "reference")
    /\ p \in Prepared /\ st.mode # "registered" => PlanIsExecutable(st.plans[sd])

AppOf(sd) == [side |-> sd, name |-> "app"]
WorldOK(st, p, sd, cs, w) ==
    /\ w \in [DOMAIN w -> BOOLEAN]
    /\ cs \subseteq DOMAIN w
    /\ p \in Asking /\ st.mode # "registered" =>
         \A c \in DOMAIN w : w[c] /\ c.name = "app" => c = AppOf(sd)

WireOK(w) == IsSeq(w) /\ \A x \in ToSet(w) : x.by = x.side

Row(e) == e = [verdict |-> e.verdict, failure |-> e.failure, reports |-> e.reports]
EvidenceOK(st, p, sd, ev) ==
    /\ ev = [s \in DOMAIN ev |-> ev[s]]
    /\ DOMAIN ev \subseteq DOMAIN st.projects
    /\ \A s \in DOMAIN ev : Row(ev[s]) /\ (ev[s].verdict = "PROVEN" <=> ev[s].failure = NoFailure)
    /\ p = "compare" => {"reference", "subject"} \subseteq DOMAIN ev
    /\ st.mode = "comparison" /\ sd = "subject" /\ p \notin Ended => "reference" \in DOMAIN ev

ReportOK(st, p, j, r) ==
    /\ p # "done" => r = NoReport
    /\ r.verdict = "PROVEN" => r.failure = NoFailure /\ j = "SUCCEEDED"
    /\ r.verdict = "NOT_PROVEN" /\ st.mode # "registered" => r.area \in Areas

RegisteredOK == pc = "cleanup" /\ setup.mode = "registered" /\ Verdict.verdict = "PROVEN" => failure = NoFailure

RunInv ==
    /\ SetupOK(setup)
    /\ FlowOK(setup, job, pc, side, at, spent, failure)
    /\ WorldOK(setup, pc, side, containers, world)
    /\ WireOK(wire)
    /\ EvidenceOK(setup, pc, side, evidence)
    /\ ReportOK(setup, pc, job, report)
    /\ RegisteredOK

(*---------------------- what a comparison rests on -----------------------*)
Faithful(step, r) ==
    r.method = step.method /\ r.path = Rendered(step.path) /\ step.expects \in {0, r.httpStatus}
Backed(sc, w, s, i, j, r) ==
    r.status = "PASSED" => /\ \E x \in ToSet(w) : /\ x.side = s /\ x.scenario = i /\ x.step = j
                                                  /\ r.answer = Evidence(x.answer) /\ r.httpStatus = x.answer.status
                           /\ Faithful(sc[i].steps[j], r)
ResultsOK(sc, w, s, i, rs) ==
    /\ IsSeq(rs) /\ Len(rs) <= Len(sc[i].steps)
    /\ \A j \in 1..Len(rs) : rs[j].status \in {"ERROR", "FAILED", "PASSED"} /\ Backed(sc, w, s, i, j, rs[j])
AllPassed(steps) == \A j \in DOMAIN steps : steps[j].status = "PASSED"
OutcomeOK(sc, w, s, i, o) ==
    /\ IsSeq(o.steps)
    /\ i \in DOMAIN sc /\ o.scenario = sc[i].name
    /\ o.status = "PASSED" => DOMAIN o.steps = DOMAIN sc[i].steps /\ AllPassed(o.steps)
    /\ \A j \in DOMAIN o.steps : Backed(sc, w, s, i, j, o.steps[j])
OutcomesOK(sc, w, s, outs) ==
    IsSeq(outs) /\ \A i \in 1..Len(outs) : OutcomeOK(sc, w, s, i, outs[i])
Whole(sc, outs) == Len(outs) = Len(sc) /\ \A i \in 1..Len(outs) : outs[i].status = "PASSED"
(* One scenario, one name: a comparison pairs answers by the name of their scenario. *)
OneNameEach(sc) == \A i, k \in DOMAIN sc : sc[i].name = sc[k].name => i = k
Matched(sc, w) ==
    \A i \in DOMAIN sc : \A j \in DOMAIN sc[i].steps :
      \E x \in ToSet(w), y \in ToSet(w) :
        /\ x.side = "reference" /\ y.side = "subject"
        /\ <<x.scenario, x.step>> = <<i, j>> /\ <<y.scenario, y.step>> = <<i, j>>
        /\ SameAnswers(x.answer, y.answer)

Started(p, a, outs) ==
    /\ p \notin Ended \cup {"collection", "step", "cleanup"} => outs = <<>>
    /\ p \in {"collection", "step"} => Len(outs) = a - 1
StepOK(sc, w, p, sd, a, rs) == p = "step" => a <= Len(sc) /\ ResultsOK(sc, w, sd, a, rs)
EndOK(sc, p, fl, outs) == p = "cleanup" /\ fl = NoFailure => Whole(sc, outs)
SidesOK(sc, w, ev) == \A s \in DOMAIN ev : OutcomesOK(sc, w, s, ev[s].reports)
WholeOK(sc, md, p, ev) ==
    md = "comparison" /\ p \notin Ended => \A s \in DOMAIN ev : ev[s].verdict = "PROVEN" => Whole(sc, ev[s].reports)
ParityOK(sc, w, md, p, ev) ==
    OneNameEach(sc) /\ md = "comparison" /\ p = "record" /\ "subject" \in DOMAIN ev =>
      (ev["subject"].verdict = "PROVEN" => Matched(sc, w))
ReportMatched(sc, w, md, r) == OneNameEach(sc) /\ md = "comparison" /\ r.verdict = "PROVEN" => Matched(sc, w)

MatchInv ==
    /\ OutcomesOK(setup.scenarios, wire, side, outcomes)
    /\ Started(pc, at, outcomes)
    /\ StepOK(setup.scenarios, wire, pc, side, at, results)
    /\ EndOK(setup.scenarios, pc, failure, outcomes)
    /\ SidesOK(setup.scenarios, wire, evidence)
    /\ WholeOK(setup.scenarios, setup.mode, pc, evidence)
    /\ ParityOK(setup.scenarios, wire, setup.mode, pc, evidence)
    /\ ReportMatched(setup.scenarios, wire, setup.mode, report)

(*------------------------- what a verdict rests on -----------------------*)
\* A contract as discovery has it, the operations of an inventory, and what it takes that they document a
\* contract: it leaves no gap, and each operation of it is there.
IsDocument(c) ==
    IsSeq(c.items) /\ \A item \in ToSet(c.items) : IsSeq(item.path) /\ IsSeq(item.operations)
AreOperations(operations) == IsSeq(operations) /\ \A o \in ToSet(operations) : IsSeq(o.path)
Listed(path, o, operations) ==
    o.method \in SupportedMethods => \E k \in ToSet(operations) : k.method = o.method /\ k.path = NormalizeApiPath(path)
Documented(c, operations) ==
    \A item \in ToSet(c.items) :
      ~Unresolved(item) /\ \A o \in ToSet(item.operations) : Listed(item.path, o, operations)

\* The documents of a checkout.
AreDocuments(files) ==
    /\ IsSeq(files)
    /\ \A f \in ToSet(files) :
         /\ f.named \in BOOLEAN /\ f.oversized \in BOOLEAN /\ f.depth \in Nat \ {0}
         /\ f.fate \in {"ok", "unreadable", "unparseable"}
         /\ {"path", "kind", "items"} \subseteq DOMAIN f /\ IsDocument(f)
         /\ \A g \in ToSet(files) : f.path = g.path => f = g
\* An inventory that has read them all and followed the references to files: the operations of each path
\* item are there, and those of the path item behind it.
Followed(files, item) == IF item.ref = "none" THEN {} ELSE Held(files, item.ref)
Reached(c, files, operations) ==
    \A item \in ToSet(c.items) :
      /\ OnlyRef(item) => \E target \in Followed(files, item) : ~OnlyRef(target)
      /\ \A o \in ToSet(item.operations) : Listed(item.path, o, operations)
      /\ \A target \in Followed(files, item) : \A o \in ToSet(target.operations) : Listed(item.path, o, operations)
FilesFollowed(mode, files) == IF mode = "registered" THEN <<>> ELSE files
WholeApi(files, followed, operations) ==
    \A f \in ToSet(files) : ContractCandidate(f) =>
      /\ f.named => f.fate = "ok"
      /\ f.fate = "ok" /\ f.kind = "OPENAPI" => Reached(f, followed, operations)

\* The application of a side was sent a request to the operation and gave the status the request expects.
Asked(st, w, s, o) ==
    \E x \in ToSet(w) : LET step == st.scenarios[x.scenario].steps[x.step] IN
      /\ x.side = s /\ step.method = o.method /\ step.expects \in {0, x.answer.status}
      /\ TemplateMatchScore(o.path, Rendered(step.path)) >= 0
Answered(st, w, s) ==
    /\ st.inventory.known /\ st.inventory.incomplete = {}
    /\ \A o \in ToSet(st.inventory.operations) : Asked(st, w, s, o)
EndAnswered(st, w, p, sd, fl) ==
    p = "cleanup" /\ st.mode # "registered" /\ fl = NoFailure => Answered(st, w, sd)
SidesAnswered(st, w, ev) == \A s \in DOMAIN ev : ev[s].verdict = "PROVEN" => Answered(st, w, s)
BothAnswered(st, w, p, ev) ==
    st.mode = "comparison" /\ p = "record" /\ "subject" \in DOMAIN ev =>
      (ev["subject"].verdict = "PROVEN" => Answered(st, w, "reference"))
ReportAnswered(st, w, r) == r.verdict = "PROVEN" => \A s \in DOMAIN st.projects : Answered(st, w, s)
AnswerInv ==
    /\ EndAnswered(setup, wire, pc, side, failure)
    /\ SidesAnswered(setup, wire, evidence)
    /\ BothAnswered(setup, wire, pc, evidence)
    /\ ReportAnswered(setup, wire, report)

(*------------------------------- hypotheses ------------------------------*)
Lists(sc) == IsSeq(sc) /\ \A i \in DOMAIN sc : IsSeq(sc[i].steps)
NamesDiffer == \A case \in Cases : OneNameEach(SetUp(case).scenarios)
(* What the control plane's artifact holds of a registered project's contracts can be read. *)
RegisteredContractsRead ==
    \A case \in Cases : case.mode = "registered" =>
      \A f \in ToSet(case.projects[case.verified].documents) : ContractCandidate(f) =>
        /\ f.named => f.fate = "ok"
        /\ f.fate = "ok" /\ f.kind = "OPENAPI" => Readable(f)

(*------------------------------- sequences -------------------------------*)

\* A sequence is a function of its places, of its elements.
LEMMA SeqFacts ==
  ASSUME NEW s, IsSeq(s)
  PROVE  Len(s) \in Nat /\ DOMAIN s = 1..Len(s)
  BY DEF IsSeq

\* The empty sequence has no elements.
LEMMA EmptyElements ==
  ASSUME NEW s, s \in Seq({})
  PROVE  ToSet(s) = {}
<1>1. DOMAIN s = {}
  OBVIOUS
<1> QED
  BY <1>1 DEF ToSet

\* It is a sequence of them.
LEMMA NoneIsSeq ==
  ASSUME NEW s, s \in Seq({})
  PROVE  IsSeq(s)
<1>1. s \in Seq(ToSet(s))
  BY EmptyElements
<1> QED
  BY <1>1 DEF IsSeq

\* A sequence with one more element.
LEMMA AppendFacts ==
  ASSUME NEW s, IsSeq(s), NEW x
  PROVE  /\ IsSeq(Append(s, x))
         /\ Len(Append(s, x)) = Len(s) + 1
         /\ ToSet(Append(s, x)) = ToSet(s) \cup {x}
         /\ \A i \in 1..Len(s) : Append(s, x)[i] = s[i]
         /\ Append(s, x)[Len(s) + 1] = x
<1> DEFINE S == ToSet(s) \cup {x}
<1>1. s \in Seq(S)
  <2>1. s \in Seq(ToSet(s))
    BY DEF IsSeq
  <2> QED
    BY <2>1, Z3
<1>2. x \in S
  OBVIOUS
<1> HIDE DEF S
<1> DEFINE t == Append(s, x)
<1>3. /\ t \in Seq(S) /\ Len(t) = Len(s) + 1 /\ Len(s) \in Nat
      /\ \A i \in 1..Len(s) : t[i] = s[i]
      /\ t[Len(s) + 1] = x
  BY <1>1, <1>2
<1>4. DOMAIN t = 1..(Len(s) + 1) /\ DOMAIN s = 1..Len(s)
  BY <1>1, <1>3
<1> HIDE DEF t
<1>5. ToSet(t) = ToSet(s) \cup {x}
  BY <1>3, <1>4 DEF ToSet
<1>6. t \in Seq(ToSet(t))
  BY <1>3, <1>5 DEF S
<1> QED
  BY <1>3, <1>5, <1>6 DEF IsSeq, t

(*------------------------------- the set-up ------------------------------*)

\* The fields of a set-up, and what each is made of.
LEMMA SetUpFields ==
  ASSUME NEW case
  PROVE  /\ DOMAIN SetUp(case) = SetupFields
         /\ SetUp(case).mode = case.mode /\ SetUp(case).verified = case.verified
         /\ SetUp(case).projects = case.projects
         /\ DOMAIN SetUp(case).plans = DOMAIN case.projects
         /\ \A s \in DOMAIN case.projects :
              SetUp(case).plans[s] =
                PlanEnvironment(case.projects[s].files, case.projects[s].manifest, case.projects[s].root)
  BY DEF SetUp, SetupFields

\* A sound set-up is of one of the three modes, and has its sides.
LEMMA SetupModes ==
  ASSUME NEW st, SetupOK(st)
  PROVE  /\ st.mode \in {"environment", "comparison", "registered"}
         /\ st.mode = "comparison" => DOMAIN st.projects = {"reference", "subject"} /\ st.verified = "subject"
         /\ st.mode # "comparison" => DOMAIN st.projects = {st.verified} /\ st.verified # "reference"
  BY CasesAssumption DEF SetupOK

\* Disabling a resource changes nothing else of the set-up.
LEMMA Disabled ==
  ASSUME NEW st, SetupOK(st), NEW u, u = [st EXCEPT !.target.resource.active = FALSE]
  PROVE  /\ SetupOK(u) /\ u.mode = st.mode /\ u.projects = st.projects /\ u.plans = st.plans
         /\ u.scenarios = st.scenarios /\ u.verified = st.verified /\ u.inventory = st.inventory
<1>1. DOMAIN st = SetupFields
  BY DEF SetupOK
<1>2. DOMAIN u = DOMAIN st /\ u.mode = st.mode /\ u.projects = st.projects /\ u.plans = st.plans
      /\ u.scenarios = st.scenarios /\ u.verified = st.verified /\ u.inventory = st.inventory
  BY <1>1 DEF SetupFields
<1> QED
  BY <1>1, <1>2 DEF SetupOK

\* Whatever an environment's failure is, it points to an area.
LEMMA AreaIsNamed ==
  ASSUME NEW e
  PROVE  DiagnoseHttpE2e(e) \in Areas
<1>1. VotedArea(FailingSteps(e.reports)) \in Areas
  <2> DEFINE steps == FailingSteps(e.reports)
  <2> HIDE DEF steps
  <2>1. VotedArea(steps) \in Areas
    BY DEF VotedArea, Areas
  <2> QED
    BY <2>1 DEF steps
<1>2. BuildArea(e.failure.cause) \in Areas
  BY DEF BuildArea, Areas
<1>3. BootArea(e.failure.step, e.failure.cause) \in Areas
  BY DEF BootArea, Areas
<1> QED
  BY <1>1, <1>2, <1>3 DEF DiagnoseHttpE2e, Areas

\* A failure of a run that has none yet is one.
LEMMA FailureIsOne ==
  ASSUME NEW class, class # "none", NEW step, NEW cause
  PROVE  Failure(class, step, cause) # NoFailure
<1>1. PICK f : f = Failure(class, step, cause)
  OBVIOUS
<1>2. f.class = class
  BY <1>1 DEF Failure
<1>3. NoFailure.class = "none"
  BY DEF NoFailure
<1> QED
  BY <1>1, <1>2, <1>3

\* RunInv survives the claim of the job.
LEMMA RunClaim ==
  ASSUME RunInv, Claim
  PROVE  RunInv'
<1>1. SetupOK(setup')
  BY DEF RunInv, Claim, runVars, collectionVars
<1>2. FlowOK(setup', job', pc', side', at', spent', failure')
  BY DEF RunInv, FlowOK, plan, Claim, runVars, collectionVars, Phases, Jobs, Budgets, Ended,
     Prepared, Asking
<1>3. WorldOK(setup', pc', side', containers', world')
  BY DEF RunInv, FlowOK, WorldOK, Claim, runVars, collectionVars, Asking
<1>4. WireOK(wire')
  BY DEF RunInv, Claim, runVars, collectionVars
<1>5. EvidenceOK(setup', pc', side', evidence')
  BY DEF RunInv, FlowOK, EvidenceOK, Claim, runVars, collectionVars, Ended
<1>6. ReportOK(setup', pc', job', report')
  <2>1. setup' = setup /\ ReportOK(setup, pc, job, report) /\ pc = "queued"
    BY DEF Claim, RunInv
  <2>2. CASE job' = "RUNNING" /\ pc' = "plan" /\ report' = report
    BY <2>1, <2>2 DEF ReportOK, NoReport
  <2>3. CASE pc' = "done" /\ report' = [NoReport EXCEPT !.verdict = "NOT_PROVEN", !.area = "INFRASTRUCTURE",
                      !.failure = Failure("INFRASTRUCTURE_UNAVAILABLE", "prepare", "none")]
    <3>1. report'.verdict = "NOT_PROVEN" /\ report'.area = "INFRASTRUCTURE"
      BY <2>3 DEF NoReport
    <3> QED
      BY <2>1, <2>3, <3>1 DEF ReportOK, Areas
  <2> QED
    BY <2>2, <2>3 DEF Claim
<1>7. RegisteredOK'
  BY DEF RunInv, FlowOK, RegisteredOK, Claim, runVars, collectionVars
<1> QED
  BY <1>1, <1>2, <1>3, <1>4, <1>5, <1>6, <1>7 DEF RunInv

\* RunInv survives the recording of evidence.
LEMMA RunRecord ==
  ASSUME RunInv, NEW file, Record(file)
  PROVE  RunInv'
<1>1. SetupOK(setup')
  BY DEF RunInv, Record, runVars, collectionVars
<1>2. FlowOK(setup', job', pc', side', at', spent', failure')
  BY DEF RunInv, FlowOK, plan, Record, runVars, collectionVars, Phases, Jobs, Budgets, Ended,
     Prepared, Asking
<1>3. WorldOK(setup', pc', side', containers', world')
  BY DEF RunInv, FlowOK, WorldOK, Record, runVars, collectionVars, Asking
<1>4. WireOK(wire')
  BY DEF RunInv, Record, runVars, collectionVars
<1>5. EvidenceOK(setup', pc', side', evidence')
  BY DEF RunInv, FlowOK, EvidenceOK, Record, runVars, collectionVars, Ended
<1>6. ReportOK(setup', pc', job', report')
  <2>1. pc' = "done"
    BY DEF Record
  <2>2. ASSUME file = "valid"
        PROVE  ReportOK(setup', pc', job', report')
    <3> DEFINE e == evidence[setup.verified]
    <3>1. setup.verified \in DOMAIN evidence /\ job' = "SUCCEEDED" /\ setup' = setup
      BY <2>2 DEF Record
    <3>2. report'.verdict = e.verdict /\ report'.failure = e.failure
          /\ report'.area = IF e.verdict = "PROVEN" THEN "none" ELSE DiagnoseHttpE2e(e)
      BY <2>2 DEF Record
    <3>3. e.verdict = "PROVEN" => e.failure = NoFailure
      BY <3>1 DEF RunInv, EvidenceOK
    <3> QED
      BY <2>1, <3>1, <3>2, <3>3, AreaIsNamed DEF ReportOK
  <2>3. ASSUME file # "valid"
        PROVE  ReportOK(setup', pc', job', report')
    <3> DEFINE e == [verdict |-> "NOT_PROVEN",
                     failure |-> Failure("INFRASTRUCTURE_UNAVAILABLE", "environment", "none"), reports |-> <<>>]
    <3>1. setup' = setup /\ report'.verdict = e.verdict
          /\ report'.area = IF e.verdict = "PROVEN" THEN "none" ELSE DiagnoseHttpE2e(e)
      BY <2>3 DEF Record
    <3> QED
      BY <2>1, <3>1, AreaIsNamed DEF ReportOK
  <2> QED
    BY <2>2, <2>3
<1>7. RegisteredOK'
  BY DEF RunInv, FlowOK, RegisteredOK, Record, runVars, collectionVars
<1> QED
  BY <1>1, <1>2, <1>3, <1>4, <1>5, <1>6, <1>7 DEF RunInv

\* RunInv survives the death of the environment job.
LEMMA RunEnvironmentDies ==
  ASSUME RunInv, EnvironmentDies
  PROVE  RunInv'
<1>1. SetupOK(setup')
  BY DEF RunInv, EnvironmentDies, runVars, collectionVars
<1>2. FlowOK(setup', job', pc', side', at', spent', failure')
  BY DEF RunInv, FlowOK, plan, EnvironmentDies, runVars, collectionVars, Phases, Jobs, Budgets,
     Ended, Prepared, Asking
<1>3. WorldOK(setup', pc', side', containers', world')
  BY DEF RunInv, FlowOK, WorldOK, EnvironmentDies, runVars, collectionVars, Asking
<1>4. WireOK(wire')
  BY DEF RunInv, EnvironmentDies, runVars, collectionVars
<1>5. EvidenceOK(setup', pc', side', evidence')
  BY DEF RunInv, FlowOK, EvidenceOK, EnvironmentDies, runVars, collectionVars, Ended
<1>6. ReportOK(setup', pc', job', report')
  BY DEF RunInv, FlowOK, ReportOK, NoReport, EnvironmentDies, runVars, collectionVars
<1>7. RegisteredOK'
  BY DEF RunInv, FlowOK, RegisteredOK, EnvironmentDies, runVars, collectionVars
<1> QED
  BY <1>1, <1>2, <1>3, <1>4, <1>5, <1>6, <1>7 DEF RunInv

\* RunInv survives the check of the plan.
LEMMA RunCheckPlan ==
  ASSUME RunInv, CheckPlan
  PROVE  RunInv'
<1>1. SetupOK(setup')
  BY DEF RunInv, CheckPlan, Fail, runVars, collectionVars
<1>2. FlowOK(setup', job', pc', side', at', spent', failure')
  BY DEF RunInv, FlowOK, plan, CheckPlan, Fail, runVars, collectionVars, Phases, Jobs, Budgets,
     Ended, Prepared, Asking
<1>3. WorldOK(setup', pc', side', containers', world')
  BY DEF RunInv, FlowOK, WorldOK, CheckPlan, Fail, runVars, collectionVars, Asking
<1>4. WireOK(wire')
  BY DEF RunInv, CheckPlan, Fail, runVars, collectionVars
<1>5. EvidenceOK(setup', pc', side', evidence')
  BY DEF RunInv, FlowOK, EvidenceOK, CheckPlan, Fail, runVars, collectionVars, Ended
<1>6. ReportOK(setup', pc', job', report')
  BY DEF RunInv, FlowOK, ReportOK, NoReport, CheckPlan, Fail, runVars, collectionVars
<1>7. RegisteredOK'
  BY DEF RunInv, FlowOK, RegisteredOK, CheckPlan, Fail, runVars, collectionVars
<1> QED
  BY <1>1, <1>2, <1>3, <1>4, <1>5, <1>6, <1>7 DEF RunInv

\* RunInv survives the preparation of the runtime.
LEMMA RunPrepareRuntime ==
  ASSUME RunInv, PrepareRuntime
  PROVE  RunInv'
<1>1. SetupOK(setup')
  BY DEF RunInv, PrepareRuntime, Fail, runVars, collectionVars
<1>2. FlowOK(setup', job', pc', side', at', spent', failure')
  BY DEF RunInv, FlowOK, plan, PrepareRuntime, Fail, runVars, collectionVars, Phases, Jobs,
     Budgets, Ended, Prepared, Asking
<1>3. WorldOK(setup', pc', side', containers', world')
  BY DEF RunInv, FlowOK, WorldOK, PrepareRuntime, Fail, runVars, collectionVars, Asking
<1>4. WireOK(wire')
  BY DEF RunInv, PrepareRuntime, Fail, runVars, collectionVars
<1>5. EvidenceOK(setup', pc', side', evidence')
  BY DEF RunInv, FlowOK, EvidenceOK, PrepareRuntime, Fail, runVars, collectionVars, Ended
<1>6. ReportOK(setup', pc', job', report')
  BY DEF RunInv, FlowOK, ReportOK, NoReport, PrepareRuntime, Fail, runVars, collectionVars
<1>7. RegisteredOK'
  BY DEF RunInv, FlowOK, RegisteredOK, PrepareRuntime, Fail, runVars, collectionVars
<1> QED
  BY <1>1, <1>2, <1>3, <1>4, <1>5, <1>6, <1>7 DEF RunInv

\* RunInv survives the start of a dependency.
LEMMA RunStartDependency ==
  ASSUME RunInv, StartDependency
  PROVE  RunInv'
<1>1. SetupOK(setup')
  BY DEF RunInv, StartDependency, Fail, runVars, collectionVars
<1>2. FlowOK(setup', job', pc', side', at', spent', failure')
  BY DEF RunInv, FlowOK, plan, StartDependency, Fail, runVars, collectionVars, Phases, Jobs,
     Budgets, Ended, Prepared, Asking
<1>3. WorldOK(setup', pc', side', containers', world')
  <2>1. WorldOK(setup, pc, side, containers, world) /\ setup' = setup /\ side' = side
    BY DEF RunInv, StartDependency
  <2>2. ASSUME NEW c, NEW b \in BOOLEAN, world' = Placed(c, b)
        PROVE  /\ DOMAIN world' = DOMAIN world \cup {c}
               /\ world' \in [DOMAIN world' -> BOOLEAN]
               /\ \A d \in DOMAIN world' : world'[d] = IF d = c THEN b ELSE world[d]
    BY <2>1, <2>2 DEF Placed, WorldOK
  <2>3. CASE world' = world /\ containers' = containers
    BY <2>1, <2>3 DEF StartDependency, Fail, WorldOK, Asking
  <2>4. CASE world' = Placed(Service(at), TRUE) /\ containers' = containers \cup {Service(at)}
    <3>1. pc' \notin Asking
      BY DEF StartDependency, Fail, Asking
    <3>2. world' \in [DOMAIN world' -> BOOLEAN]
      BY <2>2, <2>4
    <3>3. containers' \subseteq DOMAIN world'
      <4>1. containers \subseteq DOMAIN world
        BY <2>1 DEF WorldOK
      <4>2. DOMAIN world' = DOMAIN world \cup {Service(at)}
        BY <2>2, <2>4
      <4> QED
        BY <2>4, <4>1, <4>2
    <3> QED
      BY <3>1, <3>2, <3>3 DEF WorldOK
  <2>5. CASE world' = Placed(Service(at), FALSE) /\ containers' = containers
    <3>1. pc' \notin Asking
      BY DEF StartDependency, Fail, Asking
    <3>2. world' \in [DOMAIN world' -> BOOLEAN]
      BY <2>2, <2>5
    <3>3. containers' \subseteq DOMAIN world'
      <4>1. containers \subseteq DOMAIN world
        BY <2>1 DEF WorldOK
      <4>2. DOMAIN world' = DOMAIN world \cup {Service(at)}
        BY <2>2, <2>5
      <4> QED
        BY <2>5, <4>1, <4>2
    <3> QED
      BY <3>1, <3>2, <3>3 DEF WorldOK
  <2> QED
    BY <2>3, <2>4, <2>5 DEF StartDependency, DockerRuns, DockerFails
<1>4. WireOK(wire')
  BY DEF RunInv, StartDependency, Fail, runVars, collectionVars
<1>5. EvidenceOK(setup', pc', side', evidence')
  BY DEF RunInv, FlowOK, EvidenceOK, StartDependency, Fail, runVars, collectionVars, Ended
<1>6. ReportOK(setup', pc', job', report')
  BY DEF RunInv, FlowOK, ReportOK, NoReport, StartDependency, Fail, runVars, collectionVars
<1>7. RegisteredOK'
  BY DEF RunInv, FlowOK, RegisteredOK, StartDependency, Fail, runVars, collectionVars
<1> QED
  BY <1>1, <1>2, <1>3, <1>4, <1>5, <1>6, <1>7 DEF RunInv

\* RunInv survives a command.
LEMMA RunRunCommand ==
  ASSUME RunInv, RunCommand
  PROVE  RunInv'
<1>1. SetupOK(setup')
  BY DEF RunInv, RunCommand, Fail, runVars, collectionVars
<1>2. FlowOK(setup', job', pc', side', at', spent', failure')
  BY DEF RunInv, FlowOK, plan, RunCommand, Fail, runVars, collectionVars, Phases, Jobs, Budgets,
     Ended, Prepared, Asking
<1>3. WorldOK(setup', pc', side', containers', world')
  BY DEF RunInv, FlowOK, WorldOK, RunCommand, Fail, runVars, collectionVars, Asking
<1>4. WireOK(wire')
  BY DEF RunInv, RunCommand, Fail, runVars, collectionVars
<1>5. EvidenceOK(setup', pc', side', evidence')
  BY DEF RunInv, FlowOK, EvidenceOK, RunCommand, Fail, runVars, collectionVars, Ended
<1>6. ReportOK(setup', pc', job', report')
  BY DEF RunInv, FlowOK, ReportOK, NoReport, RunCommand, Fail, runVars, collectionVars
<1>7. RegisteredOK'
  BY DEF RunInv, FlowOK, RegisteredOK, RunCommand, Fail, runVars, collectionVars
<1> QED
  BY <1>1, <1>2, <1>3, <1>4, <1>5, <1>6, <1>7 DEF RunInv

\* RunInv survives the start of the application.
LEMMA RunStartApplication ==
  ASSUME RunInv, StartApplication
  PROVE  RunInv'
<1>1. SetupOK(setup')
  BY DEF RunInv, StartApplication, Fail, runVars, collectionVars
<1>2. FlowOK(setup', job', pc', side', at', spent', failure')
  BY DEF RunInv, FlowOK, plan, StartApplication, Fail, runVars, collectionVars, Phases, Jobs,
     Budgets, Ended, Prepared, Asking
<1>3. WorldOK(setup', pc', side', containers', world')
  <2>1. WorldOK(setup, pc, side, containers, world) /\ setup' = setup /\ side' = side
    BY DEF RunInv, StartApplication
  <2>2. ASSUME NEW c, NEW b \in BOOLEAN, world' = Placed(c, b)
        PROVE  /\ DOMAIN world' = DOMAIN world \cup {c}
               /\ world' \in [DOMAIN world' -> BOOLEAN]
               /\ \A d \in DOMAIN world' : world'[d] = IF d = c THEN b ELSE world[d]
    BY <2>1, <2>2 DEF Placed, WorldOK
  <2>3. CASE world' = world /\ containers' = containers /\ pc' = "cleanup"
    BY <2>1, <2>3 DEF WorldOK, Asking
  <2>4. CASE Listeners = {} /\ world' = Placed(App, TRUE) /\ containers' = containers \cup {App}
    <3>1. App = AppOf(side)
      BY DEF App, AppOf
    <3>2. \A c \in DOMAIN world : ~(world[c] /\ c.name = "app")
      BY <2>4 DEF Listeners, Running
    <3>0. /\ DOMAIN world' = DOMAIN world \cup {App}
          /\ \A d \in DOMAIN world' : world'[d] = IF d = App THEN TRUE ELSE world[d]
      BY <2>2, <2>4
    <3>3. \A c \in DOMAIN world' : world'[c] /\ c.name = "app" => c = AppOf(side)
      <4> SUFFICES ASSUME NEW c \in DOMAIN world', world'[c], c.name = "app"
                   PROVE  c = App
        BY <3>1
      <4>1. CASE c = App
        BY <4>1
      <4>2. CASE c # App
        <5>1. c \in DOMAIN world /\ world'[c] = world[c]
          BY <3>0, <4>2
        <5> QED
          BY <3>2, <5>1
      <4> QED
        BY <4>1, <4>2
    <3>4. /\ world' \in [DOMAIN world' -> BOOLEAN]
          /\ containers' \subseteq DOMAIN world'
      <4>1. containers \subseteq DOMAIN world
        BY <2>1 DEF WorldOK
      <4>2. world' \in [DOMAIN world' -> BOOLEAN]
        BY <2>2, <2>4
      <4> QED
        BY <2>4, <3>0, <4>1, <4>2
    <3> QED
      BY <2>1, <3>3, <3>4 DEF WorldOK
  <2>5. CASE world' = Placed(App, FALSE) /\ containers' = containers /\ pc' = "cleanup"
    BY <2>1, <2>2, <2>5 DEF WorldOK, Asking
  <2>6. App.name = "app"
    BY DEF App
  <2> QED
    BY <2>3, <2>4, <2>5, <2>6 DEF StartApplication, DockerRuns, DockerFails, Fail
<1>4. WireOK(wire')
  BY DEF RunInv, StartApplication, Fail, runVars, collectionVars
<1>5. EvidenceOK(setup', pc', side', evidence')
  BY DEF RunInv, FlowOK, EvidenceOK, StartApplication, Fail, runVars, collectionVars, Ended
<1>6. ReportOK(setup', pc', job', report')
  BY DEF RunInv, FlowOK, ReportOK, NoReport, StartApplication, Fail, runVars, collectionVars
<1>7. RegisteredOK'
  BY DEF RunInv, FlowOK, RegisteredOK, StartApplication, Fail, runVars, collectionVars
<1> QED
  BY <1>1, <1>2, <1>3, <1>4, <1>5, <1>6, <1>7 DEF RunInv

\* RunInv survives the exit of the application.
LEMMA RunApplicationExits ==
  ASSUME RunInv, ApplicationExits
  PROVE  RunInv'
<1>1. SetupOK(setup')
  BY DEF RunInv, ApplicationExits, runVars, collectionVars
<1>2. FlowOK(setup', job', pc', side', at', spent', failure')
  BY DEF RunInv, FlowOK, plan, ApplicationExits, runVars, collectionVars, Phases, Jobs, Budgets,
     Ended, Prepared, Asking
<1>3. WorldOK(setup', pc', side', containers', world')
  BY DEF RunInv, FlowOK, WorldOK, ApplicationExits, runVars, collectionVars, Asking
<1>4. WireOK(wire')
  BY DEF RunInv, ApplicationExits, runVars, collectionVars
<1>5. EvidenceOK(setup', pc', side', evidence')
  BY DEF RunInv, FlowOK, EvidenceOK, ApplicationExits, runVars, collectionVars, Ended
<1>6. ReportOK(setup', pc', job', report')
  BY DEF RunInv, FlowOK, ReportOK, NoReport, ApplicationExits, runVars, collectionVars
<1>7. RegisteredOK'
  BY DEF RunInv, FlowOK, RegisteredOK, ApplicationExits, runVars, collectionVars
<1> QED
  BY <1>1, <1>2, <1>3, <1>4, <1>5, <1>6, <1>7 DEF RunInv

\* RunInv survives the wait for health.
LEMMA RunWaitForHealth ==
  ASSUME RunInv, WaitForHealth
  PROVE  RunInv'
<1>1. SetupOK(setup')
  BY DEF RunInv, WaitForHealth, Fail, runVars, collectionVars
<1>2. FlowOK(setup', job', pc', side', at', spent', failure')
  BY DEF RunInv, FlowOK, plan, WaitForHealth, Fail, runVars, collectionVars, Phases, Jobs,
     Budgets, Ended, Prepared, Asking
<1>3. WorldOK(setup', pc', side', containers', world')
  BY DEF RunInv, FlowOK, WorldOK, WaitForHealth, Fail, runVars, collectionVars, Asking
<1>4. WireOK(wire')
  BY DEF RunInv, WaitForHealth, Fail, runVars, collectionVars
<1>5. EvidenceOK(setup', pc', side', evidence')
  BY DEF RunInv, FlowOK, EvidenceOK, WaitForHealth, Fail, runVars, collectionVars, Ended
<1>6. ReportOK(setup', pc', job', report')
  BY DEF RunInv, FlowOK, ReportOK, NoReport, WaitForHealth, Fail, runVars, collectionVars
<1>7. RegisteredOK'
  BY DEF RunInv, FlowOK, RegisteredOK, WaitForHealth, Fail, runVars, collectionVars
<1> QED
  BY <1>1, <1>2, <1>3, <1>4, <1>5, <1>6, <1>7 DEF RunInv

\* RunInv survives a budget that runs out.
LEMMA RunBudgetPasses ==
  ASSUME RunInv, BudgetPasses
  PROVE  RunInv'
<1>1. SetupOK(setup')
  BY DEF RunInv, BudgetPasses, runVars, collectionVars
<1>2. FlowOK(setup', job', pc', side', at', spent', failure')
  BY DEF RunInv, FlowOK, plan, BudgetPasses, runVars, collectionVars, Phases, Jobs, Budgets,
     Ended, Prepared, Asking
<1>3. WorldOK(setup', pc', side', containers', world')
  BY DEF RunInv, FlowOK, WorldOK, BudgetPasses, runVars, collectionVars, Asking
<1>4. WireOK(wire')
  BY DEF RunInv, BudgetPasses, runVars, collectionVars
<1>5. EvidenceOK(setup', pc', side', evidence')
  BY DEF RunInv, FlowOK, EvidenceOK, BudgetPasses, runVars, collectionVars, Ended
<1>6. ReportOK(setup', pc', job', report')
  BY DEF RunInv, FlowOK, ReportOK, NoReport, BudgetPasses, runVars, collectionVars
<1>7. RegisteredOK'
  BY DEF RunInv, FlowOK, RegisteredOK, BudgetPasses, runVars, collectionVars
<1> QED
  BY <1>1, <1>2, <1>3, <1>4, <1>5, <1>6, <1>7 DEF RunInv

\* RunInv survives the next scenario.
LEMMA RunNextScenario ==
  ASSUME RunInv, NextScenario
  PROVE  RunInv'
<1>1. SetupOK(setup')
  BY DEF RunInv, NextScenario, runVars, collectionVars
<1>2. FlowOK(setup', job', pc', side', at', spent', failure')
  BY DEF RunInv, FlowOK, plan, NextScenario, runVars, collectionVars, Phases, Jobs, Budgets,
     Ended, Prepared, Asking
<1>3. WorldOK(setup', pc', side', containers', world')
  BY DEF RunInv, FlowOK, WorldOK, NextScenario, runVars, collectionVars, Asking
<1>4. WireOK(wire')
  BY DEF RunInv, NextScenario, runVars, collectionVars
<1>5. EvidenceOK(setup', pc', side', evidence')
  BY DEF RunInv, FlowOK, EvidenceOK, NextScenario, runVars, collectionVars, Ended
<1>6. ReportOK(setup', pc', job', report')
  BY DEF RunInv, FlowOK, ReportOK, NoReport, NextScenario, runVars, collectionVars
<1>7. RegisteredOK'
  BY DEF RunInv, FlowOK, RegisteredOK, NextScenario, runVars, collectionVars
<1> QED
  BY <1>1, <1>2, <1>3, <1>4, <1>5, <1>6, <1>7 DEF RunInv

\* RunInv survives a step that is refused.
LEMMA RunRefuseStep ==
  ASSUME RunInv, RefuseStep
  PROVE  RunInv'
<1>1. SetupOK(setup')
  BY DEF RunInv, RefuseStep, runVars, collectionVars
<1>2. FlowOK(setup', job', pc', side', at', spent', failure')
  BY DEF RunInv, FlowOK, plan, RefuseStep, runVars, collectionVars, Phases, Jobs, Budgets,
     Ended, Prepared, Asking
<1>3. WorldOK(setup', pc', side', containers', world')
  BY DEF RunInv, FlowOK, WorldOK, RefuseStep, runVars, collectionVars, Asking
<1>4. WireOK(wire')
  BY DEF RunInv, RefuseStep, runVars, collectionVars
<1>5. EvidenceOK(setup', pc', side', evidence')
  BY DEF RunInv, FlowOK, EvidenceOK, RefuseStep, runVars, collectionVars, Ended
<1>6. ReportOK(setup', pc', job', report')
  BY DEF RunInv, FlowOK, ReportOK, NoReport, RefuseStep, runVars, collectionVars
<1>7. RegisteredOK'
  BY DEF RunInv, FlowOK, RegisteredOK, RefuseStep, runVars, collectionVars
<1> QED
  BY <1>1, <1>2, <1>3, <1>4, <1>5, <1>6, <1>7 DEF RunInv

\* RunInv survives a step that is sent.
LEMMA RunSendStep ==
  ASSUME RunInv, SendStep
  PROVE  RunInv'
<1>1. SetupOK(setup')
  BY DEF RunInv, SendStep, Sendable, runVars, collectionVars
<1>2. FlowOK(setup', job', pc', side', at', spent', failure')
  BY DEF RunInv, FlowOK, plan, SendStep, Sendable, runVars, collectionVars, Phases, Jobs,
     Budgets, Ended, Prepared, Asking
<1>3. WorldOK(setup', pc', side', containers', world')
  BY DEF RunInv, FlowOK, WorldOK, SendStep, Sendable, runVars, collectionVars, Asking
<1>4. WireOK(wire')
  <2>1. pc = "step" /\ WireOK(wire) /\ SetupOK(setup)
    BY DEF RunInv, SendStep, Sendable
  <2>2. PICK listener \in (IF setup.mode = "registered" THEN {App} ELSE Listeners) :
        \E answer \in Route(setup.projects[listener.side], Step) :
          wire' = Append(wire, [side |-> side, by |-> listener.side, scenario |-> at,
                                step |-> Len(results) + 1, answer |-> answer])
    BY DEF SendStep
  <2>3. PICK answer :
          wire' = Append(wire, [side |-> side, by |-> listener.side, scenario |-> at,
                                step |-> Len(results) + 1, answer |-> answer])
    BY <2>2
  <2>4. listener.side = side
    <3>1. CASE setup.mode = "registered"
      BY <2>2, <3>1 DEF App
    <3>2. CASE setup.mode # "registered"
      <4>1. listener \in DOMAIN world /\ world[listener] /\ listener.name = "app"
        BY <2>2, <3>2 DEF Listeners, Running
      <4>2. listener = AppOf(side)
        BY <2>1, <3>2, <4>1 DEF RunInv, WorldOK, Asking
      <4> QED
        BY <4>2 DEF AppOf
    <3> QED
      BY <3>1, <3>2
  <2> DEFINE x == [side |-> side, by |-> listener.side, scenario |-> at, step |-> Len(results) + 1, answer |-> answer]
  <2>5. x.by = x.side
    BY <2>4
  <2> HIDE DEF x
  <2>6. wire' = Append(wire, x)
    BY <2>3 DEF x
  <2> QED
    BY <2>1, <2>5, <2>6, AppendFacts DEF WireOK
<1>5. EvidenceOK(setup', pc', side', evidence')
  BY DEF RunInv, FlowOK, EvidenceOK, SendStep, Sendable, runVars, collectionVars, Ended
<1>6. ReportOK(setup', pc', job', report')
  BY DEF RunInv, FlowOK, ReportOK, NoReport, SendStep, Sendable, runVars, collectionVars
<1>7. RegisteredOK'
  BY DEF RunInv, FlowOK, RegisteredOK, SendStep, Sendable, runVars, collectionVars
<1> QED
  BY <1>1, <1>2, <1>3, <1>4, <1>5, <1>6, <1>7 DEF RunInv

\* RunInv survives a step that is lost.
LEMMA RunLoseStep ==
  ASSUME RunInv, LoseStep
  PROVE  RunInv'
<1>1. SetupOK(setup')
  BY DEF RunInv, LoseStep, Sendable, runVars, collectionVars
<1>2. FlowOK(setup', job', pc', side', at', spent', failure')
  BY DEF RunInv, FlowOK, plan, LoseStep, Sendable, runVars, collectionVars, Phases, Jobs,
     Budgets, Ended, Prepared, Asking
<1>3. WorldOK(setup', pc', side', containers', world')
  BY DEF RunInv, FlowOK, WorldOK, LoseStep, Sendable, runVars, collectionVars, Asking
<1>4. WireOK(wire')
  BY DEF RunInv, LoseStep, Sendable, runVars, collectionVars
<1>5. EvidenceOK(setup', pc', side', evidence')
  BY DEF RunInv, FlowOK, EvidenceOK, LoseStep, Sendable, runVars, collectionVars, Ended
<1>6. ReportOK(setup', pc', job', report')
  BY DEF RunInv, FlowOK, ReportOK, NoReport, LoseStep, Sendable, runVars, collectionVars
<1>7. RegisteredOK'
  BY DEF RunInv, FlowOK, RegisteredOK, LoseStep, Sendable, runVars, collectionVars
<1> QED
  BY <1>1, <1>2, <1>3, <1>4, <1>5, <1>6, <1>7 DEF RunInv

\* RunInv survives the end of a scenario.
LEMMA RunEndScenario ==
  ASSUME RunInv, EndScenario
  PROVE  RunInv'
<1>1. SetupOK(setup')
  BY DEF RunInv, EndScenario, runVars, collectionVars
<1>2. FlowOK(setup', job', pc', side', at', spent', failure')
  BY DEF RunInv, FlowOK, plan, EndScenario, runVars, collectionVars, Phases, Jobs, Budgets,
     Ended, Prepared, Asking
<1>3. WorldOK(setup', pc', side', containers', world')
  BY DEF RunInv, FlowOK, WorldOK, EndScenario, runVars, collectionVars, Asking
<1>4. WireOK(wire')
  BY DEF RunInv, EndScenario, runVars, collectionVars
<1>5. EvidenceOK(setup', pc', side', evidence')
  BY DEF RunInv, FlowOK, EvidenceOK, EndScenario, runVars, collectionVars, Ended
<1>6. ReportOK(setup', pc', job', report')
  BY DEF RunInv, FlowOK, ReportOK, NoReport, EndScenario, runVars, collectionVars
<1>7. RegisteredOK'
  BY DEF RunInv, FlowOK, RegisteredOK, EndScenario, runVars, collectionVars
<1> QED
  BY <1>1, <1>2, <1>3, <1>4, <1>5, <1>6, <1>7 DEF RunInv

\* RunInv survives the end of the collection.
LEMMA RunEndCollection ==
  ASSUME RunInv, EndCollection
  PROVE  RunInv'
<1>1. SetupOK(setup')
  BY DEF RunInv, EndCollection, Fail, runVars, collectionVars
<1>2. FlowOK(setup', job', pc', side', at', spent', failure')
  BY DEF RunInv, FlowOK, plan, EndCollection, Fail, runVars, collectionVars, Phases, Jobs,
     Budgets, Ended, Prepared, Asking
<1>3. WorldOK(setup', pc', side', containers', world')
  BY DEF RunInv, FlowOK, WorldOK, EndCollection, Fail, runVars, collectionVars, Asking
<1>4. WireOK(wire')
  BY DEF RunInv, EndCollection, Fail, runVars, collectionVars
<1>5. EvidenceOK(setup', pc', side', evidence')
  BY DEF RunInv, FlowOK, EvidenceOK, EndCollection, Fail, runVars, collectionVars, Ended
<1>6. ReportOK(setup', pc', job', report')
  BY DEF RunInv, FlowOK, ReportOK, NoReport, EndCollection, Fail, runVars, collectionVars
<1>7. RegisteredOK'
  <2>1. Verdict' = Verdict
    BY DEF EndCollection, collectionVars, Verdict, Number, Coverage, Requests
  <2>2. pc = "collection" /\ failure = NoFailure
    BY DEF EndCollection, RunInv, FlowOK, Ended
  <2>3. Verdict.verdict = "PROVEN" => failure' = failure
    BY DEF EndCollection
  <2> QED
    BY <2>1, <2>2, <2>3 DEF RegisteredOK
<1> QED
  BY <1>1, <1>2, <1>3, <1>4, <1>5, <1>6, <1>7 DEF RunInv

\* RunInv survives the cleanup.
LEMMA RunCleanup ==
  ASSUME RunInv, Cleanup, setup.mode # "registered"
  PROVE  RunInv'
<1>0. /\ setup' = setup /\ pc = "cleanup" /\ setup.mode \in {"environment", "comparison"}
      /\ side \in DOMAIN setup.projects
      /\ setup.mode = "comparison" => DOMAIN setup.projects = {"reference", "subject"}
      /\ setup.mode = "environment" => side # "reference"
  BY SetupModes DEF Cleanup, RunInv, FlowOK
<1>1. SetupOK(setup')
  BY DEF RunInv, Cleanup, runVars, collectionVars
<1>2. FlowOK(setup', job', pc', side', at', spent', failure')
  BY <1>0 DEF Cleanup, RunInv, FlowOK, Phases, Jobs, Budgets, Ended, Prepared
<1>3. WorldOK(setup', pc', side', containers', world')
  <2>1. WorldOK(setup, pc, side, containers, world) /\ pc' \notin Asking /\ containers' = {}
    BY DEF RunInv, Cleanup, Asking
  <2>2. PICK names : world' = Without(names)
    BY DEF Cleanup
  <2>3. world' \in [DOMAIN world' -> BOOLEAN]
    BY <2>1, <2>2 DEF Without, WorldOK
  <2> QED
    BY <2>1, <2>3 DEF WorldOK
<1>4. WireOK(wire')
  BY DEF RunInv, Cleanup, runVars, collectionVars
<1>5. EvidenceOK(setup', pc', side', evidence')
  <2> DEFINE row == [verdict |-> IF failure = NoFailure THEN "PROVEN" ELSE "NOT_PROVEN", failure |-> failure,
                     reports |-> outcomes]
  <2>1. Row(row) /\ (row.verdict = "PROVEN" <=> row.failure = NoFailure)
    BY DEF Row
  <2> HIDE DEF row
  <2>2. evidence' = [s \in DOMAIN evidence \cup {side} |-> IF s # side THEN evidence[s] ELSE row]
    BY DEF Cleanup, row
  <2>3. EvidenceOK(setup, pc, side, evidence)
    BY DEF RunInv
  <2>4. /\ DOMAIN evidence' = DOMAIN evidence \cup {side}
        /\ \A s \in DOMAIN evidence' : evidence'[s] = IF s # side THEN evidence[s] ELSE row
        /\ evidence' = [s \in DOMAIN evidence' |-> evidence'[s]]
    BY <2>2
  <2>5. \A s \in DOMAIN evidence' : Row(evidence'[s]) /\ (evidence'[s].verdict = "PROVEN" <=> evidence'[s].failure = NoFailure)
    BY <2>1, <2>3, <2>4 DEF EvidenceOK
  <2>6. /\ pc' = "compare" => {"reference", "subject"} \subseteq DOMAIN evidence'
        /\ setup.mode = "comparison" /\ side' = "subject" => "reference" \in DOMAIN evidence'
    BY <1>0, <2>3, <2>4 DEF EvidenceOK, Cleanup, Ended
  <2>7. DOMAIN evidence' \subseteq DOMAIN setup.projects
    BY <1>0, <2>3, <2>4 DEF EvidenceOK
  <2> QED
    BY <1>0, <2>4, <2>5, <2>6, <2>7 DEF EvidenceOK
<1>6. ReportOK(setup', pc', job', report')
  BY DEF RunInv, FlowOK, ReportOK, NoReport, Cleanup, runVars, collectionVars
<1>7. RegisteredOK'
  BY DEF RunInv, FlowOK, RegisteredOK, Cleanup, runVars, collectionVars
<1> QED
  BY <1>1, <1>2, <1>3, <1>4, <1>5, <1>6, <1>7 DEF RunInv

\* RunInv survives the comparison.
LEMMA RunCompare ==
  ASSUME RunInv, Compare
  PROVE  RunInv'
<1>1. SetupOK(setup')
  BY DEF RunInv, Compare, runVars, collectionVars
<1>2. FlowOK(setup', job', pc', side', at', spent', failure')
  BY DEF RunInv, FlowOK, plan, Compare, runVars, collectionVars, Phases, Jobs, Budgets, Ended,
     Prepared, Asking
<1>3. WorldOK(setup', pc', side', containers', world')
  BY DEF RunInv, FlowOK, WorldOK, Compare, runVars, collectionVars, Asking
<1>4. WireOK(wire')
  BY DEF RunInv, Compare, runVars, collectionVars
<1>5. EvidenceOK(setup', pc', side', evidence')
  <2>1. pc = "compare" /\ pc' = "record" /\ setup' = setup /\ side' = side /\ EvidenceOK(setup, pc, side, evidence)
    BY DEF Compare, RunInv
  <2>2. {"reference", "subject"} \subseteq DOMAIN evidence
    BY <2>1 DEF EvidenceOK
  <2>3. PICK first : evidence' = [evidence EXCEPT !["subject"].failure = first,
                                     !["subject"].verdict = IF first = NoFailure THEN "PROVEN" ELSE "NOT_PROVEN"]
    BY DEF Compare
  <2> DEFINE old == evidence["subject"]
             row == [verdict |-> IF first = NoFailure THEN "PROVEN" ELSE "NOT_PROVEN", failure |-> first,
                     reports |-> old.reports]
  <2>4. Row(old)
    BY <2>1, <2>2 DEF EvidenceOK
  <2>5. evidence' = [evidence EXCEPT !["subject"] = row]
    <3>1. [[old EXCEPT !.failure = first] EXCEPT !.verdict = IF first = NoFailure THEN "PROVEN" ELSE "NOT_PROVEN"] = row
      <4>1. PICK v : v = IF first = NoFailure THEN "PROVEN" ELSE "NOT_PROVEN"
        OBVIOUS
      <4>2. PICK o : o = old
        OBVIOUS
      <4>3. PICK a, b, c : o = [verdict |-> a, failure |-> b, reports |-> c]
        BY <2>4, <4>2 DEF Row
      <4>4. PICK p : p = [o EXCEPT !.failure = first]
        OBVIOUS
      <4>5. p = [verdict |-> a, failure |-> first, reports |-> c]
        BY <4>3, <4>4
      <4>6. [p EXCEPT !.verdict = v] = [verdict |-> v, failure |-> first, reports |-> c]
        BY <4>5
      <4>7. o.reports = c
        BY <4>3
      <4> QED
        BY <4>1, <4>2, <4>4, <4>6, <4>7
    <3>2. evidence' = [evidence EXCEPT !["subject"] = [[old EXCEPT !.failure = first] EXCEPT !.verdict = IF first = NoFailure THEN "PROVEN" ELSE "NOT_PROVEN"]]
      <4>1. PICK sub : sub = "subject"
        OBVIOUS
      <4>2. PICK v : v = IF first = NoFailure THEN "PROVEN" ELSE "NOT_PROVEN"
        OBVIOUS
      <4>3. evidence' = [evidence EXCEPT ![sub].failure = first, ![sub].verdict = v]
        BY <2>3, <4>1, <4>2
      <4>4. sub \in DOMAIN evidence
        BY <2>2, <4>1
      <4>5. evidence' = [evidence EXCEPT ![sub] = [[evidence[sub] EXCEPT !.failure = first] EXCEPT !.verdict = v]]
        BY <4>3, <4>4
      <4> QED
        BY <4>1, <4>2, <4>5
    <3> QED
      BY <3>1, <3>2
  <2>6. Row(row) /\ (row.verdict = "PROVEN" <=> row.failure = NoFailure)
    BY DEF Row
  <2> HIDE DEF row, old
  <2>7. DOMAIN evidence' = DOMAIN evidence /\ evidence' = [s \in DOMAIN evidence' |-> evidence'[s]]
        /\ \A s \in DOMAIN evidence : evidence'[s] = IF s = "subject" THEN row ELSE evidence[s]
    BY <2>2, <2>5
  <2> QED
    BY <2>1, <2>6, <2>7 DEF EvidenceOK, Ended
<1>6. ReportOK(setup', pc', job', report')
  BY DEF RunInv, FlowOK, ReportOK, NoReport, Compare, runVars, collectionVars
<1>7. RegisteredOK'
  BY DEF RunInv, FlowOK, RegisteredOK, Compare, runVars, collectionVars
<1> QED
  BY <1>1, <1>2, <1>3, <1>4, <1>5, <1>6, <1>7 DEF RunInv

\* RunInv survives the start of a registered target.
LEMMA RunStartRegistered ==
  ASSUME RunInv, StartRegistered
  PROVE  RunInv'
<1>1. SetupOK(setup')
  BY DEF RunInv, StartRegistered, runVars, collectionVars
<1>2. FlowOK(setup', job', pc', side', at', spent', failure')
  BY DEF RunInv, FlowOK, plan, StartRegistered, runVars, collectionVars, Phases, Jobs, Budgets,
     Ended, Prepared, Asking
<1>3. WorldOK(setup', pc', side', containers', world')
  BY DEF RunInv, FlowOK, WorldOK, StartRegistered, runVars, collectionVars, Asking
<1>4. WireOK(wire')
  BY DEF RunInv, StartRegistered, runVars, collectionVars
<1>5. EvidenceOK(setup', pc', side', evidence')
  BY DEF RunInv, FlowOK, EvidenceOK, StartRegistered, runVars, collectionVars, Ended
<1>6. ReportOK(setup', pc', job', report')
  BY DEF RunInv, FlowOK, ReportOK, NoReport, StartRegistered, runVars, collectionVars
<1>7. RegisteredOK'
  BY DEF RunInv, FlowOK, RegisteredOK, StartRegistered, runVars, collectionVars
<1> QED
  BY <1>1, <1>2, <1>3, <1>4, <1>5, <1>6, <1>7 DEF RunInv

\* RunInv survives the disabling of a resource.
LEMMA RunDisableResource ==
  ASSUME RunInv, DisableResource
  PROVE  RunInv'
<1>1. SetupOK(setup')
  BY Disabled DEF RunInv, DisableResource
<1>2. FlowOK(setup', job', pc', side', at', spent', failure')
  BY Disabled DEF RunInv, FlowOK, DisableResource, runVars, collectionVars
<1>3. WorldOK(setup', pc', side', containers', world')
  BY Disabled DEF RunInv, WorldOK, DisableResource, runVars
<1>4. WireOK(wire')
  BY DEF RunInv, DisableResource, runVars, collectionVars
<1>5. EvidenceOK(setup', pc', side', evidence')
  BY Disabled DEF RunInv, EvidenceOK, DisableResource
<1>6. ReportOK(setup', pc', job', report')
  BY Disabled DEF RunInv, ReportOK, DisableResource
<1>7. RegisteredOK'
  BY DEF RegisteredOK, DisableResource
<1> QED
  BY <1>1, <1>2, <1>3, <1>4, <1>5, <1>6, <1>7 DEF RunInv

\* RunInv survives the report on a registered target.
LEMMA RunRecordRegistered ==
  ASSUME RunInv, RecordRegistered
  PROVE  RunInv'
<1>1. SetupOK(setup')
  BY DEF RunInv, RecordRegistered, runVars, collectionVars
<1>2. FlowOK(setup', job', pc', side', at', spent', failure')
  BY DEF RunInv, FlowOK, plan, RecordRegistered, runVars, collectionVars, Phases, Jobs, Budgets,
     Ended, Prepared, Asking
<1>3. WorldOK(setup', pc', side', containers', world')
  BY DEF RunInv, FlowOK, WorldOK, RecordRegistered, runVars, collectionVars, Asking
<1>4. WireOK(wire')
  BY DEF RunInv, RecordRegistered, runVars, collectionVars
<1>5. EvidenceOK(setup', pc', side', evidence')
  BY DEF RunInv, FlowOK, EvidenceOK, RecordRegistered, runVars, collectionVars, Ended
<1>6. ReportOK(setup', pc', job', report')
  <2>1. setup' = setup /\ pc' = "done" /\ job' = "SUCCEEDED" /\ setup.mode = "registered" /\ pc = "cleanup"
    BY DEF RecordRegistered
  <2>2. report'.verdict = Verdict.verdict /\ report'.failure = failure
    BY DEF RecordRegistered
  <2>3. RegisteredOK
    BY DEF RunInv
  <2> QED
    BY <2>1, <2>2, <2>3 DEF RegisteredOK, ReportOK
<1>7. RegisteredOK'
  BY DEF RunInv, FlowOK, RegisteredOK, RecordRegistered, runVars, collectionVars
<1> QED
  BY <1>1, <1>2, <1>3, <1>4, <1>5, <1>6, <1>7 DEF RunInv

\* RunInv holds of every set-up.
LEMMA RunInit ==
  ASSUME Init
  PROVE  RunInv
<1>1. PICK case \in Cases : setup = SetUp(case)
  BY DEF Init
<1>2. SetupOK(setup)
  BY <1>1, SetUpFields DEF SetupOK
<1>3. FlowOK(setup, job, pc, side, at, spent, failure)
  <2>1. setup.verified \in DOMAIN setup.projects
        /\ (setup.mode = "comparison" => "reference" \in DOMAIN setup.projects)
    BY <1>2, SetupModes
  <2> QED
    BY <2>1 DEF Init, FlowOK, Phases, Jobs, Budgets, Ended, Prepared
<1>4. WorldOK(setup, pc, side, containers, world)
  BY DEF Init, WorldOK, Asking
<1>5. WireOK(wire)
  <2>1. wire = <<>>
    BY DEF Init
  <2>2. wire \in Seq({})
    BY <2>1
  <2>3. IsSeq(wire)
    BY <2>2, NoneIsSeq
  <2>4. ToSet(wire) = {}
    BY <2>2, EmptyElements
  <2> QED
    BY <2>3, <2>4 DEF WireOK
<1>6. EvidenceOK(setup, pc, side, evidence)
  <2>1. evidence = <<>> /\ pc = "queued" /\ side = IF setup.mode = "comparison" THEN "reference" ELSE setup.verified
    BY DEF Init
  <2>2. DOMAIN evidence = {}
    BY <2>1
  <2>3. evidence = [s \in DOMAIN evidence |-> evidence[s]]
    BY <2>1
  <2> QED
    BY <2>1, <2>2, <2>3 DEF EvidenceOK
<1>7. ReportOK(setup, pc, job, report)
  BY DEF Init, ReportOK, NoReport
<1>8. RegisteredOK
  BY DEF Init, RegisteredOK
<1> QED
  BY <1>2, <1>3, <1>4, <1>5, <1>6, <1>7, <1>8 DEF RunInv

\* No step breaks RunInv.
LEMMA RunNext ==
  ASSUME RunInv, [Next]_vars
  PROVE  RunInv'
<1>1. CASE UNCHANGED vars
  <2>1. Verdict' = Verdict
    BY <1>1 DEF vars, Verdict, Number, Coverage, Requests
  <2> QED
    BY <1>1, <2>1 DEF vars, RunInv, RegisteredOK
<1>2. CASE Claim
  BY <1>2, RunClaim
<1>3. ASSUME NEW file \in {"none", "refused", "valid"}, Record(file)
      PROVE  RunInv'
  BY <1>3, RunRecord
<1>4. CASE EnvironmentDies
  BY <1>4, RunEnvironmentDies
<1>5. CASE CheckPlan
  BY <1>5, RunCheckPlan
<1>6. CASE PrepareRuntime
  BY <1>6, RunPrepareRuntime
<1>7. CASE StartDependency
  BY <1>7, RunStartDependency
<1>8. CASE RunCommand
  BY <1>8, RunRunCommand
<1>9. CASE StartApplication
  BY <1>9, RunStartApplication
<1>10. CASE ApplicationExits
  BY <1>10, RunApplicationExits
<1>11. CASE WaitForHealth
  BY <1>11, RunWaitForHealth
<1>12. CASE BudgetPasses
  BY <1>12, RunBudgetPasses
<1>13. CASE NextScenario
  BY <1>13, RunNextScenario
<1>14. CASE RefuseStep
  BY <1>14, RunRefuseStep
<1>15. CASE SendStep
  BY <1>15, RunSendStep
<1>16. CASE LoseStep
  BY <1>16, RunLoseStep
<1>17. CASE EndScenario
  BY <1>17, RunEndScenario
<1>18. CASE EndCollection
  BY <1>18, RunEndCollection
<1>19. CASE Cleanup /\ setup.mode # "registered"
  BY <1>19, RunCleanup
<1>20. CASE Compare
  BY <1>20, RunCompare
<1>21. CASE StartRegistered
  BY <1>21, RunStartRegistered
<1>22. CASE DisableResource
  BY <1>22, RunDisableResource
<1>23. CASE RecordRegistered
  BY <1>23, RunRecordRegistered
<1> QED
  BY <1>1, <1>2, <1>3, <1>4, <1>5, <1>6, <1>7, <1>8, <1>9, <1>10, <1>11, <1>12, <1>13, <1>14,
     <1>15, <1>16, <1>17, <1>18, <1>19, <1>20, <1>21, <1>22, <1>23 DEF Next, Environment,
     Collection

\* RunInv is an invariant: of every mode, project, plan and collection,
\* whatever Docker, the network and the application do.
THEOREM RunsAreSound == Spec => []RunInv
  BY RunInit, RunNext, PTL DEF Spec

\* Every variable holds what the code can put in it.
THEOREM TypeCorrect == Spec => []TypeOK
<1>1. RunInv => TypeOK
  <2> SUFFICES ASSUME RunInv PROVE TypeOK
    OBVIOUS
  <2>1. /\ job \in {"QUEUED", "RUNNING", "SUCCEEDED", "FAILED"}
        /\ pc \in {"queued", "plan", "network", "dependency", "command", "start", "health", "collection", "step",
                   "cleanup", "compare", "record", "done"}
        /\ side \in DOMAIN setup.projects /\ at \in Nat \ {0}
        /\ spent \in {"none", "collection", "scenario"}
    BY DEF RunInv, FlowOK, Phases, Jobs, Budgets
  <2>2. containers \subseteq DOMAIN world /\ DOMAIN evidence \subseteq DOMAIN setup.projects
    BY DEF RunInv, WorldOK, EvidenceOK
  <2>3. /\ report.verdict = "PROVEN" => report.failure = NoFailure /\ job = "SUCCEEDED"
        /\ report.verdict = "NOT_PROVEN" /\ setup.mode # "registered" =>
             report.area \in {"IMPLEMENTATION", "SCENARIOS", "ENVIRONMENT_MANIFEST", "CONTRACT", "INFRASTRUCTURE",
                              "REFERENCE"}
    BY DEF RunInv, ReportOK, Areas
  <2> QED
    BY <2>1, <2>2, <2>3 DEF TypeOK
<1> QED
  BY <1>1, RunsAreSound, PTL

\* What is recorded as a side's answer was answered by that side's container:
\* two are never up together on the port that the runner asks (executor.ts
\* executeComparison).
THEOREM EachSideAnswersForItself == Spec => []AnswersAreItsOwn
<1>1. RunInv => AnswersAreItsOwn
  BY DEF RunInv, WireOK, AnswersAreItsOwn
<1> QED
  BY <1>1, RunsAreSound, PTL

(*------------------------------ planning ---------------------------------*)

\* A part of a set of one element has one at most.
LEMMA AtMostOne ==
  ASSUME NEW S, NEW T, IsFiniteSet(T), Cardinality(T) = 1, S \subseteq T
  PROVE  Cardinality(S) <= 1
<1>1. IsFiniteSet(S) /\ Cardinality(S) <= Cardinality(T)
  BY FS_Subset
<1> QED
  BY <1>1

Marked(files) == {p \in DOMAIN files : ~Ignored(p) /\ Len(p) <= 3 /\ Last(p) \in BuildMarkers}

\* When one root is detected, the outermost marked directories are one at
\* most.
LEMMA OneRoot ==
  ASSUME NEW files, IsFiniteSet(DOMAIN files),
         \A p \in DOMAIN files : p \in Seq(STRING) /\ p # <<>>,
         Cardinality(DetectRoots(DOMAIN files)) = 1
  PROVE  Cardinality({Front(f) : f \in Outermost(files)}) <= 1
<1> DEFINE roots == {Front(p) : p \in Marked(files)}
<1>1. IsFiniteSet(roots)
  <2>1. IsFiniteSet(Marked(files))
    BY FS_Subset DEF Marked
  <2> QED
    <3> DEFINE M == Marked(files)
    <3>1. IsFiniteSet(M)
      BY <2>1
    <3> HIDE DEF M
    <3>2. IsFiniteSet({Front(p) : p \in M})
      <4> DEFINE T == {Front(p) : p \in M}
                 f == [p \in M |-> Front(p)]
      <4>1. f \in [M -> T] /\ \A t \in T : \E p \in M : f[p] = t
        OBVIOUS
      <4>2. f \in Surjection(M, T)
        BY <4>1 DEF Surjection
      <4> HIDE DEF f, T
      <4>3. IsFiniteSet(T)
        BY <3>1, <4>2, FS_Surjection
      <4> QED
        BY <4>3 DEF T
    <3> QED
      BY <3>2 DEF M
<1>2. DetectRoots(DOMAIN files) = IF <<>> \in roots THEN {<<>>}
                                  ELSE {r \in roots : ~\E other \in roots \ {r} : IsPrefix(other, r)}
  BY DEF DetectRoots, Marked
<1>3. \A p \in DOMAIN files : Front(p) \in Seq(STRING)
  <2> SUFFICES ASSUME NEW p \in DOMAIN files PROVE Front(p) \in Seq(STRING)
    OBVIOUS
  <2>1. p \in Seq(STRING) /\ Len(p) \in Nat /\ Len(p) # 0
    OBVIOUS
  <2> QED
    BY <2>1 DEF Front
<1>4. \A p \in Outermost(files) : p \in Marked(files)
  BY DEF Outermost, Marked
<1>5. \A p \in Outermost(files), q \in Marked(files) : ~IsStrictPrefix(Front(q), Front(p))
  BY DEF Outermost, Marked
<1>6. {Front(f) : f \in Outermost(files)} \subseteq DetectRoots(DOMAIN files)
  <2> SUFFICES ASSUME NEW p \in Outermost(files)
               PROVE  Front(p) \in DetectRoots(DOMAIN files)
    OBVIOUS
  <2>0. Front(p) \in roots
    BY <1>4
  <2>1. CASE <<>> \in roots
    <3>1. PICK q \in Marked(files) : Front(q) = <<>>
      BY <2>1
    <3>2. IsPrefix(Front(q), Front(p))
      <4>1. PICK r \in Seq(STRING) : r = Front(p)
        BY <1>3, <1>4 DEF Marked
      <4>2. SubSeq(r, 1, 0) = <<>> /\ Len(r) >= 0
        BY <4>1
      <4>3. Len(Front(q)) = 0 /\ SubSeq(Front(q), 1, 0) = <<>>
        BY <3>1
      <4> QED
        BY <4>1, <4>2, <4>3 DEF IsPrefix
    <3>3. Front(q) = Front(p)
      BY <1>5, <3>2 DEF IsStrictPrefix
    <3> QED
      BY <1>2, <2>1, <3>1, <3>3
  <2>2. CASE <<>> \notin roots
    <3>1. ASSUME NEW other \in roots \ {Front(p)}, IsPrefix(other, Front(p))
          PROVE  FALSE
      <4>1. PICK q \in Marked(files) : other = Front(q)
        OBVIOUS
      <4> QED
        BY <1>5, <3>1, <4>1 DEF IsStrictPrefix
    <3> QED
      BY <1>2, <2>0, <2>2, <3>1
  <2> QED
    BY <2>1, <2>2
<1>7. IsFiniteSet(DetectRoots(DOMAIN files))
  <2>1. {r \in roots : ~\E other \in roots \ {r} : IsPrefix(other, r)} \subseteq roots
    OBVIOUS
  <2> HIDE DEF roots
  <2>2. IsFiniteSet({<<>>})
    BY FS_Singleton
  <2> QED
    BY <1>1, <1>2, <2>1, <2>2, FS_Subset
<1> QED
  BY <1>6, <1>7, AtMostOne

\* An executable plan has a valid manifest, if any, and exactly one root.
LEMMA PlanResolved ==
  ASSUME NEW files, NEW manifest, NEW requested,
         PlanIsExecutable(PlanEnvironment(files, manifest, requested))
  PROVE  /\ manifest.present => manifest.valid
         /\ Cardinality(ChosenRoots(files, manifest, requested)) = 1
         /\ PlanEnvironment(files, manifest, requested).run # ""
<1>1. PICK p : p = PlanEnvironment(files, manifest, requested)
  OBVIOUS
<1>2. p.unresolved = {} /\ p.run # ""
  BY <1>1 DEF PlanIsExecutable
<1>3. PICK X : p.unresolved = (IF manifest.present /\ ~manifest.valid THEN {"manifest"} ELSE {})
               \cup (IF Cardinality(ChosenRoots(files, manifest, requested)) # 1 THEN {"root"} ELSE {}) \cup X
  BY <1>1, ZenonT(40) DEF PlanEnvironment
<1> QED
  BY <1>1, <1>2, <1>3

\* Commands run and an application starts only with a manifest that is valid,
\* if there is one, and from a root that the caller or the manifest named, or
\* that is the only outermost directory to build (plan.ts planEnvironment,
\* detectRoots).
THEOREM NothingIsGuessed == Spec => []NothingBuiltOnAGuess
<1>1. RunInv => NothingBuiltOnAGuess
  <2> SUFFICES ASSUME RunInv, pc \in {"command", "start", "health"}
               PROVE  LET p == setup.projects[side] IN
                        /\ p.manifest.present => p.manifest.valid
                        /\ \/ p.root # Unset \/ (p.manifest.present /\ p.manifest.root # Unset)
                           \/ Cardinality({Front(f) : f \in Outermost(p.files)}) <= 1
                        /\ plan.run # ""
    BY DEF NothingBuiltOnAGuess
  <2>1. side \in DOMAIN setup.projects /\ setup.mode # "registered" /\ PlanIsExecutable(setup.plans[side])
    BY DEF RunInv, FlowOK, Prepared
  <2>2. PICK case \in Cases : setup.projects = case.projects /\ setup.plans = SetUp(case).plans
    BY DEF RunInv, SetupOK
  <2> DEFINE p == setup.projects[side]
  <2>3. setup.plans[side] = PlanEnvironment(p.files, p.manifest, p.root)
    BY <2>1, <2>2, SetUpFields
  <2>4. IsFiniteSet(DOMAIN p.files) /\ \A f \in DOMAIN p.files : f \in Seq(STRING) /\ f # <<>>
    BY <2>1, <2>2, CasesAssumption
  <2> HIDE DEF p
  <2>5. /\ p.manifest.present => p.manifest.valid
        /\ Cardinality(ChosenRoots(p.files, p.manifest, p.root)) = 1
        /\ setup.plans[side].run # ""
    <3>1. PICK files, manifest, requested : files = p.files /\ manifest = p.manifest /\ requested = p.root
      OBVIOUS
    <3>2. PlanIsExecutable(PlanEnvironment(files, manifest, requested))
      BY <2>1, <2>3, <3>1
    <3>3. /\ manifest.present => manifest.valid
          /\ Cardinality(ChosenRoots(files, manifest, requested)) = 1
          /\ PlanEnvironment(files, manifest, requested).run # ""
      BY <3>2, PlanResolved
    <3> QED
      BY <2>3, <3>1, <3>3
  <2>6. ASSUME p.root = Unset, ~(p.manifest.present /\ p.manifest.root # Unset)
        PROVE  Cardinality({Front(f) : f \in Outermost(p.files)}) <= 1
    <3>1. Applied(p.manifest).root = Unset
      BY <2>6 DEF Applied, NoManifest, Unset
    <3>2. ChosenRoots(p.files, p.manifest, p.root) = DetectRoots(DOMAIN p.files)
      BY <2>6, <3>1 DEF ChosenRoots
    <3> QED
      BY <2>4, <2>5, <3>2, OneRoot
  <2> QED
    BY <2>5, <2>6 DEF p, plan
<1> QED
  BY <1>1, RunsAreSound, PTL

(*------------------------- flattened sequences ---------------------------*)
\* The elements of two sequences put together.
LEMMA Concatenated ==
  ASSUME NEW U, NEW p \in Seq(U), NEW q \in Seq(U)
  PROVE  ToSet(p \o q) = ToSet(p) \cup ToSet(q)
<1> DEFINE r == p \o q
<1>1. /\ r \in Seq(U) /\ Len(r) = Len(p) + Len(q) /\ Len(p) \in Nat /\ Len(q) \in Nat
      /\ \A i \in 1..Len(p) : r[i] = p[i]
      /\ \A i \in 1..Len(q) : r[Len(p) + i] = q[i]
  OBVIOUS
<1>2. DOMAIN r = 1..(Len(p) + Len(q)) /\ DOMAIN p = 1..Len(p) /\ DOMAIN q = 1..Len(q)
  BY <1>1
<1> HIDE DEF r
<1>3. ASSUME NEW x \in ToSet(r) PROVE x \in ToSet(p) \cup ToSet(q)
  <2>1. PICK i \in 1..(Len(p) + Len(q)) : x = r[i]
    BY <1>2, <1>3 DEF ToSet
  <2>2. CASE i <= Len(p)
    BY <1>1, <1>2, <2>1, <2>2 DEF ToSet
  <2>3. CASE i > Len(p)
    <3>1. i - Len(p) \in 1..Len(q) /\ Len(p) + (i - Len(p)) = i
      BY <1>1, <2>1, <2>3
    <3>2. r[i] = q[i - Len(p)]
      BY <1>1, <3>1
    <3> QED
      BY <1>2, <2>1, <3>1, <3>2 DEF ToSet
  <2> QED
    BY <1>1, <2>1, <2>2, <2>3
<1>4. ASSUME NEW i \in DOMAIN p PROVE p[i] \in ToSet(r)
  <2>1. i \in DOMAIN r /\ r[i] = p[i]
    BY <1>1, <1>2
  <2> QED
    BY <2>1 DEF ToSet
<1>5. ASSUME NEW i \in DOMAIN q PROVE q[i] \in ToSet(r)
  <2>1. Len(p) + i \in DOMAIN r /\ r[Len(p) + i] = q[i]
    BY <1>1, <1>2
  <2> QED
    BY <2>1 DEF ToSet
<1>6. ToSet(r) = ToSet(p) \cup ToSet(q)
  BY <1>3, <1>4, <1>5 DEF ToSet
<1> QED
  BY <1>6 DEF r

\* What FlattenSeq puts together, step by step.
LEMMA FlattenSteps ==
  ASSUME NEW U, NEW ss \in Seq(Seq(U)), ss # <<>>
  PROVE  \E p : /\ FlattenSeq(ss) = p[Len(ss)] /\ p[1] = ss[1]
                /\ \A n \in 2..Len(ss) : p[n] = p[n - 1] \o ss[n]
<1>17. PICK N : N = Len(ss)
  OBVIOUS
<1> DEFINE g == [n \in 1..N |-> [w \in Seq(U) |-> w \o ss[n]]]
           Is(p) == p = [i \in 1..N |-> IF i = 1 THEN ss[i] ELSE p[i - 1] \o ss[i]]
<1>1. N \in Nat /\ N # 0 /\ \A n \in 1..N : ss[n] \in Seq(U)
  BY <1>17
<1>2. g \in [1..N -> [Seq(U) -> Seq(U)]]
  <2>1. ASSUME NEW n \in 1..N, NEW w \in Seq(U) PROVE w \o ss[n] \in Seq(U)
    BY <1>1
  <2> QED
    BY <2>1
<1>3. \A n \in 1..N : \A w \in Seq(U) : g[n][w] = w \o ss[n]
  OBVIOUS
<1>4. <<>> \in Seq(U)
  OBVIOUS
<1>15. PICK W, w0 : W = Seq(U) /\ w0 = <<>>
  OBVIOUS
<1>16. PICK G : G = g
  OBVIOUS
<1> HIDE DEF g
<1>11. G \in [1..N -> [W -> W]] /\ w0 \in W
  BY <1>2, <1>4, <1>15, <1>16
<1>12. Iterated(W, w0, N, G)
  BY <1>1, <1>11, Iterates
<1>5. PICK f \in [0..N -> Seq(U)] : f[0] = <<>> /\ \A n \in 1..N : f[n] = g[n][f[n - 1]]
  BY <1>12, <1>15, <1>16 DEF Iterated
<1>6. ASSUME NEW n \in 1..N PROVE f[n] = IF n = 1 THEN ss[n] ELSE f[n - 1] \o ss[n]
  <2>1. n - 1 \in 0..N
    BY <1>1
  <2>2. f[n - 1] \in Seq(U) /\ ss[n] \in Seq(U)
    BY <1>1, <1>5, <2>1
  <2>3. f[n] = f[n - 1] \o ss[n]
    BY <1>3, <1>5, <2>2
  <2>4. \A q \in Seq(U) : <<>> \o q = q
    OBVIOUS
  <2>5. CASE n = 1
    <3>1. f[1] = <<>> \o ss[1] /\ ss[1] \in Seq(U)
      <4>1. 1 - 1 = 0
        OBVIOUS
      <4> QED
        BY <1>5, <2>2, <2>3, <2>5, <4>1
    <3> QED
      BY <2>4, <2>5, <3>1
  <2> QED
    BY <2>3, <2>5
<1> DEFINE h == [n \in 1..N |-> f[n]]
<1>7. Is(h)
  <2>1. ASSUME NEW n \in 1..N PROVE h[n] = IF n = 1 THEN ss[n] ELSE h[n - 1] \o ss[n]
    <3>1. n # 1 => n - 1 \in 1..N /\ h[n - 1] = f[n - 1]
      BY <1>1
    <3>2. h[n] = f[n]
      OBVIOUS
    <3> HIDE DEF h
    <3> QED
      BY <1>6, <3>1, <3>2
  <2>2. h = [n \in 1..N |-> h[n]]
    OBVIOUS
  <2> HIDE DEF h
  <2> QED
    BY <2>1, <2>2
<1> HIDE DEF h
<1>8. Is(CHOOSE p : Is(p))
  BY <1>7
<1>9. PICK p : p = (CHOOSE q : Is(q)) /\ Is(p)
  BY <1>8
<1>10. FlattenSeq(ss) = p[N]
  <2>1. Len(ss) # 0
    BY <1>1, <1>17
  <2> QED
    BY <1>9, <1>17, <2>1 DEF FlattenSeq
<1>13. p[1] = ss[1] /\ \A n \in 2..N : p[n] = p[n - 1] \o ss[n]
  <2>1. \A n \in 1..N : p[n] = IF n = 1 THEN ss[n] ELSE p[n - 1] \o ss[n]
    BY <1>9
  <2>2. 1 \in 1..N /\ \A n \in 2..N : n \in 1..N /\ n # 1
    BY <1>1
  <2> QED
    BY <2>1, <2>2
<1> QED
  BY <1>10, <1>13, <1>17

\* A flattened sequence has the elements of its parts.
LEMMA Flattened ==
  ASSUME NEW U, NEW ss \in Seq(Seq(U))
  PROVE  /\ FlattenSeq(ss) \in Seq(U)
         /\ \A x : x \in ToSet(FlattenSeq(ss)) <=> \E i \in DOMAIN ss : x \in ToSet(ss[i])
<1>1. CASE ss = <<>>
  <2>1. FlattenSeq(ss) = ss /\ DOMAIN ss = {}
    <3>1. Len(ss) = 0
      BY <1>1
    <3> QED
      BY <3>1 DEF FlattenSeq
  <2>2. ss \in Seq(U) /\ ss \in Seq({})
    BY <1>1
  <2>3. ToSet(ss) = {}
    BY <2>2, EmptyElements
  <2> QED
    BY <2>1, <2>2, <2>3
<1>2. CASE ss # <<>>
  <2>1. PICK p : /\ FlattenSeq(ss) = p[Len(ss)] /\ p[1] = ss[1]
                 /\ \A n \in 2..Len(ss) : p[n] = p[n - 1] \o ss[n]
    BY <1>2, FlattenSteps
  <2>2. PICK N : N = Len(ss)
    OBVIOUS
  <2>3. N \in Nat /\ N # 0 /\ DOMAIN ss = 1..N /\ \A n \in 1..N : ss[n] \in Seq(U)
    BY <1>2, <2>2
  <2> DEFINE Holds(n) == p[n] \in Seq(U) /\ \A x : x \in ToSet(p[n]) <=> \E i \in 1..n : x \in ToSet(ss[i])
             S == {n \in 0..N : n # 0 => Holds(n)}
  <2>4. 0 \in S
    BY <2>3
  <2>5. ASSUME NEW n \in 1..N, n - 1 \in S PROVE n \in S
    <3>1. CASE n = 1
      <4>1. p[1] = ss[1] /\ ss[1] \in Seq(U)
        BY <2>1, <2>3
      <4>2. \A i : i \in 1..1 <=> i = 1
        OBVIOUS
      <4>3. Holds(1)
        BY <4>1, <4>2
      <4> QED
        BY <3>1, <4>3
    <3>2. CASE n # 1
      <4>1. n \in 2..N /\ n - 1 # 0 /\ n - 1 \in 1..N
        BY <2>3, <3>2
      <4>2. Holds(n - 1)
        BY <2>5, <4>1
      <4>3. PICK q : q = p[n - 1]
        OBVIOUS
      <4>4. p[n] = q \o ss[n] /\ q \in Seq(U) /\ ss[n] \in Seq(U)
        BY <2>1, <2>2, <2>3, <4>1, <4>2, <4>3
      <4>5. p[n] \in Seq(U) /\ ToSet(p[n]) = ToSet(q) \cup ToSet(ss[n])
        BY <4>4, Concatenated
      <4>6. \A x : x \in ToSet(q) <=> \E i \in 1..(n - 1) : x \in ToSet(ss[i])
        BY <4>2, <4>3
      <4>7. \A i : i \in 1..n <=> (i \in 1..(n - 1) \/ i = n)
        BY <4>1
      <4>8. Holds(n)
        <5> SUFFICES ASSUME NEW x PROVE x \in ToSet(p[n]) <=> \E i \in 1..n : x \in ToSet(ss[i])
          BY <4>5
        <5> QED
          BY <4>5, <4>6, <4>7
      <4> QED
        BY <4>8
    <3> QED
      BY <3>1, <3>2
  <2> HIDE DEF S
  <2>6. 0..N \subseteq S
    BY <2>3, <2>4, <2>5, Climb
  <2>7. N \in S
    BY <2>3, <2>6
  <2>8. Holds(N)
    BY <2>3, <2>7 DEF S
  <2> QED
    BY <2>1, <2>2, <2>3, <2>8
<1> QED
  BY <1>1, <1>2

(*----------------------------- a comparison ------------------------------*)
Entry(reports, r, i) == [scenario |-> reports[r].scenario, index |-> i, result |-> reports[r].steps[i]]

\* The steps of a list of reports, each with its place.
LEMMA FlatSteps ==
  ASSUME NEW reports, IsSeq(reports), \A r \in DOMAIN reports : IsSeq(reports[r].steps)
  PROVE  /\ IsSeq(StepsFromReports(reports))
         /\ \A r \in DOMAIN reports : \A i \in DOMAIN reports[r].steps :
              Entry(reports, r, i) \in ToSet(StepsFromReports(reports))
         /\ \A e \in ToSet(StepsFromReports(reports)) :
              \E r \in DOMAIN reports : \E i \in DOMAIN reports[r].steps : e = Entry(reports, r, i)
<1> DEFINE of == [r \in DOMAIN reports |-> [i \in DOMAIN reports[r].steps |-> Entry(reports, r, i)]]
           U == {Entry(reports, p[1], p[2]) : p \in {q \in (DOMAIN reports) \X Nat : q[2] \in DOMAIN reports[q[1]].steps}}
<1>1. StepsFromReports(reports) = FlattenSeq(of)
  BY DEF StepsFromReports, Entry
<1>2. Len(reports) \in Nat /\ DOMAIN reports = 1..Len(reports)
  BY SeqFacts
<1>3. ASSUME NEW r \in DOMAIN reports
      PROVE  /\ of[r] \in Seq(U) /\ DOMAIN of[r] = DOMAIN reports[r].steps
             /\ \A i \in DOMAIN of[r] : of[r][i] = Entry(reports, r, i)
  <2>1. PICK m \in Nat : DOMAIN reports[r].steps = 1..m
    BY SeqFacts
  <2>2. \A i \in 1..m : Entry(reports, r, i) \in U
    <3> SUFFICES ASSUME NEW i \in 1..m PROVE Entry(reports, r, i) \in U
      OBVIOUS
    <3>1. PICK q : q = <<r, i>>
      OBVIOUS
    <3>2. q \in (DOMAIN reports) \X Nat /\ q[1] = r /\ q[2] = i
      BY <3>1
    <3> QED
      BY <2>1, <3>2
  <2> HIDE DEF U
  <2>3. of[r] = [i \in 1..m |-> Entry(reports, r, i)]
    BY <2>1
  <2>4. of[r] \in Seq(U)
    BY <2>2, <2>3
  <2> QED
    BY <2>1, <2>3, <2>4
<1>4. of \in Seq(Seq(U))
  <2>1. PICK m \in Nat : DOMAIN reports = 1..m
    BY <1>2
  <2>2. of = [r \in 1..m |-> of[r]]
    BY <2>1
  <2> HIDE DEF of, U
  <2>3. \A r \in 1..m : of[r] \in Seq(U)
    BY <1>3, <2>1
  <2> QED
    BY <2>2, <2>3
<1>5. DOMAIN of = DOMAIN reports
  OBVIOUS
<1> HIDE DEF of, U
<1>6. /\ FlattenSeq(of) \in Seq(U)
      /\ \A x : x \in ToSet(FlattenSeq(of)) <=> \E i \in DOMAIN of : x \in ToSet(of[i])
  BY <1>4, Flattened
<1>7. PICK flat : flat = StepsFromReports(reports) /\ flat \in Seq(U)
  BY <1>1, <1>6
<1>8. \A x : x \in ToSet(flat) <=> \E i \in DOMAIN of : x \in ToSet(of[i])
  BY <1>1, <1>6, <1>7
<1>9. IsSeq(flat)
  <2>1. flat \in Seq(ToSet(flat))
    <3>1. DOMAIN flat = 1..Len(flat) /\ Len(flat) \in Nat /\ flat = [i \in 1..Len(flat) |-> flat[i]]
      BY <1>7
    <3>2. \A i \in 1..Len(flat) : flat[i] \in ToSet(flat)
      BY <3>1 DEF ToSet
    <3> QED
      BY <3>1, <3>2
  <2> QED
    BY <2>1 DEF IsSeq
<1>10. ASSUME NEW r \in DOMAIN reports, NEW i \in DOMAIN reports[r].steps
       PROVE  Entry(reports, r, i) \in ToSet(flat)
  <2>1. Entry(reports, r, i) \in ToSet(of[r])
    BY <1>3 DEF ToSet
  <2> QED
    BY <1>5, <1>8, <2>1
<1>11. ASSUME NEW e \in ToSet(flat)
       PROVE  \E r \in DOMAIN reports : \E i \in DOMAIN reports[r].steps : e = Entry(reports, r, i)
  <2>1. PICK r \in DOMAIN reports : e \in ToSet(of[r])
    BY <1>5, <1>8
  <2>2. PICK i \in DOMAIN of[r] : e = of[r][i]
    BY <2>1 DEF ToSet
  <2> QED
    BY <1>3, <2>2
<1> QED
  BY <1>7, <1>9, <1>10, <1>11

\* The subject's step a reference's step is paired with, when the two executions match.
LEMMA Paired ==
  ASSUME NEW reference, NEW subject, IsSeq(reference), IsSeq(subject),
         CompareExecutions(reference, subject).verdict = "MATCH", NEW e \in ToSet(reference)
  PROVE  \E k \in ToSet(subject) : ComparisonKey(k) = ComparisonKey(e) /\ Differences(e.result, k.result) = {}
<1> DEFINE At(key) == {i \in DOMAIN subject : ComparisonKey(subject[i]) = key}
           missing == {i \in DOMAIN reference : At(ComparisonKey(reference[i])) = {}}
           differ == {i \in DOMAIN reference \ missing :
                        Differences(reference[i].result, subject[Max(At(ComparisonKey(reference[i])))].result) # {}}
<1>1. missing \cup differ = {}
  <2> SUFFICES ASSUME missing \cup differ # {} PROVE CompareExecutions(reference, subject).verdict = "MISMATCH"
    OBVIOUS
  <2>1. PICK c : c = CompareExecutions(reference, subject)
    OBVIOUS
  <2> QED
    BY DEF CompareExecutions
<1>2. PICK i \in DOMAIN reference : e = reference[i]
  BY DEF ToSet
<1>3. PICK K : K = At(ComparisonKey(e))
  OBVIOUS
<1>4. K # {}
  BY <1>1, <1>2, <1>3
<1>5. Len(subject) \in Nat /\ DOMAIN subject = 1..Len(subject) /\ K \subseteq DOMAIN subject
  BY <1>3, SeqFacts
<1>6. \E x \in K : \A y \in K : x >= y
  BY <1>4, <1>5, Greatest
<1>7. Max(K) \in K
  BY <1>6 DEF Max
<1>8. Differences(e.result, subject[Max(K)].result) = {}
  BY <1>1, <1>2, <1>3
<1>9. ComparisonKey(subject[Max(K)]) = ComparisonKey(e) /\ subject[Max(K)] \in ToSet(subject)
  BY <1>3, <1>5, <1>7 DEF ToSet
<1> QED
  BY <1>8, <1>9

\* Two results without a difference.
LEMMA SameResults ==
  ASSUME NEW left, NEW right, Differences(left, right) = {}
  PROVE  /\ left.status = right.status /\ left.httpStatus = right.httpStatus
         /\ ~left.answer.cut /\ ~right.answer.cut
         /\ NormalizeBody(left.answer.body) = NormalizeBody(right.answer.body)
<1> DEFINE L == NormalizeBody(left.answer.body)
           R == NormalizeBody(right.answer.body)
<1>1. /\ left.status = right.status /\ left.httpStatus = right.httpStatus
      /\ ~(left.answer.cut \/ right.answer.cut)
      /\ ~(/\ ~left.answer.cut /\ ~right.answer.cut /\ DifferingPaths(L, R) # {})
  BY Zenon DEF Differences
<1>2. DifferingPaths(L, R) = {}
  BY <1>1
<1>3. L = [k \in DOMAIN L |-> L[k]] /\ R = [k \in DOMAIN R |-> R[k]]
  BY DEF NormalizeBody
<1> HIDE DEF L, R
<1>4. DOMAIN L = DOMAIN R /\ \A k \in DOMAIN L : L[k] = R[k]
  BY <1>2 DEF DifferingPaths
<1>5. L = R
  BY <1>3, <1>4
<1> QED
  BY <1>1, <1>5 DEF L, R

\* What is kept of a value as evidence; values that are the same but for their credential.
KeptOf(kept, value) == /\ kept.kind = value.kind /\ kept.text = value.text /\ kept.format = value.format
                       /\ kept.secret = Hidden(value.secret)
Alike(v, w) == v.kind = w.kind /\ v.text = w.text /\ (v.secret = "" <=> w.secret = "")

\* What is kept of a value as evidence, normalized, is the value normalized, but for its credential.
LEMMA NormalizedEvidence ==
  ASSUME NEW key, NEW value, NEW kept, KeptOf(kept, value)
  PROVE  Alike(NormalizeValue(key, kept), NormalizeValue(key, value))
<1>1. PICK n, v : n = NormalizeValue(key, kept) /\ v = NormalizeValue(key, value)
  OBVIOUS
<1>2. /\ kept.kind = value.kind /\ kept.text = value.text /\ kept.format = value.format
      /\ kept.secret = Hidden(value.secret)
  BY DEF KeptOf
<1>3. kept.secret = "" <=> value.secret = ""
  BY <1>2 DEF Hidden, Removed
<1> SUFFICES n.kind = v.kind /\ n.text = v.text /\ (n.secret = "" <=> v.secret = "")
  BY <1>1 DEF Alike
<1>4. CASE value.kind = "datetime"
  <2>1. /\ v = [kind |-> "datetime", text |-> value.format, secret |-> ""]
        /\ n = [kind |-> "datetime", text |-> kept.format, secret |-> ""]
    BY <1>1, <1>2, <1>4 DEF NormalizeValue
  <2> QED
    BY <1>2, <2>1
<1>5. CASE value.kind # "datetime" /\ key \in VolatileKeys
  <2>1. PICK kind : kind = IF value.kind = "number" THEN "number" ELSE "string"
    OBVIOUS
  <2>2. v = [kind |-> kind, text |-> "", secret |-> ""] /\ n = [kind |-> kind, text |-> "", secret |-> ""]
    BY <1>1, <1>2, <1>5, <2>1 DEF NormalizeValue
  <2> QED
    BY <2>2
<1>6. CASE value.kind \in {"uuid", "token"} /\ key \notin VolatileKeys
  <2>1. v = [kind |-> value.kind, text |-> "", secret |-> ""] /\ n = [kind |-> kept.kind, text |-> "", secret |-> ""]
    BY <1>1, <1>2, <1>6 DEF NormalizeValue
  <2> QED
    BY <1>2, <2>1
<1>7. CASE value.kind \notin {"datetime", "uuid", "token"} /\ key \notin VolatileKeys
  <2>1. /\ v = [kind |-> value.kind, text |-> value.text, secret |-> value.secret]
        /\ n = [kind |-> kept.kind, text |-> kept.text, secret |-> kept.secret]
    BY <1>1, <1>2, <1>7 DEF NormalizeValue
  <2>2. n.secret = kept.secret /\ v.secret = value.secret /\ n.kind = v.kind /\ n.text = v.text
    BY <1>2, <2>1
  <2> QED
    BY <1>3, <2>2
<1> QED
  BY <1>4, <1>5, <1>6, <1>7

\* Two answers whose evidence is the same after normalization.
LEMMA SameEvidence ==
  ASSUME NEW a, NEW b, a.status = b.status, ~Evidence(a).cut, ~Evidence(b).cut,
         NormalizeBody(Evidence(a).body) = NormalizeBody(Evidence(b).body)
  PROVE  SameAnswers(a, b)
<1>1. /\ Evidence(a).cut = a.cut /\ Evidence(a).body = Redacted(a.body)
      /\ Evidence(b).cut = b.cut /\ Evidence(b).body = Redacted(b.body)
  BY DEF Evidence
<1>2. PICK L, R, l, r : /\ L = Redacted(a.body) /\ l = NormalizeBody(L)
                        /\ R = Redacted(b.body) /\ r = NormalizeBody(R)
  OBVIOUS
<1>3. l = r
  BY <1>1, <1>2
<1>4. DOMAIN L = DOMAIN a.body /\ DOMAIN R = DOMAIN b.body
  BY <1>2 DEF Redacted
<1>5. DOMAIN l = DOMAIN L /\ DOMAIN r = DOMAIN R
  BY <1>2 DEF NormalizeBody
<1>6. DOMAIN a.body = DOMAIN b.body
  BY <1>3, <1>4, <1>5
<1>7. ASSUME NEW k \in DOMAIN a.body \ SecretNames, NEW v, NEW w,
             v = NormalizeValue(k, a.body[k]), w = NormalizeValue(k, b.body[k])
      PROVE  v.kind = w.kind /\ v.text = w.text /\ (v.secret = "" <=> w.secret = "")
  <2>1. KeptOf(L[k], a.body[k]) /\ KeptOf(R[k], b.body[k])
    BY <1>2, <1>6, <1>7 DEF Redacted, KeptOf
  <2>2. NormalizeValue(k, L[k]) = NormalizeValue(k, R[k])
    <3>1. l[k] = NormalizeValue(k, L[k]) /\ r[k] = NormalizeValue(k, R[k])
      BY <1>2, <1>4, <1>6 DEF NormalizeBody
    <3> QED
      BY <1>3, <3>1
  <2>3. PICK e : e = NormalizeValue(k, L[k]) /\ e = NormalizeValue(k, R[k])
    BY <2>2
  <2>4. Alike(e, v) /\ Alike(e, w)
    BY <1>7, <2>1, <2>3, NormalizedEvidence
  <2> QED
    BY <2>4 DEF Alike
<1> QED
  BY <1>1, <1>6, <1>7 DEF SameAnswers

\* Executions that match, of which the reference passed whole.
LEMMA MatchedExecutions ==
  ASSUME NEW sc, NEW w, NEW ref, NEW sub, Lists(sc), OneNameEach(sc),
         OutcomesOK(sc, w, "reference", ref), OutcomesOK(sc, w, "subject", sub), Whole(sc, ref),
         CompareExecutions(StepsFromReports(ref), StepsFromReports(sub)).verdict = "MATCH"
  PROVE  Matched(sc, w)
<1> SUFFICES ASSUME NEW i \in DOMAIN sc, NEW j \in DOMAIN sc[i].steps
             PROVE  \E x \in ToSet(w), y \in ToSet(w) :
                      /\ x.side = "reference" /\ y.side = "subject"
                      /\ <<x.scenario, x.step>> = <<i, j>> /\ <<y.scenario, y.step>> = <<i, j>>
                      /\ SameAnswers(x.answer, y.answer)
  BY DEF Matched
<1>1. /\ IsSeq(ref) /\ IsSeq(sub) /\ DOMAIN ref = 1..Len(ref) /\ DOMAIN sub = 1..Len(sub) /\ DOMAIN sc = 1..Len(sc)
      /\ \A r \in DOMAIN ref : OutcomeOK(sc, w, "reference", r, ref[r])
      /\ \A r \in DOMAIN sub : OutcomeOK(sc, w, "subject", r, sub[r])
  BY SeqFacts DEF OutcomesOK, Lists
<1>2. i \in DOMAIN ref /\ ref[i].status = "PASSED"
  BY <1>1 DEF Whole
<1>3. /\ j \in DOMAIN ref[i].steps /\ ref[i].steps[j].status = "PASSED" /\ ref[i].scenario = sc[i].name
      /\ Backed(sc, w, "reference", i, j, ref[i].steps[j])
  BY <1>1, <1>2 DEF OutcomeOK, AllPassed
<1>4. PICK x \in ToSet(w) : /\ x.side = "reference" /\ x.scenario = i /\ x.step = j
                            /\ ref[i].steps[j].answer = Evidence(x.answer) /\ ref[i].steps[j].httpStatus = x.answer.status
  BY <1>3 DEF Backed
<1>5. /\ \A r \in DOMAIN ref : IsSeq(ref[r].steps)
      /\ \A r \in DOMAIN sub : IsSeq(sub[r].steps)
  BY <1>1 DEF OutcomeOK
<1>6. Entry(ref, i, j) \in ToSet(StepsFromReports(ref)) /\ IsSeq(StepsFromReports(ref))
  BY <1>1, <1>2, <1>3, <1>5, FlatSteps
<1>7. /\ IsSeq(StepsFromReports(sub))
      /\ \A e \in ToSet(StepsFromReports(sub)) :
           \E r \in DOMAIN sub : \E k \in DOMAIN sub[r].steps : e = Entry(sub, r, k)
  BY <1>1, <1>5, FlatSteps
<1>8. PICK k \in ToSet(StepsFromReports(sub)) :
        ComparisonKey(k) = ComparisonKey(Entry(ref, i, j)) /\ Differences(Entry(ref, i, j).result, k.result) = {}
  BY <1>6, <1>7, Paired
<1>17. PICK r \in DOMAIN sub : \E m \in DOMAIN sub[r].steps : k = Entry(sub, r, m)
  BY <1>7, <1>8
<1>9. PICK m \in DOMAIN sub[r].steps : k = Entry(sub, r, m)
  BY <1>17
<1>10. sub[r].scenario = ref[i].scenario /\ m = j
  BY <1>8, <1>9 DEF ComparisonKey, Entry
<1>11. r \in DOMAIN sc /\ sub[r].scenario = sc[r].name /\ Backed(sc, w, "subject", r, m, sub[r].steps[m])
  BY <1>1, <1>9 DEF OutcomeOK
<1>12. r = i
  BY <1>3, <1>10, <1>11 DEF OneNameEach
<1> DEFINE a == ref[i].steps[j]
           b == sub[r].steps[m]
<1>13. Differences(a, b) = {}
  BY <1>8, <1>9 DEF Entry
<1> HIDE DEF a, b
<1>14. /\ a.status = b.status /\ a.httpStatus = b.httpStatus /\ ~a.answer.cut /\ ~b.answer.cut
       /\ NormalizeBody(a.answer.body) = NormalizeBody(b.answer.body)
  BY <1>13, SameResults
<1>15. PICK y \in ToSet(w) : /\ y.side = "subject" /\ y.scenario = r /\ y.step = m
                             /\ b.answer = Evidence(y.answer) /\ b.httpStatus = y.answer.status
  BY <1>3, <1>11, <1>14 DEF Backed, a, b
<1>16. a.answer = Evidence(x.answer) /\ a.httpStatus = x.answer.status
  BY <1>4 DEF a
<1>18. SameAnswers(x.answer, y.answer)
  BY <1>14, <1>15, <1>16, SameEvidence
<1> QED
  BY <1>4, <1>10, <1>12, <1>15, <1>18

(*------------------------- selected and mapped lists ---------------------*)

\* What is picked of a list is a list of its elements at the places.
LEMMA PickedList ==
  ASSUME NEW s, IsSeq(s), NEW places
  PROVE  /\ IsSeq(Picked(s, places))
         /\ \A x : x \in ToSet(Picked(s, places)) <=> \E i \in DOMAIN s : i \in places /\ x = s[i]
<1>1. PICK p : /\ Picked(s, places) = p[Len(s)] /\ p[0] = <<>>
               /\ \A n \in 1..Len(s) : p[n] = IF n \in places THEN Append(p[n - 1], s[n]) ELSE p[n - 1]
  BY PickedSteps DEF IsSeq
<1>2. PICK N \in Nat : N = Len(s) /\ DOMAIN s = 1..N
  BY SeqFacts
<1> DEFINE Holds(n) == IsSeq(p[n]) /\ \A x : x \in ToSet(p[n]) <=> \E i \in 1..n : i \in places /\ x = s[i]
           S == {n \in 0..N : Holds(n)}
<1>3. 0 \in S
  <2>1. p[0] \in Seq({})
    BY <1>1
  <2>2. IsSeq(p[0]) /\ ToSet(p[0]) = {}
    BY <2>1, NoneIsSeq, EmptyElements
  <2>3. Holds(0)
    BY <2>2
  <2> HIDE DEF Holds
  <2> QED
    BY <1>2, <2>3
<1>4. ASSUME NEW n \in 1..N, n - 1 \in S PROVE n \in S
  <2>1. PICK q : q = p[n - 1] /\ IsSeq(q) /\ \A x : x \in ToSet(q) <=> \E i \in 1..(n - 1) : i \in places /\ x = s[i]
    BY <1>4
  <2>2. \A i : i \in 1..n <=> (i \in 1..(n - 1) \/ i = n)
    BY <1>2
  <2>3. CASE n \in places
    <3>1. p[n] = Append(q, s[n])
      BY <1>1, <1>2, <2>1, <2>3
    <3>2. IsSeq(p[n]) /\ ToSet(p[n]) = ToSet(q) \cup {s[n]}
      BY <2>1, <3>1, AppendFacts
    <3>3. \A x : x \in ToSet(p[n]) <=> \E i \in 1..n : i \in places /\ x = s[i]
      BY <2>1, <2>2, <2>3, <3>2
    <3> QED
      BY <3>2, <3>3
  <2>4. CASE n \notin places
    <3>1. p[n] = q
      BY <1>1, <1>2, <2>1, <2>4
    <3>2. \A x : x \in ToSet(p[n]) <=> \E i \in 1..n : i \in places /\ x = s[i]
      BY <2>1, <2>2, <2>4, <3>1
    <3> QED
      BY <2>1, <3>1, <3>2
  <2> QED
    BY <2>3, <2>4
<1> HIDE DEF S
<1>5. N \in S
  <2>1. 0..N \subseteq S
    BY <1>3, <1>4, Climb
  <2> QED
    BY <2>1
<1> QED
  BY <1>1, <1>2, <1>5 DEF S

\* A list of which every place is picked stays as it is.
LEMMA PickedAll ==
  ASSUME NEW s, IsSeq(s), NEW places, DOMAIN s \subseteq places
  PROVE  Picked(s, places) = s
<1>1. PICK p : /\ Picked(s, places) = p[Len(s)] /\ p[0] = <<>>
               /\ \A n \in 1..Len(s) : p[n] = IF n \in places THEN Append(p[n - 1], s[n]) ELSE p[n - 1]
  BY PickedSteps DEF IsSeq
<1>2. PICK N \in Nat : N = Len(s) /\ DOMAIN s = 1..N
  BY SeqFacts
<1> DEFINE Holds(n) == IsSeq(p[n]) /\ Len(p[n]) = n /\ \A i \in 1..n : p[n][i] = s[i]
           S == {n \in 0..N : Holds(n)}
<1>3. 0 \in S
  <2>1. p[0] \in Seq({}) /\ Len(p[0]) = 0
    BY <1>1
  <2>2. IsSeq(p[0])
    BY <2>1, NoneIsSeq
  <2>3. Holds(0)
    BY <2>1, <2>2
  <2> HIDE DEF Holds
  <2> QED
    BY <1>2, <2>3
<1>4. ASSUME NEW n \in 1..N, n - 1 \in S PROVE n \in S
  <2>1. PICK q : q = p[n - 1] /\ IsSeq(q) /\ Len(q) = n - 1 /\ \A i \in 1..(n - 1) : q[i] = s[i]
    BY <1>4
  <2>2. p[n] = Append(q, s[n])
    BY <1>1, <1>2, <2>1
  <2>3. /\ IsSeq(p[n]) /\ Len(p[n]) = Len(q) + 1
        /\ \A i \in 1..Len(q) : p[n][i] = q[i]
        /\ p[n][Len(q) + 1] = s[n]
    BY <2>1, <2>2, AppendFacts
  <2>4. n \in 0..N /\ Len(p[n]) = n /\ p[n][n] = s[n]
    BY <1>2, <2>1, <2>3
  <2>5. ASSUME NEW i \in 1..n PROVE p[n][i] = s[i]
    <3>1. CASE i = n
      BY <2>4, <3>1
    <3>2. CASE i # n
      <4>1. i \in 1..(n - 1)
        BY <3>2
      <4> QED
        BY <2>1, <2>3, <4>1
    <3> QED
      BY <3>1, <3>2
  <2> QED
    BY <2>3, <2>4, <2>5
<1> HIDE DEF S
<1>5. N \in S
  <2>1. 0..N \subseteq S
    BY <1>3, <1>4, Climb
  <2> QED
    BY <2>1
<1>6. PICK q : q = p[N] /\ IsSeq(q) /\ Len(q) = N /\ \A i \in 1..N : q[i] = s[i]
  BY <1>5 DEF S
<1>7. s \in Seq(ToSet(s)) /\ q \in Seq(ToSet(q))
  BY <1>6 DEF IsSeq
<1>8. q = s
  <2>1. s = [i \in 1..N |-> s[i]]
    BY <1>2, <1>7
  <2>2. q = [i \in 1..N |-> q[i]]
    BY <1>6, <1>7
  <2> QED
    BY <1>6, <2>1, <2>2
<1> QED
  BY <1>1, <1>2, <1>6, <1>8

\* A function of 1..n is a list.
LEMMA FunctionIsList ==
  ASSUME NEW n \in Nat, NEW s, s = [i \in 1..n |-> s[i]]
  PROVE  IsSeq(s) /\ Len(s) = n /\ DOMAIN s = 1..n
<1>1. DOMAIN s = 1..n
  OBVIOUS
<1>2. \A i \in 1..n : s[i] \in ToSet(s)
  BY <1>1 DEF ToSet
<1>3. s \in Seq(ToSet(s)) /\ Len(s) = n
  BY <1>2
<1> QED
  BY <1>1, <1>3 DEF IsSeq

\* Lists put together, with the elements of each.
LEMMA FlattenedLists ==
  ASSUME NEW n \in Nat, NEW ss, ss = [i \in 1..n |-> ss[i]], \A i \in 1..n : IsSeq(ss[i])
  PROVE  /\ IsSeq(FlattenSeq(ss))
         /\ \A x : x \in ToSet(FlattenSeq(ss)) <=> \E i \in 1..n : x \in ToSet(ss[i])
<1> DEFINE U == UNION {ToSet(ss[i]) : i \in 1..n}
<1>1. DOMAIN ss = 1..n
  OBVIOUS
<1>2. ASSUME NEW i \in 1..n PROVE ss[i] \in Seq(U)
  <2>1. ss[i] \in Seq(ToSet(ss[i])) /\ ToSet(ss[i]) \subseteq U
    BY <1>2 DEF IsSeq
  <2>2. PICK q, T : q = ss[i] /\ T = ToSet(ss[i])
    OBVIOUS
  <2> HIDE DEF U
  <2>3. q \in Seq(T) /\ T \subseteq U
    BY <2>1, <2>2
  <2>4. q \in Seq(U)
    BY <2>3, Z3
  <2> QED
    BY <2>2, <2>4
<1> HIDE DEF U
<1>3. ss \in Seq(Seq(U))
  BY <1>2
<1>4. PICK f : f = FlattenSeq(ss)
  OBVIOUS
<1>5. f \in Seq(U) /\ \A x : x \in ToSet(f) <=> \E i \in 1..n : x \in ToSet(ss[i])
  BY <1>1, <1>3, <1>4, Flattened
<1>6. f \in Seq(ToSet(f))
  <2>1. PICK m \in Nat : DOMAIN f = 1..m /\ m = Len(f)
    BY <1>5
  <2>2. \A i \in 1..m : f[i] \in ToSet(f)
    BY <2>1 DEF ToSet
  <2>3. f = [i \in 1..m |-> f[i]]
    BY <1>5, <2>1
  <2> QED
    BY <2>2, <2>3
<1> QED
  BY <1>4, <1>5, <1>6 DEF IsSeq

\* Two lists put together.
LEMMA JoinedLists ==
  ASSUME NEW s, NEW t, IsSeq(s), IsSeq(t)
  PROVE  IsSeq(s \o t) /\ ToSet(s \o t) = ToSet(s) \cup ToSet(t)
<1> DEFINE U == ToSet(s) \cup ToSet(t)
<1>1. s \in Seq(ToSet(s)) /\ t \in Seq(ToSet(t)) /\ ToSet(s) \subseteq U /\ ToSet(t) \subseteq U
  BY DEF IsSeq
<1> HIDE DEF U
<1>2. s \in Seq(U) /\ t \in Seq(U)
  <2>1. PICK A, B : A = ToSet(s) /\ B = ToSet(t)
    OBVIOUS
  <2>2. s \in Seq(A) /\ t \in Seq(B) /\ A \subseteq U /\ B \subseteq U
    BY <1>1, <2>1
  <2> QED
    BY <2>2, Z3
<1>3. ToSet(s \o t) = U
  BY <1>2, Concatenated DEF U
<1>4. s \o t \in Seq(U)
  BY <1>2
<1> QED
  BY <1>3, <1>4 DEF IsSeq, U

\* The first elements of a list.
LEMMA FirstOnes ==
  ASSUME NEW s, IsSeq(s), NEW n \in Nat, n <= Len(s)
  PROVE  IsSeq(SubSeq(s, 1, n)) /\ ToSet(SubSeq(s, 1, n)) \subseteq ToSet(s)
<1>1. s \in Seq(ToSet(s)) /\ Len(s) \in Nat /\ DOMAIN s = 1..Len(s)
  BY SeqFacts DEF IsSeq
<1>2. PICK q : q = SubSeq(s, 1, n)
  OBVIOUS
<1>3. q = [i \in 1..n |-> s[i]]
  BY <1>1, <1>2
<1>4. q = [i \in 1..n |-> q[i]] /\ DOMAIN q = 1..n /\ \A i \in 1..n : q[i] = s[i] /\ i \in DOMAIN s
  BY <1>1, <1>3
<1>5. IsSeq(q)
  BY <1>4, FunctionIsList
<1>6. ToSet(q) \subseteq ToSet(s)
  BY <1>4 DEF ToSet
<1> QED
  BY <1>2, <1>5, <1>6

(*--------------------------------- paths ---------------------------------*)

\* Normalizing a path twice changes nothing more.
LEMMA NormalizedOnce ==
  ASSUME NEW path, IsSeq(path)
  PROVE  IsSeq(NormalizeApiPath(path)) /\ NormalizeApiPath(NormalizeApiPath(path)) = NormalizeApiPath(path)
<1>1. PICK q : q = NormalizeApiPath(path)
  OBVIOUS
<1>2. IsSeq(q) /\ \A x \in ToSet(q) : x # <<>>
  BY <1>1, PickedList DEF NormalizeApiPath
<1>3. DOMAIN q \subseteq {i \in DOMAIN q : q[i] # <<>>}
  BY <1>2 DEF ToSet
<1>4. NormalizeApiPath(q) = q
  BY <1>2, <1>3, PickedAll DEF NormalizeApiPath
<1> QED
  BY <1>1, <1>2, <1>4

\* So a template's score does not depend on its spelling.
LEMMA NormalizedScore ==
  ASSUME NEW template, IsSeq(template), NEW path
  PROVE  TemplateMatchScore(NormalizeApiPath(template), path) = TemplateMatchScore(template, path)
  BY NormalizedOnce DEF TemplateMatchScore

\* A score is an integer.
LEMMA ScoreIsInt ==
  ASSUME NEW template, IsSeq(template), NEW path
  PROVE  TemplateMatchScore(template, path) \in Int
<1>1. PICK expected : expected = NormalizeApiPath(template) /\ IsSeq(expected)
  BY NormalizedOnce
<1>2. PICK actual : actual = NormalizeApiPath(path)
  OBVIOUS
<1> DEFINE Matching(score) == {i \in DOMAIN expected : SegmentScore(expected[i], actual[i]) >= score}
<1>3. \A score : Cardinality(Matching(score)) \in Nat
  <2>1. PICK n \in Nat : DOMAIN expected = 1..n
    BY <1>1, SeqFacts
  <2>2. IsFiniteSet(1..n)
    BY FS_Interval
  <2> SUFFICES ASSUME NEW score PROVE Cardinality(Matching(score)) \in Nat
    OBVIOUS
  <2>3. Matching(score) \subseteq 1..n
    BY <2>1
  <2> HIDE DEF Matching
  <2>4. IsFiniteSet(Matching(score))
    BY <2>2, <2>3, FS_Subset
  <2> QED
    BY <2>4, FS_CardinalityType
<1>4. Cardinality(Matching(1)) + Cardinality(Matching(2)) \in Int
  <2>1. PICK a, b : a = Cardinality(Matching(1)) /\ b = Cardinality(Matching(2))
    OBVIOUS
  <2>2. a \in Nat /\ b \in Nat
    BY <1>3, <2>1
  <2> QED
    BY <2>1, <2>2
<1>5. SegmentScores(expected, actual) \in {-1, Cardinality(Matching(1)) + Cardinality(Matching(2))}
  BY DEF SegmentScores
<1> QED
  BY <1>1, <1>2, <1>4, <1>5 DEF TemplateMatchScore

\* The operation a request is counted for has its method, and a template its path fits.
LEMMA MatchFits ==
  ASSUME NEW operations, IsSeq(operations), \A o \in ToSet(operations) : IsSeq(o.path),
         NEW request, NEW i \in DOMAIN operations, MatchOperation(operations, request) = i
  PROVE  operations[i].method = request.method /\ TemplateMatchScore(operations[i].path, request.path) >= 0
<1> DEFINE Score(k) == IF operations[k].method = request.method
                       THEN TemplateMatchScore(operations[k].path, request.path) ELSE -1
           fits == {k \in DOMAIN operations : Score(k) >= 0}
           First(k) == k \in fits /\ \A j \in fits : Score(j) < Score(k) \/ (Score(j) = Score(k) /\ k <= j)
<1>1. PICK n \in Nat : DOMAIN operations = 1..n
  BY SeqFacts
<1>2. \A k \in 1..n : Score(k) \in Int
  <2> SUFFICES ASSUME NEW k \in 1..n PROVE Score(k) \in Int
    OBVIOUS
  <2>1. IsSeq(operations[k].path)
    BY <1>1 DEF ToSet
  <2>2. PICK v : v = TemplateMatchScore(operations[k].path, request.path)
    OBVIOUS
  <2>3. v \in Int
    BY <2>1, <2>2, ScoreIsInt
  <2> QED
    BY <2>2, <2>3
<1>3. fits # {}
  <2>1. fits = {} => MatchOperation(operations, request) = 0
    BY DEF MatchOperation
  <2>2. i # 0
    BY <1>1
  <2> QED
    BY <2>1, <2>2
<1>4. \E k : First(k)
  <2>1. PICK score : score = [k \in 1..n |-> Score(k)]
    OBVIOUS
  <2>2. \A k \in 1..n : score[k] = Score(k) /\ score[k] \in Int
    BY <1>2, <2>1
  <2>3. fits \subseteq 1..n
    BY <1>1
  <2> HIDE DEF Score, fits
  <2>4. PICK k \in fits : \A j \in fits : score[j] < score[k] \/ (score[j] = score[k] /\ k <= j)
    BY <1>3, <2>2, <2>3, Foremost
  <2> QED
    BY <2>2, <2>3, <2>4
<1>5. MatchOperation(operations, request) =
        CHOOSE k \in fits : \A j \in fits : Score(j) < Score(k) \/ (Score(j) = Score(k) /\ k <= j)
  BY <1>3 DEF MatchOperation
<1>6. i \in fits
  <2>1. PICK F : F = fits
    OBVIOUS
  <2> HIDE DEF Score, fits
  <2> QED
    BY <1>4, <1>5
<1>7. Score(i) >= 0
  BY <1>6
<1> QED
  BY <1>7

(*------------------------------ the inventory ----------------------------*)

\* Of each operation of a list, one with its key is kept.
LEMMA OneOfEach ==
  ASSUME NEW operations, IsSeq(operations)
  PROVE  /\ IsSeq(FirstOfEach(operations)) /\ ToSet(FirstOfEach(operations)) \subseteq ToSet(operations)
         /\ \A o \in ToSet(operations) : \E k \in ToSet(FirstOfEach(operations)) : k.method = o.method /\ k.path = o.path
<1> DEFINE firsts == {n \in DOMAIN operations : \A i \in 1..(n - 1) : ~SameOperation(operations[i], operations[n])}
<1>1. PICK n \in Nat : DOMAIN operations = 1..n
  BY SeqFacts
<1>2. FirstOfEach(operations) = Picked(operations, firsts)
  BY DEF FirstOfEach
<1>3. PICK P : P = firsts
  OBVIOUS
<1>4. PICK kept : kept = FirstOfEach(operations)
  OBVIOUS
<1> HIDE DEF firsts
<1>5. IsSeq(kept) /\ \A x : x \in ToSet(kept) <=> \E i \in DOMAIN operations : i \in P /\ x = operations[i]
  BY <1>2, <1>3, <1>4, PickedList
<1>6. ToSet(kept) \subseteq ToSet(operations)
  BY <1>5 DEF ToSet
<1>7. ASSUME NEW o \in ToSet(operations)
      PROVE  \E k \in ToSet(kept) : k.method = o.method /\ k.path = o.path
  <2>1. PICK m \in DOMAIN operations : o = operations[m]
    BY DEF ToSet
  <2> DEFINE S == {i \in 1..n : SameOperation(operations[i], o)}
  <2>2. m \in S
    BY <1>1, <2>1 DEF SameOperation
  <2>3. PICK i \in S : \A j \in S : i <= j
    <3>1. S \subseteq Nat /\ S # {}
      BY <2>2
    <3> HIDE DEF S
    <3> QED
      BY <3>1, Least
  <2>4. i \in P
    <3> SUFFICES ASSUME NEW j \in 1..(i - 1), SameOperation(operations[j], operations[i]) PROVE FALSE
      BY <1>1, <1>3, <2>3 DEF firsts
    <3>1. j \in 1..n /\ j < i
      BY <2>3
    <3>2. SameOperation(operations[j], o)
      BY <2>3 DEF SameOperation
    <3> QED
      BY <2>3, <3>1, <3>2
  <2>5. operations[i] \in ToSet(kept)
    BY <1>1, <1>5, <2>3, <2>4
  <2>6. operations[i].method = o.method /\ operations[i].path = o.path
    BY <2>3 DEF SameOperation, OperationKey
  <2> QED
    BY <2>5, <2>6
<1> QED
  BY <1>4, <1>5, <1>6, <1>7

\* Put in an order, a list has the same elements.
LEMMA OrderedList ==
  ASSUME NEW s, IsSeq(s), NEW number, DOMAIN number = DOMAIN s,
         \A i \in DOMAIN s : number[i] \in Nat \ {0}
  PROVE  IsSeq(Ordered(s, number)) /\ ToSet(Ordered(s, number)) = ToSet(s)
<1> DEFINE numbers == Range(number)
           At(n) == Picked(s, {i \in DOMAIN s : number[i] = n})
<1>1. PICK N \in Nat : N = Len(s) /\ DOMAIN s = 1..N
  BY SeqFacts
<1>2. \A i \in 1..N : number[i] \in Nat \ {0}
  BY <1>1
<1>3. PICK last : last = IF s = <<>> THEN 0 ELSE Max(numbers)
  OBVIOUS
<1>4. last \in Nat /\ \A i \in 1..N : number[i] \in 1..last
  <2>1. CASE s = <<>>
    <3>1. N = 0 /\ last = 0
      BY <1>1, <1>3, <2>1
    <3> QED
      BY <3>1
  <2>2. CASE s # <<>>
    <3>1. N # 0
      <4>1. s \in Seq(ToSet(s)) /\ Len(s) = N
        BY <1>1 DEF IsSeq
      <4> QED
        BY <2>2, <4>1
    <3> DEFINE Bound(m) == \E b \in Nat : \A i \in 1..m : number[i] <= b
               S == {m \in 0..N : Bound(m)}
    <3>2. 0 \in S
      BY <1>1
    <3>3. ASSUME NEW m \in 1..N, m - 1 \in S PROVE m \in S
      <4>1. PICK b \in Nat : \A i \in 1..(m - 1) : number[i] <= b
        BY <3>3
      <4>2. PICK d \in Nat : d = number[m]
        BY <1>2
      <4>3. PICK c \in Nat : c >= b /\ c >= d
        <5>1. b + d \in Nat /\ b + d >= b /\ b + d >= d
          BY <4>2
        <5> QED
          BY <5>1
      <4>4. \A i \in 1..m : i \in 1..N /\ (i \in 1..(m - 1) \/ i = m)
        BY <1>1
      <4>5. \A i \in 1..m : number[i] <= c
        BY <1>2, <4>1, <4>2, <4>3, <4>4
      <4> QED
        BY <1>1, <4>5
    <3> HIDE DEF S
    <3>4. 0..N \subseteq S
      BY <1>1, <3>2, <3>3, Climb
    <3>5. N \in S
      BY <1>1, <3>4
    <3>6. PICK b \in Nat : \A i \in 1..N : number[i] <= b
      BY <3>5 DEF S
    <3>7. PICK D : D = numbers
      OBVIOUS
    <3>8. D = {number[i] : i \in 1..N}
      BY <1>1, <3>7 DEF Range
    <3>9. D \subseteq 1..b /\ D # {}
      BY <1>1, <1>2, <3>1, <3>6, <3>8
    <3>10. \E x \in D : \A y \in D : x >= y
      BY <3>9, Greatest
    <3>11. Max(D) \in D /\ \A y \in D : Max(D) >= y
      BY <3>10 DEF Max
    <3>12. last = Max(D)
      BY <1>3, <2>2, <3>7
    <3>13. last \in Nat /\ \A y \in D : y \in 1..last
      <4>1. last \in D /\ \A y \in D : last >= y
        BY <3>11, <3>12
      <4>2. \A y \in D : y \in Nat /\ y >= 1
        BY <3>9
      <4> HIDE DEF numbers
      <4> QED
        BY <4>1, <4>2
    <3> QED
      BY <1>1, <3>13, <3>8
  <2> QED
    BY <2>1, <2>2
<1>5. PICK ss : ss = [n \in 1..last |-> At(n)]
  OBVIOUS
<1>6. \A d \in 1..last : /\ IsSeq(ss[d])
                         /\ \A x : x \in ToSet(ss[d]) <=> \E i \in DOMAIN s : number[i] = d /\ x = s[i]
  <2> SUFFICES ASSUME NEW d \in 1..last
               PROVE  /\ IsSeq(ss[d])
                      /\ \A x : x \in ToSet(ss[d]) <=> \E i \in DOMAIN s : number[i] = d /\ x = s[i]
    OBVIOUS
  <2>4. ss[d] = At(d)
    BY <1>5
  <2>1. PICK P : P = {i \in DOMAIN s : number[i] = d}
    OBVIOUS
  <2>2. ss[d] = Picked(s, P)
    BY <2>1, <2>4
  <2>3. IsSeq(ss[d]) /\ \A x : x \in ToSet(ss[d]) <=> \E i \in DOMAIN s : i \in P /\ x = s[i]
    BY <2>2, PickedList
  <2> HIDE DEF At, numbers
  <2> QED
    BY <2>1, <2>3
<1>7. ss = [d \in 1..last |-> ss[d]]
  <2> HIDE DEF At, numbers
  <2> QED
    BY <1>5
<1>8. Ordered(s, number) = FlattenSeq(ss)
  BY <1>3, <1>5 DEF Ordered
<1>9. PICK all : all = FlattenSeq(ss)
  OBVIOUS
<1> HIDE DEF At, numbers
<1>10. IsSeq(all) /\ \A x : x \in ToSet(all) <=> \E d \in 1..last : x \in ToSet(ss[d])
  <2>1. \A d \in 1..last : IsSeq(ss[d])
    BY <1>6
  <2>2. IsSeq(FlattenSeq(ss)) /\ \A x : x \in ToSet(FlattenSeq(ss)) <=> \E d \in 1..last : x \in ToSet(ss[d])
    BY <1>4, <1>7, <2>1, FlattenedLists
  <2> QED
    BY <1>9, <2>2
<1>11. \A x : x \in ToSet(all) <=> \E i \in DOMAIN s : x = s[i]
  <2>1. ASSUME NEW x \in ToSet(all) PROVE \E i \in DOMAIN s : x = s[i]
    <3>1. PICK d \in 1..last : x \in ToSet(ss[d])
      BY <1>10, <2>1
    <3> QED
      BY <1>6, <3>1
  <2>2. ASSUME NEW i \in DOMAIN s PROVE s[i] \in ToSet(all)
    <3>1. PICK d \in 1..last : d = number[i]
      BY <1>1, <1>4
    <3>2. s[i] \in ToSet(ss[d])
      BY <1>6, <3>1
    <3> QED
      BY <1>10, <3>2
  <2> QED
    BY <2>1, <2>2
<1>12. ToSet(all) = ToSet(s)
  BY <1>11 DEF ToSet
<1> QED
  BY <1>8, <1>10, <1>12, <1>9

\* Put in the order of their depth, files are a list of the same files.
LEMMA InDepthOrder ==
  ASSUME NEW files, IsSeq(files), \A f \in ToSet(files) : f.depth \in Nat \ {0}
  PROVE  IsSeq(ByDepth(files)) /\ ToSet(ByDepth(files)) = ToSet(files)
<1>1. PICK number : number = [i \in DOMAIN files |-> files[i].depth]
  OBVIOUS
<1>2. DOMAIN number = DOMAIN files /\ \A i \in DOMAIN files : number[i] \in Nat \ {0}
  BY <1>1 DEF ToSet
<1>3. ByDepth(files) = Ordered(files, number)
  BY <1>1 DEF ByDepth
<1> QED
  BY <1>2, <1>3, OrderedList

\* The files discovery may open: the candidates that are not oversized.
LEMMA Candidates ==
  ASSUME NEW files, IsSeq(files),
         \A f \in ToSet(files) : f.depth \in Nat \ {0} /\ f.named \in BOOLEAN
  PROVE  /\ IsSeq(ContractCandidatePaths(files))
         /\ \A f : f \in ToSet(ContractCandidatePaths(files)) <=>
              f \in ToSet(files) /\ ContractCandidate(f) /\ ~f.oversized
<1> DEFINE Fit(named) == Picked(files, {i \in DOMAIN files : /\ ContractCandidate(files[i]) /\ ~files[i].oversized
                                                             /\ files[i].named = named})
<1>1. ASSUME NEW named
      PROVE  /\ IsSeq(ByDepth(Fit(named)))
             /\ \A f : f \in ToSet(ByDepth(Fit(named))) <=>
                  f \in ToSet(files) /\ ContractCandidate(f) /\ ~f.oversized /\ f.named = named
  <2>1. PICK P : P = {i \in DOMAIN files : /\ ContractCandidate(files[i]) /\ ~files[i].oversized
                                           /\ files[i].named = named}
    OBVIOUS
  <2>2. PICK fit : fit = Fit(named)
    OBVIOUS
  <2>3. fit = Picked(files, P)
    BY <2>1, <2>2
  <2>4. IsSeq(fit) /\ \A f : f \in ToSet(fit) <=> \E i \in DOMAIN files : i \in P /\ f = files[i]
    BY <2>3, PickedList
  <2>5. \A f : f \in ToSet(fit) <=> f \in ToSet(files) /\ ContractCandidate(f) /\ ~f.oversized /\ f.named = named
    BY <2>1, <2>4 DEF ToSet
  <2>6. \A f \in ToSet(fit) : f.depth \in Nat \ {0}
    BY <2>5
  <2> HIDE DEF Fit
  <2>7. IsSeq(ByDepth(fit)) /\ ToSet(ByDepth(fit)) = ToSet(fit)
    BY <2>4, <2>6, InDepthOrder
  <2> QED
    BY <2>2, <2>5, <2>7
<1>2. PICK a, b : a = ByDepth(Fit(TRUE)) /\ b = ByDepth(Fit(FALSE))
  OBVIOUS
<1>3. ContractCandidatePaths(files) = a \o b
  BY <1>2 DEF ContractCandidatePaths
<1>6. PICK yes, no : yes = TRUE /\ no = FALSE
  OBVIOUS
<1>4. /\ IsSeq(a) /\ IsSeq(b)
      /\ \A f : f \in ToSet(a) <=> f \in ToSet(files) /\ ContractCandidate(f) /\ ~f.oversized /\ f.named = yes
      /\ \A f : f \in ToSet(b) <=> f \in ToSet(files) /\ ContractCandidate(f) /\ ~f.oversized /\ f.named = no
  <2> HIDE DEF Fit
  <2>1. a = ByDepth(Fit(yes)) /\ b = ByDepth(Fit(no))
    BY <1>2, <1>6
  <2> QED
    BY <1>1, <2>1
<1>5. IsSeq(a \o b) /\ ToSet(a \o b) = ToSet(a) \cup ToSet(b)
  BY <1>4, JoinedLists
<1>7. \A f : f \in ToSet(a \o b) <=> f \in ToSet(files) /\ ContractCandidate(f) /\ ~f.oversized
  BY <1>4, <1>5, <1>6
<1> QED
  BY <1>3, <1>5, <1>7

\* One of each operation is as good as all of them.
LEMMA FirstsDocument ==
  ASSUME NEW operations, AreOperations(operations)
  PROVE  /\ AreOperations(FirstOfEach(operations))
         /\ \A c : Documented(c, operations) => Documented(c, FirstOfEach(operations))
<1>1. PICK kept : kept = FirstOfEach(operations)
  OBVIOUS
<1>2. /\ IsSeq(kept) /\ ToSet(kept) \subseteq ToSet(operations)
      /\ \A o \in ToSet(operations) : \E k \in ToSet(kept) : k.method = o.method /\ k.path = o.path
  BY <1>1, OneOfEach DEF AreOperations
<1>3. AreOperations(kept)
  BY <1>2 DEF AreOperations
<1>4. ASSUME NEW c, Documented(c, operations) PROVE Documented(c, kept)
  <2>1. ASSUME NEW item \in ToSet(c.items), NEW o \in ToSet(item.operations) PROVE Listed(item.path, o, kept)
    <3>1. Listed(item.path, o, operations)
      BY <1>4, <2>1 DEF Documented
    <3> QED
      BY <1>2, <3>1 DEF Listed
  <2> QED
    BY <1>4, <2>1 DEF Documented
<1> QED
  BY <1>1, <1>3, <1>4

\* What is extracted from a contract without gaps is all that it documents.
LEMMA ExtractedWhole ==
  ASSUME NEW c, IsDocument(c)
  PROVE  /\ AreOperations(ExtractApiOperations(c).operations)
         /\ ExtractApiOperations(c).incomplete = {} => Documented(c, ExtractApiOperations(c).operations)
<1> DEFINE OperationAt(item, j) ==
             [method |-> item.operations[j].method, path |-> NormalizeApiPath(item.path),
              success |-> SuccessStatus(item.operations[j].statuses), statuses |-> item.operations[j].statuses]
           Of(item) == [j \in DOMAIN item.operations |-> OperationAt(item, j)]
<1>1. PICK n \in Nat : DOMAIN c.items = 1..n
  BY SeqFacts DEF IsDocument
<1>2. \A i \in 1..n : c.items[i] \in ToSet(c.items)
  BY <1>1 DEF ToSet
<1>3. PICK ss : ss = [i \in 1..n |-> Of(c.items[i])]
  OBVIOUS
<1>4. PICK all : all = FlattenSeq(ss)
  OBVIOUS
<1>5. ASSUME NEW i \in 1..n
      PROVE  /\ IsSeq(ss[i]) /\ \A o \in ToSet(ss[i]) : IsSeq(o.path)
             /\ \A o \in ToSet(c.items[i].operations) : \E k \in ToSet(ss[i]) :
                  k.method = o.method /\ k.path = NormalizeApiPath(c.items[i].path)
  <2>1. PICK item : item = c.items[i] /\ IsSeq(item.path) /\ IsSeq(item.operations)
    BY <1>2 DEF IsDocument
  <2>2. PICK s : s = ss[i]
    OBVIOUS
  <2>3. s = Of(item)
    BY <1>3, <2>1, <2>2
  <2>4. PICK m \in Nat : DOMAIN item.operations = 1..m
    BY <2>1, SeqFacts
  <2>5. s = [j \in 1..m |-> OperationAt(item, j)]
    BY <2>3, <2>4
  <2>6. ASSUME NEW j \in 1..m
        PROVE  s[j].method = item.operations[j].method /\ s[j].path = NormalizeApiPath(item.path)
    <3>1. s[j] = OperationAt(item, j)
      BY <2>5
    <3> QED
      BY <3>1
  <2>7. s = [j \in 1..m |-> s[j]]
    BY <2>5
  <2>8. IsSeq(s) /\ DOMAIN s = 1..m
    BY <2>7, FunctionIsList
  <2>9. IsSeq(NormalizeApiPath(item.path))
    BY <2>1, NormalizedOnce
  <2>10. \A o \in ToSet(s) : IsSeq(o.path)
    BY <2>6, <2>8, <2>9 DEF ToSet
  <2>11. ASSUME NEW o \in ToSet(item.operations)
         PROVE  \E k \in ToSet(s) : k.method = o.method /\ k.path = NormalizeApiPath(item.path)
    <3>1. PICK j \in 1..m : o = item.operations[j]
      BY <2>4 DEF ToSet
    <3>2. s[j] \in ToSet(s)
      BY <2>8 DEF ToSet
    <3> QED
      BY <2>6, <3>1, <3>2
  <2> QED
    BY <2>1, <2>2, <2>8, <2>10, <2>11
<1>6. ss = [i \in 1..n |-> ss[i]]
  BY <1>3
<1>7. IsSeq(all) /\ \A x : x \in ToSet(all) <=> \E i \in 1..n : x \in ToSet(ss[i])
  <2>1. \A i \in 1..n : IsSeq(ss[i])
    BY <1>5
  <2>2. IsSeq(FlattenSeq(ss)) /\ \A x : x \in ToSet(FlattenSeq(ss)) <=> \E i \in 1..n : x \in ToSet(ss[i])
    BY <1>6, <2>1, FlattenedLists
  <2> QED
    BY <1>4, <2>2
<1>8. PICK P : P = {m \in DOMAIN all : all[m].method \in SupportedMethods}
  OBVIOUS
<1>9. PICK supported : supported = Picked(all, P)
  OBVIOUS
<1>10. IsSeq(supported) /\ \A x : x \in ToSet(supported) <=> \E m \in DOMAIN all : m \in P /\ x = all[m]
  BY <1>7, <1>9, PickedList
<1>11. \A x : x \in ToSet(supported) <=> x \in ToSet(all) /\ x.method \in SupportedMethods
  BY <1>8, <1>10 DEF ToSet
<1>12. AreOperations(supported)
  <2>1. ASSUME NEW o \in ToSet(supported) PROVE IsSeq(o.path)
    <3>1. PICK i \in 1..n : o \in ToSet(ss[i])
      BY <1>7, <1>11
    <3> QED
      BY <1>5, <3>1
  <2> QED
    BY <1>10, <2>1 DEF AreOperations
<1>13. PICK E : E = ExtractApiOperations(c)
  OBVIOUS
<1>14. /\ E.operations = FirstOfEach(supported)
       /\ E.incomplete = {i.path : i \in {i \in ToSet(c.items) : Unresolved(i)}}
  <2>1. E.operations = FirstOfEach(Picked(FlattenSeq([i \in DOMAIN c.items |-> Of(c.items[i])]),
           {m \in DOMAIN FlattenSeq([i \in DOMAIN c.items |-> Of(c.items[i])]) :
              FlattenSeq([i \in DOMAIN c.items |-> Of(c.items[i])])[m].method \in SupportedMethods}))
    BY <1>13 DEF ExtractApiOperations, Inventory
  <2>2. FlattenSeq([i \in DOMAIN c.items |-> Of(c.items[i])]) = all
    BY <1>1, <1>3, <1>4
  <2> HIDE DEF Of
  <2>3. E.operations = FirstOfEach(supported)
    BY <1>8, <1>9, <2>1, <2>2
  <2>4. E.incomplete = {i.path : i \in {i \in ToSet(c.items) : Unresolved(i)}}
    BY <1>13 DEF ExtractApiOperations, Inventory
  <2> QED
    BY <2>3, <2>4
<1> HIDE DEF Of
<1>15. ASSUME E.incomplete = {} PROVE Documented(c, supported)
  <2>1. ASSUME NEW item \in ToSet(c.items) PROVE ~Unresolved(item)
    BY <1>14, <1>15
  <2>2. ASSUME NEW item \in ToSet(c.items), NEW o \in ToSet(item.operations), o.method \in SupportedMethods
        PROVE  \E k \in ToSet(supported) : k.method = o.method /\ k.path = NormalizeApiPath(item.path)
    <3>1. PICK i \in 1..n : item = c.items[i]
      BY <1>1 DEF ToSet
    <3>2. PICK k \in ToSet(ss[i]) : k.method = o.method /\ k.path = NormalizeApiPath(item.path)
      BY <1>5, <2>2, <3>1
    <3>3. k \in ToSet(supported)
      BY <1>7, <1>11, <2>2, <3>2
    <3> QED
      BY <3>2, <3>3
  <2> QED
    BY <2>1, <2>2 DEF Documented, Listed
<1> QED
  BY <1>12, <1>13, <1>14, <1>15, FirstsDocument

\* Several contracts put together.
LEMMA Together ==
  ASSUME NEW contracts, IsSeq(contracts), \A c \in ToSet(contracts) : IsDocument(c), NEW each,
         each = [i \in DOMAIN contracts |-> ExtractApiOperations(contracts[i])], NEW operations,
         operations = FirstOfEach(FlattenSeq([i \in DOMAIN each |-> each[i].operations]))
  PROVE  /\ AreOperations(operations)
         /\ \A i \in DOMAIN contracts : each[i].incomplete = {} => Documented(contracts[i], operations)
<1>1. PICK n \in Nat : DOMAIN contracts = 1..n
  BY SeqFacts
<1>2. DOMAIN each = 1..n /\ \A i \in 1..n : each[i] = ExtractApiOperations(contracts[i])
  BY <1>1
<1>3. ASSUME NEW i \in 1..n
      PROVE  /\ AreOperations(each[i].operations)
             /\ each[i].incomplete = {} => Documented(contracts[i], each[i].operations)
  <2>1. IsDocument(contracts[i])
    BY <1>1 DEF ToSet
  <2> QED
    BY <1>2, <2>1, ExtractedWhole
<1>4. PICK ss : ss = [i \in 1..n |-> each[i].operations]
  OBVIOUS
<1>5. ss = [i \in 1..n |-> ss[i]] /\ \A i \in 1..n : ss[i] = each[i].operations
  BY <1>4
<1>6. \A i \in 1..n : IsSeq(ss[i])
  BY <1>3, <1>5 DEF AreOperations
<1>7. PICK all : all = FlattenSeq(ss)
  OBVIOUS
<1>8. IsSeq(all) /\ \A x : x \in ToSet(all) <=> \E i \in 1..n : x \in ToSet(ss[i])
  <2>1. IsSeq(FlattenSeq(ss)) /\ \A x : x \in ToSet(FlattenSeq(ss)) <=> \E i \in 1..n : x \in ToSet(ss[i])
    BY <1>5, <1>6, FlattenedLists
  <2> QED
    BY <1>7, <2>1
<1>9. AreOperations(all)
  <2>1. ASSUME NEW o \in ToSet(all) PROVE IsSeq(o.path)
    <3>1. PICK i \in 1..n : o \in ToSet(ss[i])
      BY <1>8
    <3> QED
      BY <1>3, <1>5, <3>1 DEF AreOperations
  <2> QED
    BY <1>8, <2>1 DEF AreOperations
<1>10. ASSUME NEW i \in 1..n, each[i].incomplete = {} PROVE Documented(contracts[i], all)
  <2>1. Documented(contracts[i], ss[i]) /\ ToSet(ss[i]) \subseteq ToSet(all)
    BY <1>3, <1>5, <1>8, <1>10
  <2> QED
    BY <2>1 DEF Documented, Listed
<1>11. operations = FirstOfEach(all)
  BY <1>2, <1>4, <1>7
<1> QED
  BY <1>1, <1>9, <1>10, <1>11, FirstsDocument

\* A path item over the one it refers to has the operations of both, the target's under its own path.
LEMMA MergedItem ==
  ASSUME NEW item, IsSeq(item.operations), NEW target, IsSeq(target.operations), NEW merged,
         merged = Merged(item, target)
  PROVE  /\ merged.path = item.path /\ merged.ref = target.ref /\ IsSeq(merged.operations)
         /\ ~Unresolved(merged) /\ OnlyRef(item) => ~OnlyRef(target)
         /\ \A o \in ToSet(item.operations) : o \in ToSet(merged.operations)
         /\ \A o \in ToSet(target.operations) : \E k \in ToSet(merged.operations) : k.method = o.method
<1>1. PICK P : P = {j \in DOMAIN target.operations :
                      \A own \in ToSet(item.operations) : own.method # target.operations[j].method}
  OBVIOUS
<1>2. PICK added : added = Picked(target.operations, P)
  OBVIOUS
<1>3. IsSeq(added) /\ \A o : o \in ToSet(added) <=> \E j \in DOMAIN target.operations : j \in P /\ o = target.operations[j]
  BY <1>2, PickedList
<1>4. merged = [path |-> item.path, ref |-> target.ref, operations |-> item.operations \o added]
  BY <1>1, <1>2 DEF Merged, Added
<1>5. PICK all : all = item.operations \o added
  OBVIOUS
<1>6. IsSeq(all) /\ ToSet(all) = ToSet(item.operations) \cup ToSet(added)
  BY <1>3, <1>5, JoinedLists
<1>7. merged.path = item.path /\ merged.ref = target.ref /\ merged.operations = all
  BY <1>4, <1>5
<1>8. ASSUME NEW o \in ToSet(target.operations) PROVE \E k \in ToSet(all) : k.method = o.method
  <2>1. PICK j \in DOMAIN target.operations : o = target.operations[j]
    BY DEF ToSet
  <2>2. CASE j \in P
    BY <1>3, <1>6, <2>1, <2>2
  <2>3. CASE j \notin P
    BY <1>1, <1>6, <2>1, <2>3
  <2> QED
    BY <2>2, <2>3
<1>9. ASSUME ~Unresolved(merged), OnlyRef(item), OnlyRef(target) PROVE FALSE
  <2>1. item.operations = <<>> /\ target.operations = <<>>
    BY <1>9 DEF OnlyRef
  <2>2. ToSet(all) = {}
    <3>1. item.operations \in Seq({}) /\ target.operations \in Seq({})
      BY <2>1
    <3>2. ToSet(item.operations) = {} /\ DOMAIN target.operations = {}
      BY <3>1, EmptyElements, SeqFacts DEF ToSet
    <3> QED
      BY <1>3, <1>6, <3>2
  <2>3. all = <<>>
    <3>1. all \in Seq({})
      BY <1>6, <2>2 DEF IsSeq
    <3> QED
      BY <3>1
  <2> QED
    BY <1>7, <1>9, <2>3 DEF Unresolved, OnlyRef
<1> QED
  BY <1>6, <1>7, <1>8, <1>9

\* A path item whose reference is resolved: what documents it then documents also what it refers to.
LEMMA ResolvedItem ==
  ASSUME NEW files, AreDocuments(files), NEW item, IsSeq(item.path), IsSeq(item.operations),
         NEW r, r = ResolvePathItem(files, item)
  PROVE  /\ r.path = item.path /\ IsSeq(r.operations)
         /\ ~Unresolved(r) => (OnlyRef(item) => \E target \in Followed(files, item) : ~OnlyRef(target))
         /\ \A o \in ToSet(item.operations) : \E k \in ToSet(r.operations) : k.method = o.method
         /\ \A target \in Followed(files, item) : \A o \in ToSet(target.operations) :
              \E k \in ToSet(r.operations) : k.method = o.method
<1>1. PICK held : held = Held(files, item.ref)
  OBVIOUS
<1>2. CASE item.ref = "none" \/ held = {}
  <2>1. r = item
    BY <1>1, <1>2 DEF ResolvePathItem
  <2>2. Followed(files, item) = {}
    BY <1>1, <1>2 DEF Followed
  <2>3. ~Unresolved(item) <=> ~OnlyRef(item)
    BY DEF Unresolved, OnlyRef
  <2> QED
    BY <2>1, <2>2, <2>3
<1>3. CASE item.ref # "none" /\ held # {}
  <2>1. PICK target : target = CHOOSE t \in held : TRUE
    OBVIOUS
  <2>2. target \in held
    BY <1>3, <2>1
  <2>3. r = Merged(item, target)
    BY <1>1, <1>3, <2>1 DEF ResolvePathItem
  <2>4. Followed(files, item) = held
    BY <1>1, <1>3 DEF Followed
  <2>5. PICK f \in ToSet(files) : f.path = item.ref /\ f.items # <<>> /\ target = f.items[1]
    BY <1>1, <2>2 DEF Held
  <2>6. IsSeq(target.operations)
    <3>1. IsSeq(f.items) /\ \A i \in ToSet(f.items) : IsSeq(i.operations)
      BY <2>5 DEF AreDocuments, IsDocument
    <3>2. 1 \in DOMAIN f.items
      BY <2>5, <3>1, SeqFacts DEF IsSeq
    <3>3. target \in ToSet(f.items)
      BY <2>5, <3>2 DEF ToSet
    <3> QED
      BY <3>1, <3>3
  <2>7. \A t \in held : t = target
    <3> SUFFICES ASSUME NEW t \in held PROVE t = target
      OBVIOUS
    <3>1. PICK g \in ToSet(files) : g.path = item.ref /\ t = g.items[1]
      BY <1>1 DEF Held
    <3>2. f = g
      BY <2>5, <3>1 DEF AreDocuments
    <3> QED
      BY <2>5, <3>1, <3>2
  <2>8. /\ r.path = item.path /\ IsSeq(r.operations)
        /\ ~Unresolved(r) /\ OnlyRef(item) => ~OnlyRef(target)
        /\ \A o \in ToSet(item.operations) : o \in ToSet(r.operations)
        /\ \A o \in ToSet(target.operations) : \E k \in ToSet(r.operations) : k.method = o.method
    <3>1. PICK m : m = Merged(item, target)
      OBVIOUS
    <3>2. m.path = item.path /\ IsSeq(m.operations)
      BY <2>6, <3>1, MergedItem
    <3>3. ~Unresolved(m) /\ OnlyRef(item) => ~OnlyRef(target)
      BY <2>6, <3>1, MergedItem
    <3>4. \A o \in ToSet(item.operations) : o \in ToSet(m.operations)
      BY <2>6, <3>1, MergedItem
    <3>5. \A o \in ToSet(target.operations) : \E k \in ToSet(m.operations) : k.method = o.method
      BY <2>6, <3>1, MergedItem
    <3> QED
      BY <2>3, <3>1, <3>2, <3>3, <3>4, <3>5
  <2> QED
    BY <2>2, <2>4, <2>7, <2>8
<1> QED
  BY <1>2, <1>3

\* Resolving the references of a document keeps what it is, and what documents it then documents all of it.
LEMMA ResolvedDocument ==
  ASSUME NEW files, AreDocuments(files), NEW f, {"path", "kind", "items"} \subseteq DOMAIN f, IsDocument(f),
         NEW r, r = ResolvePathItemRefs(files, f)
  PROVE  /\ r.kind = f.kind /\ r.path = f.path /\ IsDocument(r)
         /\ \A operations : Documented(r, operations) => Reached(f, files, operations)
<1>1. PICK n \in Nat : DOMAIN f.items = 1..n
  BY SeqFacts DEF IsDocument
<1>2. PICK items : items = [i \in 1..n |-> ResolvePathItem(files, f.items[i])]
  OBVIOUS
<1>3. r = [f EXCEPT !.items = items]
  BY <1>1, <1>2 DEF ResolvePathItemRefs
<1>4. r.kind = f.kind /\ r.path = f.path /\ r.items = items
  BY <1>3
<1>5. items = [i \in 1..n |-> items[i]] /\ \A i \in 1..n : items[i] = ResolvePathItem(files, f.items[i])
  BY <1>2
<1>6. IsSeq(items) /\ DOMAIN items = 1..n
  BY <1>5, FunctionIsList
<1>7. \A i \in 1..n : IsSeq(f.items[i].path) /\ IsSeq(f.items[i].operations)
  BY <1>1 DEF IsDocument, ToSet
<1>8. IsDocument(r)
  <2>1. ASSUME NEW item \in ToSet(items) PROVE IsSeq(item.path) /\ IsSeq(item.operations)
    <3>1. PICK i \in 1..n : item = items[i]
      BY <1>6 DEF ToSet
    <3>2. item.path = f.items[i].path /\ IsSeq(item.operations)
      BY <1>5, <1>7, <3>1, ResolvedItem
    <3> QED
      BY <1>7, <3>2
  <2> QED
    BY <1>4, <1>6, <2>1 DEF IsDocument
<1>9. ASSUME NEW operations, Documented(r, operations) PROVE Reached(f, files, operations)
  <2> SUFFICES ASSUME NEW old \in ToSet(f.items)
               PROVE  /\ OnlyRef(old) => \E target \in Followed(files, old) : ~OnlyRef(target)
                      /\ \A o \in ToSet(old.operations) : Listed(old.path, o, operations)
                      /\ \A target \in Followed(files, old) : \A o \in ToSet(target.operations) :
                           Listed(old.path, o, operations)
    BY DEF Reached
  <2>1. PICK i \in 1..n : old = f.items[i]
    BY <1>1 DEF ToSet
  <2>2. PICK item : item = items[i]
    OBVIOUS
  <2>3. item \in ToSet(r.items)
    BY <1>4, <1>6, <2>2 DEF ToSet
  <2>4. ~Unresolved(item) /\ \A o \in ToSet(item.operations) : Listed(item.path, o, operations)
    BY <1>9, <2>3 DEF Documented
  <2>5. /\ item.path = old.path
        /\ ~Unresolved(item) => (OnlyRef(old) => \E target \in Followed(files, old) : ~OnlyRef(target))
        /\ \A o \in ToSet(old.operations) : \E k \in ToSet(item.operations) : k.method = o.method
        /\ \A target \in Followed(files, old) : \A o \in ToSet(target.operations) :
             \E k \in ToSet(item.operations) : k.method = o.method
    BY <1>5, <1>7, <2>1, <2>2, ResolvedItem
  <2>6. ASSUME NEW o, NEW k \in ToSet(item.operations), k.method = o.method PROVE Listed(old.path, o, operations)
    BY <2>4, <2>5, <2>6 DEF Listed
  <2> QED
    BY <2>4, <2>5, <2>6
<1> QED
  BY <1>4, <1>8, <1>9

\* A document without a gap is all there where no reference is followed.
LEMMA UnfollowedDocument ==
  ASSUME NEW c, NEW operations, Documented(c, operations)
  PROVE  Reached(c, <<>>, operations)
<1>1. PICK none : none = <<>>
  OBVIOUS
<1>2. none \in Seq({})
  BY <1>1
<1>3. ToSet(none) = {}
  BY <1>2, EmptyElements
<1>4. ASSUME NEW item PROVE Followed(none, item) = {}
  BY <1>3 DEF Followed, Held
<1>5. ASSUME NEW item PROVE ~Unresolved(item) <=> ~OnlyRef(item)
  BY DEF Unresolved, OnlyRef
<1>6. Reached(c, none, operations)
  BY <1>4, <1>5 DEF Documented, Reached
<1> QED
  BY <1>1, <1>6

\* An inventory discovered without a gap has every operation of the repository's contracts.
LEMMA FoundWhole ==
  ASSUME NEW files, AreDocuments(files), NEW found,
         found = DiscoverRepositoryApi([files |-> files, truncated |-> FALSE]).inventory
  PROVE  /\ AreOperations(found.operations)
         /\ found.incomplete = {} => WholeApi(files, files, found.operations)
<1>1. MaxReads \in Nat
  BY DocumentsAssumption
<1>2. PICK candidates : candidates = ContractCandidatePaths(files)
  OBVIOUS
<1>3. PICK read : read = SubSeq(candidates, 1, IF Len(candidates) < MaxReads THEN Len(candidates) ELSE MaxReads)
  OBVIOUS
<1>4. PICK parsed : parsed = Picked(read, {i \in DOMAIN read : read[i].fate = "ok"})
  OBVIOUS
<1>5. PICK resolved : resolved = [i \in DOMAIN parsed |-> ResolvePathItemRefs(files, parsed[i])]
  OBVIOUS
<1>6. PICK contracts :
        contracts = Picked(resolved, {i \in DOMAIN resolved : resolved[i].kind = "OPENAPI" /\ Readable(resolved[i])})
  OBVIOUS
<1>7. PICK each : each = [i \in DOMAIN contracts |-> ExtractApiOperations(contracts[i])]
  OBVIOUS
<1>8. PICK operations : operations = FirstOfEach(FlattenSeq([i \in DOMAIN each |-> each[i].operations]))
  OBVIOUS
<1> DEFINE gaps == {f.path : f \in {f \in ToSet(files) : ContractCandidate(f) /\ f.oversized}}
                   \cup {f.path : f \in ToSet(candidates) \ ToSet(read)}
                   \cup {f.path : f \in {f \in ToSet(read) : f.fate = "unreadable" \/ (f.fate = "unparseable" /\ f.named)}}
                   \cup {f.path : f \in {f \in ToSet(resolved) : f.kind = "OPENAPI" /\ ~Readable(f)}}
                   \cup {contracts[i].path : i \in {i \in DOMAIN each : each[i].incomplete # {}}}
<1>9. found.operations = operations /\ gaps \subseteq found.incomplete
  <2>1. PICK listing : listing = [files |-> files, truncated |-> FALSE]
    OBVIOUS
  <2>2. listing.files = files
    BY <2>1
  <2> DEFINE c0 == ContractCandidatePaths(listing.files)
             r0 == SubSeq(c0, 1, IF Len(c0) < MaxReads THEN Len(c0) ELSE MaxReads)
             p0 == Picked(r0, {i \in DOMAIN r0 : r0[i].fate = "ok"})
             x0 == [i \in DOMAIN p0 |-> ResolvePathItemRefs(listing.files, p0[i])]
             k0 == Picked(x0, {i \in DOMAIN x0 : x0[i].kind = "OPENAPI" /\ Readable(x0[i])})
             e0 == [i \in DOMAIN k0 |-> ExtractApiOperations(k0[i])]
             a0 == FlattenSeq([i \in DOMAIN e0 |-> e0[i].operations])
             g0 == (IF listing.truncated THEN {"tree"} ELSE {})
                   \cup {f.path : f \in {f \in ToSet(listing.files) : ContractCandidate(f) /\ f.oversized}}
                   \cup {f.path : f \in ToSet(c0) \ ToSet(r0)}
                   \cup {f.path : f \in {f \in ToSet(r0) : f.fate = "unreadable" \/ (f.fate = "unparseable" /\ f.named)}}
                   \cup {f.path : f \in {f \in ToSet(x0) : f.kind = "OPENAPI" /\ ~Readable(f)}}
                   \cup {f.path : f \in {f \in ToSet(p0) : f.kind = "POSTMAN" /\ ~Importable(f)}}
                   \cup {k0[i].path : i \in {i \in DOMAIN e0 : e0[i].incomplete # {}}}
             inventory == Inventory(FirstOfEach(a0), UNION {e0[i].excluded : i \in DOMAIN e0}, g0)
  <2>3. DiscoverRepositoryApi(listing).inventory = inventory
    BY DEF DiscoverRepositoryApi, Opened, Parsed, Resolved, Contracts, Collections, Extracted, OperationsOf
  <2> HIDE DEF c0, r0, p0, x0, k0, e0, a0, g0
  <2>4. inventory.operations = FirstOfEach(a0) /\ inventory.incomplete = g0
    BY DEF Inventory
  <2>5. c0 = candidates
    BY <1>2, <2>2 DEF c0
  <2>6. r0 = read
    BY <1>3, <2>5 DEF r0
  <2>7. p0 = parsed
    BY <1>4, <2>6 DEF p0
  <2>8. x0 = resolved
    BY <1>5, <2>2, <2>7 DEF x0
  <2>9. k0 = contracts
    BY <1>6, <2>8 DEF k0
  <2>10. e0 = each
    BY <1>7, <2>9 DEF e0
  <2>11. FirstOfEach(a0) = operations
    BY <1>8, <2>10 DEF a0
  <2>12. gaps \subseteq g0
    BY <2>2, <2>5, <2>6, <2>7, <2>8, <2>9, <2>10 DEF g0
  <2> HIDE DEF inventory
  <2> QED
    BY <2>1, <2>3, <2>4, <2>11, <2>12
<1>10. IsSeq(candidates) /\ \A f : f \in ToSet(candidates) <=> f \in ToSet(files) /\ ContractCandidate(f) /\ ~f.oversized
  <2>1. IsSeq(files) /\ \A f \in ToSet(files) : f.depth \in Nat \ {0} /\ f.named \in BOOLEAN
    BY DEF AreDocuments
  <2> QED
    BY <1>2, <2>1, Candidates
<1>11. IsSeq(read) /\ ToSet(read) \subseteq ToSet(candidates)
  <2>1. PICK n : n = IF Len(candidates) < MaxReads THEN Len(candidates) ELSE MaxReads
    OBVIOUS
  <2>2. Len(candidates) \in Nat
    BY <1>10, SeqFacts
  <2>3. n \in Nat /\ n <= Len(candidates)
    BY <1>1, <2>1, <2>2
  <2> QED
    BY <1>3, <1>10, <2>1, <2>3, FirstOnes
<1>12. IsSeq(parsed) /\ \A f : f \in ToSet(parsed) <=> f \in ToSet(read) /\ f.fate = "ok"
  <2>1. PICK P : P = {i \in DOMAIN read : read[i].fate = "ok"}
    OBVIOUS
  <2>2. parsed = Picked(read, P)
    BY <1>4, <2>1
  <2>3. IsSeq(parsed) /\ \A f : f \in ToSet(parsed) <=> \E i \in DOMAIN read : i \in P /\ f = read[i]
    BY <1>11, <2>2, PickedList
  <2> QED
    BY <2>1, <2>3 DEF ToSet
<1>13. PICK m \in Nat : DOMAIN parsed = 1..m
  BY <1>12, SeqFacts
<1>14. \A i \in 1..m : resolved[i] = ResolvePathItemRefs(files, parsed[i])
  BY <1>5, <1>13
<1>15. IsSeq(resolved) /\ DOMAIN resolved = 1..m
  <2>1. resolved = [i \in 1..m |-> resolved[i]]
    BY <1>5, <1>13
  <2> QED
    BY <2>1, FunctionIsList
<1>16. ASSUME NEW f \in ToSet(files), NEW r, r = ResolvePathItemRefs(files, f)
       PROVE  /\ r.kind = f.kind /\ r.path = f.path /\ IsDocument(r)
              /\ \A ops : Documented(r, ops) => Reached(f, files, ops)
  BY <1>16, ResolvedDocument DEF AreDocuments
<1>17. IsSeq(contracts) /\ \A c : c \in ToSet(contracts) <=> c \in ToSet(resolved) /\ c.kind = "OPENAPI" /\ Readable(c)
  <2>1. PICK P : P = {i \in DOMAIN resolved : resolved[i].kind = "OPENAPI" /\ Readable(resolved[i])}
    OBVIOUS
  <2>2. contracts = Picked(resolved, P)
    BY <1>6, <2>1
  <2>3. IsSeq(contracts) /\ \A c : c \in ToSet(contracts) <=> \E i \in DOMAIN resolved : i \in P /\ c = resolved[i]
    BY <1>15, <2>2, PickedList
  <2> QED
    BY <2>1, <2>3 DEF ToSet
<1>18. ASSUME NEW c \in ToSet(contracts) PROVE IsDocument(c)
  <2>1. PICK i \in 1..m : c = resolved[i]
    BY <1>15, <1>17 DEF ToSet
  <2>2. parsed[i] \in ToSet(parsed)
    BY <1>13 DEF ToSet
  <2>3. parsed[i] \in ToSet(files)
    BY <1>10, <1>11, <1>12, <2>2
  <2> QED
    BY <1>14, <1>16, <2>1, <2>3
<1>19. /\ AreOperations(operations)
       /\ \A i \in DOMAIN contracts : each[i].incomplete = {} => Documented(contracts[i], operations)
  BY <1>7, <1>8, <1>17, <1>18, Together
<1>20. ASSUME gaps = {} PROVE WholeApi(files, files, operations)
  <2>1. /\ {f \in ToSet(files) : ContractCandidate(f) /\ f.oversized} = {}
        /\ ToSet(candidates) \ ToSet(read) = {}
        /\ {f \in ToSet(read) : f.fate = "unreadable" \/ (f.fate = "unparseable" /\ f.named)} = {}
        /\ {f \in ToSet(resolved) : f.kind = "OPENAPI" /\ ~Readable(f)} = {}
        /\ {i \in DOMAIN each : each[i].incomplete # {}} = {}
    <3>1. /\ \A f \in {f \in ToSet(files) : ContractCandidate(f) /\ f.oversized} : f.path \in gaps
          /\ \A f \in ToSet(candidates) \ ToSet(read) : f.path \in gaps
      OBVIOUS
    <3>2. /\ \A f \in {f \in ToSet(read) : f.fate = "unreadable" \/ (f.fate = "unparseable" /\ f.named)} : f.path \in gaps
          /\ \A f \in {f \in ToSet(resolved) : f.kind = "OPENAPI" /\ ~Readable(f)} : f.path \in gaps
      OBVIOUS
    <3>3. \A i \in {i \in DOMAIN each : each[i].incomplete # {}} : contracts[i].path \in gaps
      OBVIOUS
    <3> HIDE DEF gaps
    <3> QED
      BY <1>20, <3>1, <3>2, <3>3
  <2> HIDE DEF gaps
  <2> SUFFICES ASSUME NEW f \in ToSet(files), ContractCandidate(f)
               PROVE  /\ f.named => f.fate = "ok"
                      /\ f.fate = "ok" /\ f.kind = "OPENAPI" => Reached(f, files, operations)
    BY DEF WholeApi
  <2>2. ~f.oversized
    BY <2>1
  <2>3. f \in ToSet(read)
    BY <1>10, <2>1, <2>2
  <2>4. f.named => f.fate = "ok"
    BY <2>1, <2>3 DEF AreDocuments
  <2>5. ASSUME f.fate = "ok", f.kind = "OPENAPI" PROVE Reached(f, files, operations)
    <3>1. f \in ToSet(parsed)
      BY <1>12, <2>3, <2>5
    <3>2. PICK i \in 1..m : f = parsed[i]
      BY <1>13, <3>1 DEF ToSet
    <3>3. PICK r : r = resolved[i]
      OBVIOUS
    <3>4. r = ResolvePathItemRefs(files, f)
      BY <1>14, <3>2, <3>3
    <3>5. r.kind = f.kind /\ (Documented(r, operations) => Reached(f, files, operations))
      BY <1>16, <3>4
    <3>6. r \in ToSet(resolved)
      BY <1>15, <3>3 DEF ToSet
    <3>7. r \in ToSet(contracts)
      BY <1>17, <2>1, <2>5, <3>5, <3>6
    <3>8. PICK k \in DOMAIN contracts : r = contracts[k]
      BY <3>7 DEF ToSet
    <3>9. each[k].incomplete = {}
      <4>1. k \in DOMAIN each
        BY <1>7, <3>8
      <4> QED
        BY <2>1, <4>1
    <3> QED
      BY <1>19, <3>5, <3>8, <3>9
  <2> QED
    BY <2>4, <2>5
<1> HIDE DEF gaps
<1> QED
  BY <1>9, <1>19, <1>20

\* The inventory of an artifact whose contracts can all be read has every operation of them.
LEMMA ArtifactWhole ==
  ASSUME NEW contracts, IsSeq(contracts), \A c \in ToSet(contracts) : IsDocument(c), NEW found,
         found = InventoryFromContractArtifact(contracts)
  PROVE  /\ AreOperations(found.operations)
         /\ found.known /\ found.incomplete = {} =>
              \A c \in ToSet(contracts) : Readable(c) => Documented(c, found.operations)
<1>1. PICK read : read = Picked(contracts, {i \in DOMAIN contracts : Readable(contracts[i])})
  OBVIOUS
<1>2. PICK each : each = [i \in DOMAIN read |-> ExtractApiOperations(read[i])]
  OBVIOUS
<1>3. PICK operations : operations = FirstOfEach(FlattenSeq([i \in DOMAIN each |-> each[i].operations]))
  OBVIOUS
<1>4. \/ found = NoInventory
      \/ found.operations = operations /\ found.incomplete = UNION {each[i].incomplete : i \in DOMAIN each}
  <2> DEFINE r0 == Picked(contracts, {i \in DOMAIN contracts : Readable(contracts[i])})
             e0 == [i \in DOMAIN r0 |-> ExtractApiOperations(r0[i])]
             a0 == FlattenSeq([i \in DOMAIN e0 |-> e0[i].operations])
             merged == Inventory(FirstOfEach(a0), UNION {e0[i].excluded : i \in DOMAIN e0},
                                 UNION {e0[i].incomplete : i \in DOMAIN e0})
  <2>1. found = IF merged.operations = <<>> /\ merged.excluded = {} THEN NoInventory ELSE merged
    BY DEF InventoryFromContractArtifact
  <2> HIDE DEF r0, e0, a0
  <2>2. merged.operations = FirstOfEach(a0) /\ merged.incomplete = UNION {e0[i].incomplete : i \in DOMAIN e0}
    BY DEF Inventory
  <2>3. r0 = read
    BY <1>1 DEF r0
  <2>4. e0 = each
    BY <1>2, <2>3 DEF e0
  <2>5. FirstOfEach(a0) = operations
    BY <1>3, <2>4 DEF a0
  <2> HIDE DEF merged
  <2> QED
    BY <2>1, <2>2, <2>4, <2>5
<1>5. IsSeq(read) /\ \A c : c \in ToSet(read) <=> c \in ToSet(contracts) /\ Readable(c)
  <2>1. PICK P : P = {i \in DOMAIN contracts : Readable(contracts[i])}
    OBVIOUS
  <2>2. read = Picked(contracts, P)
    BY <1>1, <2>1
  <2>3. IsSeq(read) /\ \A c : c \in ToSet(read) <=> \E i \in DOMAIN contracts : i \in P /\ c = contracts[i]
    BY <2>2, PickedList
  <2> QED
    BY <2>1, <2>3 DEF ToSet
<1>6. /\ AreOperations(operations)
      /\ \A i \in DOMAIN read : each[i].incomplete = {} => Documented(read[i], operations)
  <2>1. \A c \in ToSet(read) : IsDocument(c)
    BY <1>5
  <2> QED
    BY <1>2, <1>3, <1>5, <2>1, Together
<1>7. CASE found = NoInventory
  <2>1. PICK none : none = <<>>
    OBVIOUS
  <2>2. none \in Seq({})
    BY <2>1
  <2>3. AreOperations(none)
    BY <2>2, NoneIsSeq, EmptyElements DEF AreOperations
  <2>4. found.operations = none /\ ~found.known
    BY <1>7, <2>1 DEF NoInventory
  <2> QED
    BY <2>3, <2>4
<1>8. CASE found.operations = operations /\ found.incomplete = UNION {each[i].incomplete : i \in DOMAIN each}
  <2>1. ASSUME found.incomplete = {}, NEW c \in ToSet(contracts), Readable(c) PROVE Documented(c, operations)
    <3>1. PICK i \in DOMAIN read : c = read[i]
      BY <1>5, <2>1 DEF ToSet
    <3>2. i \in DOMAIN each
      BY <1>2, <3>1
    <3>3. each[i].incomplete = {}
      BY <1>8, <2>1, <3>2
    <3> QED
      BY <1>6, <3>1, <3>3
  <2> QED
    BY <1>6, <1>8, <2>1
<1> QED
  BY <1>4, <1>7, <1>8

\* The documents of a case are as discovery takes them.
LEMMA DocumentsOfCase ==
  ASSUME NEW case \in Cases
  PROVE  AreDocuments(case.projects[case.verified].documents)
<1>1. case.verified \in DOMAIN case.projects
  BY CasesAssumption
<1> QED
  BY <1>1, DocumentsAssumption DEF AreDocuments, IsDocument

\* The inventory of a case, and what it is worth without a gap.
LEMMA InventoryOfCase ==
  ASSUME NEW case \in Cases
  PROVE  LET inventory == SetUp(case).inventory
             files == case.projects[case.verified].documents
         IN /\ AreOperations(inventory.operations)
            /\ RegisteredContractsRead /\ inventory.known /\ inventory.incomplete = {} =>
                 WholeApi(files, FilesFollowed(case.mode, files), inventory.operations)
<1>1. PICK project : project = case.projects[case.verified]
  OBVIOUS
<1>2. PICK files : files = project.documents /\ AreDocuments(files)
  BY <1>1, DocumentsOfCase
<1>3. PICK inventory : inventory = SetUp(case).inventory
  OBVIOUS
<1>4. \/ case.mode = "registered" /\ inventory = InventoryFromContractArtifact(ApiContracts(project))
      \/ case.mode # "registered" /\ inventory \in {Discovered(project).inventory, NoInventory}
  BY <1>1, <1>3 DEF SetUp
<1>5. CASE case.mode = "registered" /\ inventory = InventoryFromContractArtifact(ApiContracts(project))
  <2>1. PICK contracts : contracts = ApiContracts(project)
    OBVIOUS
  <2>2. IsSeq(contracts) /\ \A c : c \in ToSet(contracts) <=> c \in ToSet(files) /\ c.kind = "OPENAPI"
    <3>1. PICK P : P = {i \in DOMAIN files : files[i].kind = "OPENAPI"}
      OBVIOUS
    <3>2. contracts = Picked(files, P)
      BY <1>2, <2>1, <3>1 DEF ApiContracts
    <3>3. IsSeq(contracts) /\ \A c : c \in ToSet(contracts) <=> \E i \in DOMAIN files : i \in P /\ c = files[i]
      BY <1>2, <3>2, PickedList DEF AreDocuments
    <3> QED
      BY <3>1, <3>3 DEF ToSet
  <2>3. \A c \in ToSet(contracts) : IsDocument(c)
    BY <1>2, <2>2 DEF AreDocuments
  <2>4. /\ AreOperations(inventory.operations)
        /\ inventory.known /\ inventory.incomplete = {} =>
             \A c \in ToSet(contracts) : Readable(c) => Documented(c, inventory.operations)
    BY <1>5, <2>1, <2>2, <2>3, ArtifactWhole
  <2>5. ASSUME RegisteredContractsRead, inventory.known, inventory.incomplete = {}
        PROVE  WholeApi(files, <<>>, inventory.operations)
    <3>1. ASSUME NEW f \in ToSet(files), ContractCandidate(f), f.fate = "ok", f.kind = "OPENAPI"
          PROVE  Reached(f, <<>>, inventory.operations)
      <4>1. Readable(f)
        BY <1>1, <1>2, <1>5, <2>5, <3>1 DEF RegisteredContractsRead
      <4>2. Documented(f, inventory.operations)
        BY <2>2, <2>4, <2>5, <3>1, <4>1
      <4> QED
        BY <4>2, UnfollowedDocument
    <3>2. ASSUME NEW f \in ToSet(files), ContractCandidate(f), f.named PROVE f.fate = "ok"
      BY <1>1, <1>2, <1>5, <2>5, <3>2 DEF RegisteredContractsRead
    <3> QED
      BY <3>1, <3>2 DEF WholeApi
  <2>6. FilesFollowed(case.mode, files) = <<>>
    BY <1>5 DEF FilesFollowed
  <2> QED
    BY <1>1, <1>2, <1>3, <2>4, <2>5, <2>6
<1>6. CASE case.mode # "registered" /\ inventory \in {Discovered(project).inventory, NoInventory}
  <2>1. CASE inventory = Discovered(project).inventory
    <3>1. inventory = DiscoverRepositoryApi([files |-> files, truncated |-> FALSE]).inventory
      BY <1>2, <2>1 DEF Discovered
    <3>2. AreOperations(inventory.operations) /\ (inventory.incomplete = {} => WholeApi(files, files, inventory.operations))
      BY <1>2, <3>1, FoundWhole
    <3>3. FilesFollowed(case.mode, files) = files
      BY <1>6 DEF FilesFollowed
    <3> QED
      BY <1>1, <1>2, <1>3, <3>2, <3>3
  <2>2. CASE inventory = NoInventory
    <3>1. PICK none : none = <<>>
      OBVIOUS
    <3>2. none \in Seq({})
      BY <3>1
    <3>3. AreOperations(none)
      BY <3>2, NoneIsSeq, EmptyElements DEF AreOperations
    <3>4. inventory.operations = none /\ ~inventory.known
      BY <2>2, <3>1 DEF NoInventory
    <3> QED
      BY <1>3, <3>3, <3>4
  <2> QED
    BY <1>6, <2>1, <2>2
<1> QED
  BY <1>4, <1>5, <1>6

(*------------------------------ the scenarios ----------------------------*)
\* Part of a list is a list.
LEMMA PartIsList ==
  ASSUME NEW s, NEW m \in Int, NEW n \in Int
  PROVE  IsSeq(SubSeq(s, m, n))
<1>1. PICK S : S = {s[i] : i \in m..n}
  OBVIOUS
<1>2. PICK q : q = SubSeq(s, m, n)
  OBVIOUS
<1>3. q \in Seq(S)
  <2>1. \A i \in m..n : s[i] \in S
    BY <1>1
  <2> QED
    BY <1>2, <2>1, SubSeqProperties
<1>4. PICK k \in Nat : q = [i \in 1..k |-> q[i]]
  BY <1>3
<1> QED
  BY <1>2, <1>4, FunctionIsList

\* Scenarios are lists when each element is one.
LEMMA ListsByElement ==
  ASSUME NEW sc, IsSeq(sc)
  PROVE  Lists(sc) <=> \A x \in ToSet(sc) : IsSeq(x.steps)
  BY DEF Lists, ToSet

\* A group of steps split into parts.
LEMMA PartsAreLists ==
  ASSUME NEW name, NEW steps, IsSeq(steps)
  PROVE  Lists(InParts(name, steps))
<1>1. PICK M : M = MaxStepsPerScenario /\ M \in Nat \ {0}
  BY DocumentsAssumption
<1>2. PICK len \in Nat : len = Len(steps)
  BY SeqFacts
<1>3. PICK n : n = (len + M - 1) \div M
  OBVIOUS
<1>4. n \in Nat
  <2>1. PICK a \in Nat : a = len + M - 1
    BY <1>1
  <2>2. a \div M \in Nat
    BY <1>1
  <2> QED
    BY <1>3, <2>1, <2>2
<1>5. PICK to : to = [k \in 1..n |-> IF k * M < len THEN k * M ELSE len]
  OBVIOUS
<1>6. PICK parts : parts = [k \in 1..n |-> [name |-> <<name, k, n>>, steps |-> SubSeq(steps, (k - 1) * M + 1, to[k])]]
  OBVIOUS
<1>7. InParts(name, steps) = parts
  BY <1>1, <1>2, <1>3, <1>5, <1>6 DEF InParts
<1>8. IsSeq(parts) /\ DOMAIN parts = 1..n
  <2>1. parts = [k \in 1..n |-> parts[k]]
    BY <1>6
  <2> QED
    BY <1>4, <2>1, FunctionIsList
<1>9. ASSUME NEW k \in 1..n PROVE IsSeq(parts[k].steps)
  <2>1. k \in Int /\ M \in Int
    BY <1>1, <1>4
  <2>2. PICK a \in Int : a = (k - 1) * M + 1
    BY <2>1
  <2>3. PICK b \in Int : b = to[k]
    <3>1. k * M \in Int
      BY <2>1
    <3> QED
      BY <1>2, <1>5, <3>1
  <2>4. parts[k].steps = SubSeq(steps, a, b)
    BY <1>6, <2>2, <2>3
  <2> QED
    BY <2>4, PartIsList
<1> QED
  BY <1>7, <1>8, <1>9 DEF Lists

\* Lists of scenarios put together.
LEMMA JoinedScenarios ==
  ASSUME NEW n \in Nat, NEW ss, ss = [i \in 1..n |-> ss[i]], \A i \in 1..n : Lists(ss[i])
  PROVE  Lists(FlattenSeq(ss))
<1>1. \A i \in 1..n : IsSeq(ss[i]) /\ \A x \in ToSet(ss[i]) : IsSeq(x.steps)
  BY ListsByElement DEF Lists
<1>2. PICK all : all = FlattenSeq(ss)
  OBVIOUS
<1>3. IsSeq(all) /\ \A x : x \in ToSet(all) <=> \E i \in 1..n : x \in ToSet(ss[i])
  BY <1>1, <1>2, FlattenedLists
<1>4. \A x \in ToSet(all) : IsSeq(x.steps)
  BY <1>1, <1>3
<1> QED
  BY <1>2, <1>3, <1>4, ListsByElement

\* What a collection becomes.
LEMMA ImportedLists ==
  ASSUME NEW c, IsSeq(c.requests), NEW prefix
  PROVE  Lists(ImportPostmanCollection(c, prefix).scenarios)
<1>1. PICK all : all = c.requests /\ IsSeq(all)
  OBVIOUS
<1>2. PICK flat : flat = Picked(all, {i \in DOMAIN all : Skip(all[i]) = "none"})
  OBVIOUS
<1>3. IsSeq(flat)
  BY <1>1, <1>2, PickedList
<1>4. PICK of : of = [i \in DOMAIN flat |-> Group(c, flat[i])]
  OBVIOUS
<1>5. PICK groups : groups = Firsts(of)
  OBVIOUS
<1>6. PICK n \in Nat : DOMAIN groups = 1..n
  <2>1. IsSeq(of)
    <3>1. PICK k \in Nat : DOMAIN flat = 1..k
      BY <1>3, SeqFacts
    <3>2. of = [i \in 1..k |-> of[i]]
      BY <1>4, <3>1
    <3> QED
      BY <3>2, FunctionIsList
  <2>2. IsSeq(groups)
    BY <1>5, <2>1, PickedList DEF Firsts
  <2> QED
    BY <2>2, SeqFacts
<1> DEFINE Grouped(group) == Picked(flat, {i \in DOMAIN flat : Group(c, flat[i]) = group})
           Steps(requests) == [i \in DOMAIN requests |-> ImportRequest(c, requests[i], prefix)]
<1>7. ASSUME NEW group PROVE IsSeq(Steps(Grouped(group)))
  <2>1. PICK requests : requests = Grouped(group)
    OBVIOUS
  <2>2. IsSeq(requests)
    BY <1>3, <2>1, PickedList
  <2>3. PICK k \in Nat : DOMAIN requests = 1..k
    BY <2>2, SeqFacts
  <2>4. PICK steps : steps = Steps(requests)
    OBVIOUS
  <2>5. steps = [i \in 1..k |-> steps[i]]
    BY <2>3, <2>4
  <2> HIDE DEF Steps, Grouped
  <2> QED
    BY <2>1, <2>4, <2>5, FunctionIsList
<1>8. PICK ss : ss = [g \in DOMAIN groups |-> InParts(groups[g], Steps(Grouped(groups[g])))]
  OBVIOUS
<1>9. ImportPostmanCollection(c, prefix).scenarios = FlattenSeq(ss)
  <2> DEFINE all0 == c.requests
             flat0 == Picked(all0, {i \in DOMAIN all0 : Skip(all0[i]) = "none"})
             grouped0(group) == Picked(flat0, {i \in DOMAIN flat0 : Group(c, flat0[i]) = group})
             groups0 == Firsts([i \in DOMAIN flat0 |-> Group(c, flat0[i])])
             ss0 == [g \in DOMAIN groups0 |-> InParts(groups0[g], Steps(grouped0(groups0[g])))]
  <2>1. ImportPostmanCollection(c, prefix).scenarios = FlattenSeq(ss0)
    BY DEF ImportPostmanCollection, Translated, InGroup
  <2> HIDE DEF ss0, groups0, grouped0, flat0, all0, Steps, Grouped
  <2>2. flat0 = flat
    BY <1>1, <1>2 DEF flat0, all0
  <2>3. \A group : grouped0(group) = Grouped(group)
    BY <2>2 DEF grouped0, Grouped
  <2>4. groups0 = groups
    BY <1>4, <1>5, <2>2 DEF groups0
  <2>5. ss0 = ss
    BY <1>8, <2>3, <2>4 DEF ss0
  <2> QED
    BY <2>1, <2>5
<1> HIDE DEF Steps, Grouped
<1>10. ss = [g \in 1..n |-> ss[g]]
  BY <1>6, <1>8
<1>11. ASSUME NEW g \in 1..n PROVE Lists(ss[g])
  <2>1. ss[g] = InParts(groups[g], Steps(Grouped(groups[g])))
    BY <1>6, <1>8
  <2> QED
    BY <1>7, <2>1, PartsAreLists
<1> QED
  BY <1>9, <1>10, <1>11, JoinedScenarios

\* The collections a repository holds are a list of documents of it.
LEMMA CollectionsFound ==
  ASSUME NEW files, AreDocuments(files), NEW collections,
         collections = DiscoverRepositoryApi([files |-> files, truncated |-> FALSE]).collections
  PROVE  IsSeq(collections) /\ \A c \in ToSet(collections) : c \in ToSet(files) /\ c.kind = "POSTMAN"
<1>1. PICK candidates : candidates = ContractCandidatePaths(files)
  OBVIOUS
<1>2. PICK n : n = IF Len(candidates) < MaxReads THEN Len(candidates) ELSE MaxReads
  OBVIOUS
<1>3. PICK read : read = SubSeq(candidates, 1, n)
  OBVIOUS
<1>4. PICK parsed : parsed = Picked(read, {i \in DOMAIN read : read[i].fate = "ok"})
  OBVIOUS
<1>5. collections = Picked(parsed, {i \in DOMAIN parsed : parsed[i].kind = "POSTMAN" /\ Importable(parsed[i])})
  <2>1. PICK listing : listing = [files |-> files, truncated |-> FALSE]
    OBVIOUS
  <2>2. listing.files = files
    BY <2>1
  <2> DEFINE c0 == ContractCandidatePaths(listing.files)
             r0 == SubSeq(c0, 1, IF Len(c0) < MaxReads THEN Len(c0) ELSE MaxReads)
             p0 == Picked(r0, {i \in DOMAIN r0 : r0[i].fate = "ok"})
  <2>3. DiscoverRepositoryApi(listing).collections =
          Picked(p0, {i \in DOMAIN p0 : p0[i].kind = "POSTMAN" /\ Importable(p0[i])})
    BY DEF DiscoverRepositoryApi, Opened, Parsed, Resolved, Contracts, Collections, Extracted, OperationsOf
  <2> HIDE DEF c0, r0, p0
  <2>4. c0 = candidates
    BY <1>1, <2>2 DEF c0
  <2>5. r0 = read
    BY <1>2, <1>3, <2>4 DEF r0
  <2>6. p0 = parsed
    BY <1>4, <2>5 DEF p0
  <2> QED
    BY <2>1, <2>3, <2>6
<1>6. /\ IsSeq(candidates) /\ MaxReads \in Nat
      /\ \A f : f \in ToSet(candidates) <=> f \in ToSet(files) /\ ContractCandidate(f) /\ ~f.oversized
  <2>1. IsSeq(files) /\ \A f \in ToSet(files) : f.depth \in Nat \ {0} /\ f.named \in BOOLEAN
    BY DEF AreDocuments, IsDocument
  <2> QED
    BY <1>1, <2>1, Candidates, DocumentsAssumption
<1>7. IsSeq(read) /\ ToSet(read) \subseteq ToSet(candidates)
  <2>1. Len(candidates) \in Nat
    BY <1>6, SeqFacts
  <2>2. n \in Nat /\ n <= Len(candidates)
    BY <1>2, <1>6, <2>1
  <2> QED
    BY <1>3, <1>6, <2>2, FirstOnes
<1>8. IsSeq(parsed) /\ ToSet(parsed) \subseteq ToSet(read)
  <2>1. IsSeq(parsed) /\ \A x \in ToSet(parsed) : \E i \in DOMAIN read : x = read[i]
    BY <1>4, <1>7, PickedList
  <2> QED
    BY <2>1 DEF ToSet
<1>9. PICK P : P = {i \in DOMAIN parsed : parsed[i].kind = "POSTMAN" /\ Importable(parsed[i])}
  OBVIOUS
<1>10. IsSeq(collections) /\ \A x : x \in ToSet(collections) <=> \E i \in DOMAIN parsed : i \in P /\ x = parsed[i]
  <2>1. PICK picked : picked = Picked(parsed, P)
    OBVIOUS
  <2>2. IsSeq(picked) /\ \A x : x \in ToSet(picked) <=> \E i \in DOMAIN parsed : i \in P /\ x = parsed[i]
    BY <1>8, <2>1, PickedList
  <2>3. collections = picked
    BY <1>5, <1>9, <2>1
  <2> QED
    BY <2>2, <2>3
<1>11. ASSUME NEW c \in ToSet(collections) PROVE c \in ToSet(files) /\ c.kind = "POSTMAN"
  <2>1. PICK i \in DOMAIN parsed : c = parsed[i] /\ parsed[i].kind = "POSTMAN"
    BY <1>9, <1>10
  <2>2. c \in ToSet(parsed)
    BY <2>1 DEF ToSet
  <2> QED
    BY <1>6, <1>7, <1>8, <2>1, <2>2
<1> QED
  BY <1>10, <1>11

\* The collections of a case's repository, each with its requests.
LEMMA CollectionsOfCase ==
  ASSUME NEW case \in Cases, NEW project, project = case.projects[case.verified],
         NEW collections, collections = Discovered(project).collections
  PROVE  IsSeq(collections) /\ \A i \in DOMAIN collections : IsSeq(collections[i].requests)
<1>1. PICK files : files = project.documents
  OBVIOUS
<1>2. AreDocuments(files)
  BY <1>1, DocumentsOfCase
<1>3. collections = DiscoverRepositoryApi([files |-> files, truncated |-> FALSE]).collections
  BY <1>1 DEF Discovered
<1>4. IsSeq(collections) /\ \A c \in ToSet(collections) : c \in ToSet(files) /\ c.kind = "POSTMAN"
  BY <1>2, <1>3, CollectionsFound
<1>5. case.verified \in DOMAIN case.projects
  BY CasesAssumption
<1>6. \A f \in ToSet(files) : f.kind = "POSTMAN" => IsSeq(f.requests)
  BY <1>1, <1>5, DocumentsAssumption
<1>7. \A i \in DOMAIN collections : collections[i] \in ToSet(collections)
  BY DEF ToSet
<1> QED
  BY <1>4, <1>6, <1>7

\* The scenarios of a repository's collections.
LEMMA ImportedOfCase ==
  ASSUME NEW case \in Cases, NEW project, project = case.projects[case.verified], NEW prefix
  PROVE  Lists(ImportedScenarios(project, prefix))
<1>1. PICK collections : collections = Discovered(project).collections
  OBVIOUS
<1>2. PICK n \in Nat : DOMAIN collections = 1..n
  BY <1>1, CollectionsOfCase, SeqFacts
<1>3. PICK ss : ss = [i \in DOMAIN collections |-> ImportPostmanCollection(collections[i], prefix).scenarios]
  OBVIOUS
<1>4. ss = [i \in 1..n |-> ss[i]]
  BY <1>2, <1>3
<1>5. ASSUME NEW i \in 1..n PROVE Lists(ss[i])
  <2>1. PICK c : c = collections[i] /\ IsSeq(c.requests)
    BY <1>1, <1>2, CollectionsOfCase
  <2>2. ss[i] = ImportPostmanCollection(c, prefix).scenarios
    BY <1>2, <1>3, <2>1
  <2> QED
    BY <2>1, <2>2, ImportedLists
<1>6. ImportedScenarios(project, prefix) = FlattenSeq(ss)
  BY <1>1, <1>3 DEF ImportedScenarios
<1> QED
  BY <1>4, <1>5, <1>6, JoinedScenarios

\* A list backwards.
LEMMA ReversedList ==
  ASSUME NEW s, IsSeq(s)
  PROVE  IsSeq(Reverse(s)) /\ ToSet(Reverse(s)) = ToSet(s)
<1>1. PICK n \in Nat : n = Len(s) /\ DOMAIN s = 1..n
  BY SeqFacts
<1>2. PICK r : r = Reverse(s)
  OBVIOUS
<1>3. r = [i \in 1..n |-> s[n - i + 1]]
  BY <1>1, <1>2 DEF Reverse
<1>4. IsSeq(r) /\ DOMAIN r = 1..n
  <2>1. r = [i \in 1..n |-> r[i]]
    BY <1>3
  <2> QED
    BY <2>1, FunctionIsList
<1>5. ASSUME NEW i \in 1..n PROVE n - i + 1 \in 1..n /\ r[i] = s[n - i + 1] /\ s[i] = r[n - i + 1]
  <2>1. PICK k \in 1..n : k = n - i + 1
    OBVIOUS
  <2>2. r[i] = s[k]
    BY <1>3, <2>1
  <2>3. n - k + 1 = i
    BY <2>1
  <2>4. r[k] = s[i]
    BY <1>3, <2>3
  <2> QED
    BY <2>1, <2>2, <2>4
<1>6. ToSet(r) = {r[i] : i \in 1..n} /\ ToSet(s) = {s[i] : i \in 1..n}
  BY <1>1, <1>4 DEF ToSet
<1>7. ToSet(r) = ToSet(s)
  <2>1. ASSUME NEW x \in ToSet(r) PROVE x \in ToSet(s)
    <3>1. PICK i \in 1..n : x = r[i]
      BY <1>6, <2>1
    <3>2. x = s[n - i + 1] /\ n - i + 1 \in 1..n
      BY <1>5, <3>1
    <3> QED
      BY <1>6, <3>2
  <2>2. ASSUME NEW x \in ToSet(s) PROVE x \in ToSet(r)
    <3>1. PICK i \in 1..n : x = s[i]
      BY <1>6, <2>2
    <3>2. x = r[n - i + 1] /\ n - i + 1 \in 1..n
      BY <1>5, <3>1
    <3> QED
      BY <1>6, <3>2
  <2> QED
    BY <2>1, <2>2
<1> QED
  BY <1>2, <1>4, <1>7

\* An artifact of a saved scenario has the numbers it is sorted by.
IsArtifact(a) == a.index \in Nat \ {0} /\ a.createdAt \in Nat \ {0} /\ IsSeq(a.scenario.steps)

\* What a repository's collections are saved as.
LEMMA SavedOfCase ==
  ASSUME NEW case \in Cases, NEW project, project = case.projects[case.verified], NEW prefix
  PROVE  IsSeq(Saved(project, prefix)) /\ \A a \in ToSet(Saved(project, prefix)) : IsArtifact(a)
<1>1. PICK collections : collections = Discovered(project).collections
  OBVIOUS
<1>2. PICK n \in Nat : DOMAIN collections = 1..n
  BY <1>1, CollectionsOfCase, SeqFacts
<1> DEFINE Of(i) == ImportPostmanCollection(collections[i], prefix).scenarios
           Artifacts(i) == [k \in DOMAIN Of(i) |-> [scenario |-> Of(i)[k], createdAt |-> i, index |-> k, deleted |-> FALSE]]
<1>3. PICK ss : ss = [i \in DOMAIN collections |-> Artifacts(i)]
  OBVIOUS
<1>4. Saved(project, prefix) = Reverse(FlattenSeq(ss))
  BY <1>1, <1>3 DEF Saved
<1>5. ss = [i \in 1..n |-> ss[i]]
  <2> HIDE DEF Artifacts
  <2> QED
    BY <1>2, <1>3
<1>6. ASSUME NEW i \in 1..n PROVE IsSeq(ss[i]) /\ \A a \in ToSet(ss[i]) : IsArtifact(a)
  <2>1. PICK c : c = collections[i] /\ IsSeq(c.requests)
    BY <1>1, <1>2, CollectionsOfCase
  <2>2. PICK sc : sc = ImportPostmanCollection(c, prefix).scenarios
    OBVIOUS
  <2>3. Lists(sc)
    BY <2>1, <2>2, ImportedLists
  <2>4. PICK m \in Nat : DOMAIN sc = 1..m
    BY <2>3, SeqFacts DEF Lists
  <2>5. PICK q : q = ss[i]
    OBVIOUS
  <2>6. q = [k \in DOMAIN sc |-> [scenario |-> sc[k], createdAt |-> i, index |-> k, deleted |-> FALSE]]
    BY <1>2, <1>3, <2>1, <2>2, <2>5
  <2>7. IsSeq(q) /\ DOMAIN q = 1..m
    <3>1. q = [k \in 1..m |-> q[k]]
      BY <2>4, <2>6
    <3> QED
      BY <3>1, FunctionIsList
  <2>8. \A k \in 1..m : q[k].index = k /\ q[k].createdAt = i /\ IsSeq(q[k].scenario.steps)
    BY <2>3, <2>4, <2>6 DEF Lists
  <2>9. \A k \in 1..m : IsArtifact(q[k])
    BY <1>2, <2>8 DEF IsArtifact
  <2> QED
    BY <2>5, <2>7, <2>9 DEF ToSet
<1> HIDE DEF Artifacts
<1>7. PICK all : all = FlattenSeq(ss)
  OBVIOUS
<1>8. IsSeq(all) /\ \A a : a \in ToSet(all) <=> \E i \in 1..n : a \in ToSet(ss[i])
  BY <1>5, <1>6, <1>7, FlattenedLists
<1>9. IsSeq(Reverse(all)) /\ ToSet(Reverse(all)) = ToSet(all)
  BY <1>8, ReversedList
<1> QED
  BY <1>4, <1>6, <1>7, <1>8, <1>9

\* Artifacts in order.
LEMMA SavedInOrder ==
  ASSUME NEW artifacts, IsSeq(artifacts), \A a \in ToSet(artifacts) : IsArtifact(a),
         NEW saved, saved = CollectionScenarios(artifacts)
  PROVE  Lists([i \in DOMAIN saved |-> saved[i].scenario])
<1>1. PICK kept : kept = Picked(artifacts, {i \in DOMAIN artifacts : ~artifacts[i].deleted})
  OBVIOUS
<1>2. PICK number : number = [i \in DOMAIN kept |-> kept[i].index]
  OBVIOUS
<1>3. PICK numbered : numbered = Ordered(kept, number)
  OBVIOUS
<1>4. PICK created : created = [i \in DOMAIN numbered |-> numbered[i].createdAt]
  OBVIOUS
<1>5. saved = Ordered(numbered, created)
  BY <1>1, <1>2, <1>3, <1>4 DEF CollectionScenarios
<1>6. IsSeq(kept) /\ \A a \in ToSet(kept) : IsArtifact(a)
  <2>1. IsSeq(kept) /\ \A a \in ToSet(kept) : \E i \in DOMAIN artifacts : a = artifacts[i]
    BY <1>1, PickedList
  <2> QED
    BY <2>1 DEF ToSet
<1>7. IsSeq(numbered) /\ ToSet(numbered) = ToSet(kept)
  <2>1. DOMAIN number = DOMAIN kept /\ \A i \in DOMAIN kept : number[i] \in Nat \ {0}
    BY <1>2, <1>6 DEF ToSet, IsArtifact
  <2> QED
    BY <1>3, <1>6, <2>1, OrderedList
<1>8. IsSeq(saved) /\ ToSet(saved) = ToSet(numbered)
  <2>1. DOMAIN created = DOMAIN numbered /\ \A i \in DOMAIN numbered : created[i] \in Nat \ {0}
    BY <1>4, <1>6, <1>7 DEF ToSet, IsArtifact
  <2> QED
    BY <1>5, <1>7, <2>1, OrderedList
<1>9. \A i \in DOMAIN saved : IsSeq(saved[i].scenario.steps)
  BY <1>6, <1>7, <1>8 DEF ToSet, IsArtifact
<1>10. PICK n \in Nat : DOMAIN saved = 1..n
  BY <1>8, SeqFacts
<1>11. PICK sc : sc = [i \in DOMAIN saved |-> saved[i].scenario]
  OBVIOUS
<1>12. IsSeq(sc) /\ DOMAIN sc = 1..n
  <2>1. sc = [i \in 1..n |-> sc[i]]
    BY <1>10, <1>11
  <2> QED
    BY <2>1, FunctionIsList
<1> QED
  BY <1>9, <1>10, <1>11, <1>12 DEF Lists

\* What is sent is a list of scenarios, and each a list of steps, wherever they come from.
LEMMA ScenariosOfCase ==
  ASSUME NEW case \in Cases
  PROVE  Lists(SetUp(case).scenarios)
<1>1. PICK project : project = case.projects[case.verified]
  OBVIOUS
<1>2. PICK saved : saved = CollectionScenarios(Saved(project, case.prefix))
  OBVIOUS
<1>3. PICK scenarios : scenarios = SetUp(case).scenarios
  OBVIOUS
<1>4. \/ scenarios = [i \in DOMAIN saved |-> saved[i].scenario]
      \/ case.handed # {} /\ scenarios = CHOOSE handed \in case.handed : TRUE
      \/ scenarios = ImportedScenarios(project, case.prefix)
  BY <1>1, <1>2, <1>3 DEF SetUp
<1>5. CASE scenarios = [i \in DOMAIN saved |-> saved[i].scenario]
  <2>1. PICK artifacts : artifacts = Saved(project, case.prefix)
    OBVIOUS
  <2>2. IsSeq(artifacts) /\ \A a \in ToSet(artifacts) : IsArtifact(a)
    BY <1>1, <2>1, SavedOfCase
  <2>3. Lists([i \in DOMAIN saved |-> saved[i].scenario])
    BY <1>2, <2>1, <2>2, SavedInOrder
  <2> QED
    BY <1>3, <1>5, <2>3
<1>6. CASE case.handed # {} /\ scenarios = CHOOSE handed \in case.handed : TRUE
  <2>1. scenarios \in case.handed
    BY <1>6
  <2> QED
    BY <1>3, <2>1, HandedAssumption DEF Lists
<1>7. CASE scenarios = ImportedScenarios(project, case.prefix)
  BY <1>1, <1>3, <1>7, ImportedOfCase
<1> QED
  BY <1>4, <1>5, <1>6, <1>7


(*------------------- what an answered scenario rests on ------------------*)

\* What was answered stays answered.
LEMMA BackedStays ==
  ASSUME NEW sc, NEW w, NEW v, ToSet(w) \subseteq ToSet(v), NEW s, NEW i, NEW j, NEW r, Backed(sc, w, s, i, j, r)
  PROVE  Backed(sc, v, s, i, j, r)
  BY DEF Backed

\* So outcomes stay what was answered.
LEMMA OutcomesStay ==
  ASSUME NEW w, NEW v, ToSet(w) \subseteq ToSet(v), NEW sc, NEW s, NEW outs, OutcomesOK(sc, w, s, outs)
  PROVE  OutcomesOK(sc, v, s, outs)
  BY BackedStays DEF OutcomesOK, OutcomeOK

\* And two sides that matched stay matched.
LEMMA MatchedStays ==
  ASSUME NEW w, NEW v, ToSet(w) \subseteq ToSet(v), NEW sc, Matched(sc, w)
  PROVE  Matched(sc, v)
<1> SUFFICES ASSUME NEW i \in DOMAIN sc, NEW j \in DOMAIN sc[i].steps
             PROVE  \E x \in ToSet(v), y \in ToSet(v) :
                      /\ x.side = "reference" /\ y.side = "subject"
                      /\ <<x.scenario, x.step>> = <<i, j>> /\ <<y.scenario, y.step>> = <<i, j>>
                      /\ SameAnswers(x.answer, y.answer)
  BY DEF Matched
<1>1. PICK x \in ToSet(w), y \in ToSet(w) :
                      /\ x.side = "reference" /\ y.side = "subject"
                      /\ <<x.scenario, x.step>> = <<i, j>> /\ <<y.scenario, y.step>> = <<i, j>>
                      /\ SameAnswers(x.answer, y.answer)
  BY DEF Matched
<1>2. x \in ToSet(v) /\ y \in ToSet(v)
  OBVIOUS
<1> QED
  BY <1>1, <1>2

\* Nothing answered, nothing claimed.
LEMMA NoOutcomes ==
  ASSUME NEW outs, outs = <<>>, NEW sc, NEW w, NEW s
  PROVE  OutcomesOK(sc, w, s, outs) /\ Len(outs) = 0
<1>1. outs \in Seq({}) /\ Len(outs) = 0
  OBVIOUS
<1>2. IsSeq(outs)
  BY <1>1, NoneIsSeq
<1> QED
  BY <1>1, <1>2 DEF OutcomesOK

\* A further outcome of a side.
LEMMA OutcomeAppended ==
  ASSUME NEW sc, NEW w, NEW s, NEW outs, OutcomesOK(sc, w, s, outs), NEW o,
         OutcomeOK(sc, w, s, Len(outs) + 1, o)
  PROVE  OutcomesOK(sc, w, s, Append(outs, o)) /\ Len(Append(outs, o)) = Len(outs) + 1
<1>1. IsSeq(outs) /\ Len(outs) \in Nat
  BY SeqFacts DEF OutcomesOK
<1>2. PICK t : t = Append(outs, o)
  OBVIOUS
<1>3. /\ IsSeq(t) /\ Len(t) = Len(outs) + 1
      /\ \A i \in 1..Len(outs) : t[i] = outs[i]
      /\ t[Len(outs) + 1] = o
  BY <1>1, <1>2, AppendFacts
<1>4. ASSUME NEW i \in 1..Len(t) PROVE OutcomeOK(sc, w, s, i, t[i])
  <2>1. CASE i \in 1..Len(outs)
    <3>1. t[i] = outs[i] /\ OutcomeOK(sc, w, s, i, outs[i])
      BY <1>3, <2>1 DEF OutcomesOK
    <3> QED
      BY <3>1
  <2>2. CASE i = Len(outs) + 1
    BY <1>3, <2>2
  <2> QED
    BY <1>1, <1>3, <2>1, <2>2
<1> QED
  BY <1>2, <1>3, <1>4 DEF OutcomesOK

\* A further result of the running scenario.
LEMMA ResultAppended ==
  ASSUME NEW sc, NEW w, NEW s, NEW i, NEW rs, ResultsOK(sc, w, s, i, rs), NEW r,
         Len(rs) < Len(sc[i].steps), Len(sc[i].steps) \in Nat,
         r.status \in {"ERROR", "FAILED", "PASSED"}, Backed(sc, w, s, i, Len(rs) + 1, r)
  PROVE  ResultsOK(sc, w, s, i, Append(rs, r))
<1>1. IsSeq(rs) /\ Len(rs) \in Nat
  BY SeqFacts DEF ResultsOK
<1>2. PICK t : t = Append(rs, r)
  OBVIOUS
<1>3. /\ IsSeq(t) /\ Len(t) = Len(rs) + 1
      /\ \A j \in 1..Len(rs) : t[j] = rs[j]
      /\ t[Len(rs) + 1] = r
  BY <1>1, <1>2, AppendFacts
<1>4. ASSUME NEW j \in 1..Len(t)
      PROVE  t[j].status \in {"ERROR", "FAILED", "PASSED"} /\ Backed(sc, w, s, i, j, t[j])
  <2>1. CASE j \in 1..Len(rs)
    <3>1. t[j] = rs[j] /\ rs[j].status \in {"ERROR", "FAILED", "PASSED"} /\ Backed(sc, w, s, i, j, rs[j])
      BY <1>3, <2>1 DEF ResultsOK
    <3> QED
      BY <3>1
  <2>2. CASE j = Len(rs) + 1
    BY <1>3, <2>2
  <2> QED
    BY <1>1, <1>3, <2>1, <2>2
<1> QED
  BY <1>1, <1>2, <1>3, <1>4 DEF ResultsOK

\* Results stay what was answered.
LEMMA ResultsStay ==
  ASSUME NEW w, NEW v, ToSet(w) \subseteq ToSet(v), NEW sc, NEW s, NEW i, NEW rs, ResultsOK(sc, w, s, i, rs)
  PROVE  ResultsOK(sc, v, s, i, rs)
  BY BackedStays DEF ResultsOK

\* A step that was lost claims no answer.
LEMMA ErrorBacked ==
  ASSUME NEW sc, NEW step, NEW why, NEW w, NEW s, NEW i, NEW j
  PROVE  ErrorResult(step, why).status = "ERROR" /\ Backed(sc, w, s, i, j, ErrorResult(step, why))
<1>1. ErrorResult(step, why).status = "ERROR"
  BY DEF ErrorResult, Result
<1> QED
  BY <1>1 DEF Backed

\* A scenario that ran out of budget claims none.
LEMMA SkippedBacked ==
  ASSUME NEW sc, NEW step, NEW w, NEW s, NEW i, NEW j
  PROVE  SkippedResult(step).status = "SKIPPED" /\ Backed(sc, w, s, i, j, SkippedResult(step))
<1>1. SkippedResult(step).status = "SKIPPED"
  BY DEF SkippedResult, Result
<1> QED
  BY <1>1 DEF Backed

\* The result of a step that was sent: one that passed has the answer it got.
LEMMA AnswerBacked ==
  ASSUME NEW step, NEW answer
  PROVE  /\ StepResult(step, answer).status \in {"ERROR", "FAILED", "PASSED"}
         /\ StepResult(step, answer).status = "PASSED" =>
              /\ StepResult(step, answer).answer = Evidence(answer) /\ StepResult(step, answer).httpStatus = answer.status
              /\ Faithful(step, StepResult(step, answer))
<1>1. CASE Taken(step, answer) # step.extract
  <2>1. StepResult(step, answer) = ErrorResult(step, "extraction")
    BY <1>1 DEF StepResult
  <2> QED
    BY <2>1 DEF ErrorResult, Result
<1>2. CASE Taken(step, answer) = step.extract
  <2>1. PICK passed : /\ passed = (step.expects \in {0, answer.status} /\ Asserted(step, answer))
                      /\ StepResult(step, answer) = Result(step, Rendered(step.path), IF passed THEN "PASSED" ELSE "FAILED",
                                                          answer.status, "none", Evidence(answer))
    BY <1>2 DEF StepResult
  <2>2. PICK r : r = StepResult(step, answer)
    OBVIOUS
  <2>3. /\ r.status = (IF passed THEN "PASSED" ELSE "FAILED") /\ r.answer = Evidence(answer) /\ r.httpStatus = answer.status
        /\ r.method = step.method /\ r.path = Rendered(step.path)
    BY <2>1, <2>2 DEF Result
  <2>4. r.status = "PASSED" => step.expects \in {0, r.httpStatus}
    BY <2>1, <2>3
  <2> QED
    BY <2>2, <2>3, <2>4 DEF Faithful
<1> QED
  BY <1>1, <1>2

\* The report of a scenario: it passed only if every step of it did.
LEMMA ReportBacked ==
  ASSUME NEW sc, NEW w, NEW s, NEW i, NEW rs, ResultsOK(sc, w, s, i, rs), i \in DOMAIN sc, IsSeq(sc[i].steps),
         (rs # <<>> /\ Last(rs).status # "PASSED") \/ Len(rs) = Len(sc[i].steps)
  PROVE  OutcomeOK(sc, w, s, i, ScenarioReport(sc[i], rs))
<1> DEFINE steps == [j \in DOMAIN sc[i].steps |-> IF j <= Len(rs) THEN rs[j] ELSE SkippedResult(sc[i].steps[j])]
           o == ScenarioReport(sc[i], rs)
<1>1. PICK m \in Nat : DOMAIN sc[i].steps = 1..m /\ m = Len(sc[i].steps)
  BY SeqFacts
<1>2. PICK n \in Nat : n = Len(rs) /\ DOMAIN rs = 1..n /\ n <= m
  BY <1>1, SeqFacts DEF ResultsOK
<1>3. o.scenario = sc[i].name /\ o.status = ScenarioStatus(steps) /\ o.steps = steps
  BY DEF ScenarioReport
<1>4. DOMAIN steps = 1..m /\ \A j \in 1..m : steps[j] = IF j <= n THEN rs[j] ELSE SkippedResult(sc[i].steps[j])
  BY <1>1, <1>2
<1>5. steps = [j \in 1..m |-> steps[j]]
  BY <1>1
<1> HIDE DEF steps, o
<1>6. IsSeq(steps)
  <2>1. \A j \in 1..m : steps[j] \in ToSet(steps)
    BY <1>4 DEF ToSet
  <2>2. steps \in Seq(ToSet(steps))
    BY <1>5, <2>1
  <2> QED
    BY <2>2 DEF IsSeq
<1>7. ASSUME NEW j \in 1..m PROVE Backed(sc, w, s, i, j, steps[j])
  <2>1. CASE j <= n
    <3>1. steps[j] = rs[j] /\ Backed(sc, w, s, i, j, rs[j])
      BY <1>2, <1>4, <2>1 DEF ResultsOK
    <3> QED
      BY <3>1
  <2>2. CASE ~(j <= n)
    <3>1. steps[j] = SkippedResult(sc[i].steps[j])
      BY <1>4, <2>2
    <3> QED
      BY <3>1, SkippedBacked
  <2> QED
    BY <2>1, <2>2
<1>8. ASSUME o.status = "PASSED" PROVE AllPassed(steps)
  <2>1. \A j \in 1..m : steps[j].status \notin {"ERROR", "FAILED"}
    BY <1>3, <1>4, <1>8 DEF ScenarioStatus
  <2>2. \A j \in 1..n : steps[j] = rs[j] /\ j \in 1..m
    BY <1>2, <1>4
  <2>3. \A j \in 1..n : rs[j].status = "PASSED"
    BY <1>2, <2>1, <2>2 DEF ResultsOK
  <2>4. n = m
    <3>1. CASE Len(rs) = Len(sc[i].steps)
      BY <1>1, <1>2, <3>1
    <3>2. CASE rs # <<>> /\ Last(rs).status # "PASSED"
      <4>1. n # 0
        <5>1. rs \in Seq(ToSet(rs))
          BY DEF ResultsOK, IsSeq
        <5> QED
          BY <1>2, <3>2, <5>1
      <4>2. n \in 1..n /\ Last(rs) = rs[n]
        BY <1>2, <4>1 DEF Last
      <4> QED
        BY <2>3, <3>2, <4>2
    <3> QED
      BY <3>1, <3>2
  <2> QED
    BY <1>4, <2>2, <2>3, <2>4 DEF AllPassed
<1>9. OutcomeOK(sc, w, s, i, o)
  BY <1>1, <1>3, <1>4, <1>6, <1>7, <1>8 DEF OutcomeOK
<1> QED
  BY <1>9 DEF o

\* A scenario that was not run has no steps, and did not pass.
LEMMA UnrunOK ==
  ASSUME NEW sc, NEW w, NEW s, NEW i \in DOMAIN sc, NEW status, status # "PASSED", NEW o,
         o = [scenario |-> sc[i].name, status |-> status, steps |-> <<>>]
  PROVE  OutcomeOK(sc, w, s, i, o)
<1>1. o.scenario = sc[i].name /\ o.status = status /\ o.steps = <<>>
  OBVIOUS
<1>2. PICK t : t = <<>>
  OBVIOUS
<1>3. t \in Seq({})
  BY <1>2
<1>4. DOMAIN t = {}
  BY <1>3
<1>5. IsSeq(t)
  BY <1>3, NoneIsSeq
<1>6. o.steps = t
  BY <1>1, <1>2
<1> QED
  BY <1>1, <1>4, <1>5, <1>6 DEF OutcomeOK

\* A collection that is PROVEN has passed every scenario.
LEMMA ProvenIsWhole ==
  ASSUME NEW outs, IsSeq(outs), NEW coverage,
         CollectionVerdict(Len(outs), Cardinality({i \in DOMAIN outs : outs[i].status = "PASSED"}),
                           Cardinality({i \in DOMAIN outs : outs[i].status = "SKIPPED"}), coverage).verdict = "PROVEN"
  PROVE  \A i \in 1..Len(outs) : outs[i].status = "PASSED"
<1> DEFINE P == {i \in DOMAIN outs : outs[i].status = "PASSED"}
           K == {i \in DOMAIN outs : outs[i].status = "SKIPPED"}
<1>1. PICK n : n = Len(outs) /\ n \in Nat /\ DOMAIN outs = 1..n
  BY SeqFacts
<1>2. IsFiniteSet(1..n) /\ Cardinality(1..n) = n
  <2>1. 1 \in Int /\ n \in Int
    BY <1>1
  <2>2. IsFiniteSet(1..n) /\ Cardinality(1..n) = IF 1 > n THEN 0 ELSE n - 1 + 1
    BY <2>1, FS_Interval
  <2> QED
    BY <1>1, <2>2
<1>3. P \subseteq 1..n /\ K \subseteq 1..n
  BY <1>1
<1> HIDE DEF P, K
<1>4. Cardinality(P) \in Nat /\ Cardinality(K) \in Nat /\ IsFiniteSet(P)
  BY <1>2, <1>3, FS_Subset, FS_CardinalityType
<1>5. ~(n - Cardinality(P) - Cardinality(K) > 0) /\ ~(Cardinality(K) > 0)
  <2>1. PICK p, k : p = Cardinality(P) /\ k = Cardinality(K)
    OBVIOUS
  <2>2. CollectionVerdict(n, p, k, coverage).verdict = "PROVEN"
    BY <1>1, <2>1 DEF P, K
  <2>3. ~(n - p - k > 0) /\ ~(k > 0)
    <3>1. PICK v : v = CollectionVerdict(n, p, k, coverage)
      OBVIOUS
    <3>2. v.reasons = {}
      BY <2>2, <3>1 DEF CollectionVerdict
    <3> QED
      BY <3>1, <3>2 DEF CollectionVerdict
  <2> QED
    BY <2>1, <2>3
<1>6. Cardinality(P) >= n
  BY <1>1, <1>4, <1>5
<1>7. P = 1..n
  <2>1. PICK T : T = 1..n
    OBVIOUS
  <2>2. IsFiniteSet(T) /\ Cardinality(T) = n /\ P \subseteq T
    BY <1>2, <1>3, <2>1
  <2>3. Cardinality(P) <= Cardinality(T) /\ (Cardinality(P) = Cardinality(T) => P = T)
    BY <2>2, FS_Subset
  <2> QED
    BY <1>1, <1>4, <1>6, <2>1, <2>2, <2>3
<1> QED
  BY <1>1, <1>7 DEF P

\* The scenarios of a sound set-up are a case's.
LEMMA Scenarios ==
  ASSUME NEW st, SetupOK(st)
  PROVE  Lists(st.scenarios)
  BY ScenariosOfCase DEF SetupOK

\* MatchInv survives the claim of the job.
LEMMA MatchClaim ==
  ASSUME RunInv, MatchInv, Claim
  PROVE  MatchInv'
<1>0. setup'.scenarios = setup.scenarios /\ setup'.mode = setup.mode
  BY DEF Claim
<1>1. OutcomesOK(setup'.scenarios, wire', side', outcomes')
  BY <1>0 DEF MatchInv, Claim, runVars, collectionVars
<1>2. Started(pc', at', outcomes')
  BY <1>0 DEF MatchInv, Started, Ended, Claim, runVars, collectionVars
<1>3. StepOK(setup'.scenarios, wire', pc', side', at', results')
  BY <1>0 DEF MatchInv, StepOK, Claim, runVars, collectionVars
<1>4. EndOK(setup'.scenarios, pc', failure', outcomes')
  BY <1>0 DEF MatchInv, EndOK, RunInv, FlowOK, Ended, Failure, NoFailure, Claim, runVars,
     collectionVars
<1>5. SidesOK(setup'.scenarios, wire', evidence')
  BY <1>0 DEF MatchInv, SidesOK, Claim, runVars, collectionVars
<1>6. WholeOK(setup'.scenarios, setup'.mode, pc', evidence')
  BY <1>0 DEF MatchInv, WholeOK, Ended, Claim, runVars, collectionVars
<1>7. ParityOK(setup'.scenarios, wire', setup'.mode, pc', evidence')
  BY <1>0 DEF MatchInv, ParityOK, Ended, Claim, runVars, collectionVars
<1>8. ReportMatched(setup'.scenarios, wire', setup'.mode, report')
  <2>1. report' = report \/ report' = [NoReport EXCEPT !.verdict = "NOT_PROVEN", !.area = "INFRASTRUCTURE",
                      !.failure = Failure("INFRASTRUCTURE_UNAVAILABLE", "prepare", "none")]
    BY DEF Claim
  <2>2. wire' = wire
    BY DEF Claim, runVars, collectionVars
  <2>3. CASE report' = report
    BY <1>0, <2>2, <2>3 DEF MatchInv, ReportMatched
  <2>4. CASE report' = [NoReport EXCEPT !.verdict = "NOT_PROVEN", !.area = "INFRASTRUCTURE",
                      !.failure = Failure("INFRASTRUCTURE_UNAVAILABLE", "prepare", "none")]
    <3>1. report'.verdict = "NOT_PROVEN"
      BY <2>4 DEF NoReport
    <3> QED
      BY <3>1 DEF ReportMatched
  <2> QED
    BY <2>1, <2>3, <2>4
<1> QED
  BY <1>1, <1>2, <1>3, <1>4, <1>5, <1>6, <1>7, <1>8 DEF MatchInv

\* MatchInv survives the recording of evidence.
LEMMA MatchRecord ==
  ASSUME RunInv, MatchInv, NEW file, Record(file)
  PROVE  MatchInv'
<1>0. setup'.scenarios = setup.scenarios /\ setup'.mode = setup.mode
  BY DEF Record
<1>1. OutcomesOK(setup'.scenarios, wire', side', outcomes')
  BY <1>0 DEF MatchInv, Record, runVars, collectionVars
<1>2. Started(pc', at', outcomes')
  BY <1>0 DEF MatchInv, Started, Ended, Record, runVars, collectionVars
<1>3. StepOK(setup'.scenarios, wire', pc', side', at', results')
  BY <1>0 DEF MatchInv, StepOK, Record, runVars, collectionVars
<1>4. EndOK(setup'.scenarios, pc', failure', outcomes')
  BY <1>0 DEF MatchInv, EndOK, RunInv, FlowOK, Ended, Failure, NoFailure, Record, runVars,
     collectionVars
<1>5. SidesOK(setup'.scenarios, wire', evidence')
  BY <1>0 DEF MatchInv, SidesOK, Record, runVars, collectionVars
<1>6. WholeOK(setup'.scenarios, setup'.mode, pc', evidence')
  BY <1>0 DEF MatchInv, WholeOK, Ended, Record, runVars, collectionVars
<1>7. ParityOK(setup'.scenarios, wire', setup'.mode, pc', evidence')
  BY <1>0 DEF MatchInv, ParityOK, Ended, Record, runVars, collectionVars
<1>8. ReportMatched(setup'.scenarios, wire', setup'.mode, report')
  <2>1. CASE file = "valid"
    <3>1. pc = "record" /\ setup.verified \in DOMAIN evidence /\ report'.verdict = evidence[setup.verified].verdict
          /\ wire' = wire
      BY <2>1 DEF Record, runVars, collectionVars
    <3>2. setup.mode = "comparison" => setup.verified = "subject"
      BY SetupModes DEF RunInv
    <3> QED
      BY <1>0, <3>1, <3>2 DEF MatchInv, ParityOK, ReportMatched
  <2>2. CASE file # "valid"
    <3>1. report'.verdict = "NOT_PROVEN"
      BY <2>2 DEF Record
    <3> QED
      BY <3>1 DEF ReportMatched
  <2> QED
    BY <2>1, <2>2
<1> QED
  BY <1>1, <1>2, <1>3, <1>4, <1>5, <1>6, <1>7, <1>8 DEF MatchInv

\* MatchInv survives the death of the environment job.
LEMMA MatchEnvironmentDies ==
  ASSUME RunInv, MatchInv, EnvironmentDies
  PROVE  MatchInv'
<1>0. setup'.scenarios = setup.scenarios /\ setup'.mode = setup.mode
  BY DEF EnvironmentDies
<1>1. OutcomesOK(setup'.scenarios, wire', side', outcomes')
  BY <1>0 DEF MatchInv, EnvironmentDies, runVars, collectionVars
<1>2. Started(pc', at', outcomes')
  BY <1>0 DEF MatchInv, Started, Ended, EnvironmentDies, runVars, collectionVars
<1>3. StepOK(setup'.scenarios, wire', pc', side', at', results')
  BY <1>0 DEF MatchInv, StepOK, EnvironmentDies, runVars, collectionVars
<1>4. EndOK(setup'.scenarios, pc', failure', outcomes')
  BY <1>0 DEF MatchInv, EndOK, RunInv, FlowOK, Ended, Failure, NoFailure, EnvironmentDies,
     runVars, collectionVars
<1>5. SidesOK(setup'.scenarios, wire', evidence')
  <2>1. evidence' = <<>>
    BY DEF EnvironmentDies
  <2>2. DOMAIN evidence' = {}
    BY <2>1
  <2> QED
    BY <2>2 DEF SidesOK
<1>6. WholeOK(setup'.scenarios, setup'.mode, pc', evidence')
  BY DEF WholeOK, EnvironmentDies, Ended
<1>7. ParityOK(setup'.scenarios, wire', setup'.mode, pc', evidence')
  <2>1. evidence' = <<>>
    BY DEF EnvironmentDies
  <2>2. DOMAIN evidence' = {}
    BY <2>1
  <2> QED
    BY <2>2 DEF ParityOK
<1>8. ReportMatched(setup'.scenarios, wire', setup'.mode, report')
  BY <1>0 DEF MatchInv, ReportMatched, EnvironmentDies, runVars, collectionVars
<1> QED
  BY <1>1, <1>2, <1>3, <1>4, <1>5, <1>6, <1>7, <1>8 DEF MatchInv

\* MatchInv survives the check of the plan.
LEMMA MatchCheckPlan ==
  ASSUME RunInv, MatchInv, CheckPlan
  PROVE  MatchInv'
<1>0. setup'.scenarios = setup.scenarios /\ setup'.mode = setup.mode
  BY DEF CheckPlan
<1>1. OutcomesOK(setup'.scenarios, wire', side', outcomes')
  BY <1>0 DEF MatchInv, CheckPlan, Fail, runVars, collectionVars
<1>2. Started(pc', at', outcomes')
  BY <1>0 DEF MatchInv, Started, Ended, CheckPlan, Fail, runVars, collectionVars
<1>3. StepOK(setup'.scenarios, wire', pc', side', at', results')
  BY <1>0 DEF MatchInv, StepOK, CheckPlan, Fail, runVars, collectionVars
<1>4. EndOK(setup'.scenarios, pc', failure', outcomes')
  BY <1>0 DEF MatchInv, EndOK, RunInv, FlowOK, Ended, Failure, NoFailure, CheckPlan, Fail,
     runVars, collectionVars
<1>5. SidesOK(setup'.scenarios, wire', evidence')
  BY <1>0 DEF MatchInv, SidesOK, CheckPlan, Fail, runVars, collectionVars
<1>6. WholeOK(setup'.scenarios, setup'.mode, pc', evidence')
  BY <1>0 DEF MatchInv, WholeOK, Ended, CheckPlan, Fail, runVars, collectionVars
<1>7. ParityOK(setup'.scenarios, wire', setup'.mode, pc', evidence')
  BY <1>0 DEF MatchInv, ParityOK, Ended, CheckPlan, Fail, runVars, collectionVars
<1>8. ReportMatched(setup'.scenarios, wire', setup'.mode, report')
  BY <1>0 DEF MatchInv, ReportMatched, CheckPlan, Fail, runVars, collectionVars
<1> QED
  BY <1>1, <1>2, <1>3, <1>4, <1>5, <1>6, <1>7, <1>8 DEF MatchInv

\* MatchInv survives the preparation of the runtime.
LEMMA MatchPrepareRuntime ==
  ASSUME RunInv, MatchInv, PrepareRuntime
  PROVE  MatchInv'
<1>0. setup'.scenarios = setup.scenarios /\ setup'.mode = setup.mode
  BY DEF PrepareRuntime
<1>1. OutcomesOK(setup'.scenarios, wire', side', outcomes')
  BY <1>0 DEF MatchInv, PrepareRuntime, Fail, runVars, collectionVars
<1>2. Started(pc', at', outcomes')
  BY <1>0 DEF MatchInv, Started, Ended, PrepareRuntime, Fail, runVars, collectionVars
<1>3. StepOK(setup'.scenarios, wire', pc', side', at', results')
  BY <1>0 DEF MatchInv, StepOK, PrepareRuntime, Fail, runVars, collectionVars
<1>4. EndOK(setup'.scenarios, pc', failure', outcomes')
  BY <1>0 DEF MatchInv, EndOK, RunInv, FlowOK, Ended, Failure, NoFailure, PrepareRuntime, Fail,
     runVars, collectionVars
<1>5. SidesOK(setup'.scenarios, wire', evidence')
  BY <1>0 DEF MatchInv, SidesOK, PrepareRuntime, Fail, runVars, collectionVars
<1>6. WholeOK(setup'.scenarios, setup'.mode, pc', evidence')
  BY <1>0 DEF MatchInv, WholeOK, Ended, PrepareRuntime, Fail, runVars, collectionVars
<1>7. ParityOK(setup'.scenarios, wire', setup'.mode, pc', evidence')
  BY <1>0 DEF MatchInv, ParityOK, Ended, PrepareRuntime, Fail, runVars, collectionVars
<1>8. ReportMatched(setup'.scenarios, wire', setup'.mode, report')
  BY <1>0 DEF MatchInv, ReportMatched, PrepareRuntime, Fail, runVars, collectionVars
<1> QED
  BY <1>1, <1>2, <1>3, <1>4, <1>5, <1>6, <1>7, <1>8 DEF MatchInv

\* MatchInv survives the start of a dependency.
LEMMA MatchStartDependency ==
  ASSUME RunInv, MatchInv, StartDependency
  PROVE  MatchInv'
<1>0. setup'.scenarios = setup.scenarios /\ setup'.mode = setup.mode
  BY DEF StartDependency
<1>1. OutcomesOK(setup'.scenarios, wire', side', outcomes')
  BY <1>0 DEF MatchInv, StartDependency, Fail, runVars, collectionVars
<1>2. Started(pc', at', outcomes')
  BY <1>0 DEF MatchInv, Started, Ended, StartDependency, Fail, runVars, collectionVars
<1>3. StepOK(setup'.scenarios, wire', pc', side', at', results')
  BY <1>0 DEF MatchInv, StepOK, StartDependency, Fail, runVars, collectionVars
<1>4. EndOK(setup'.scenarios, pc', failure', outcomes')
  BY <1>0 DEF MatchInv, EndOK, RunInv, FlowOK, Ended, Failure, NoFailure, StartDependency, Fail,
     runVars, collectionVars
<1>5. SidesOK(setup'.scenarios, wire', evidence')
  BY <1>0 DEF MatchInv, SidesOK, StartDependency, Fail, runVars, collectionVars
<1>6. WholeOK(setup'.scenarios, setup'.mode, pc', evidence')
  BY <1>0 DEF MatchInv, WholeOK, Ended, StartDependency, Fail, runVars, collectionVars
<1>7. ParityOK(setup'.scenarios, wire', setup'.mode, pc', evidence')
  BY <1>0 DEF MatchInv, ParityOK, Ended, StartDependency, Fail, runVars, collectionVars
<1>8. ReportMatched(setup'.scenarios, wire', setup'.mode, report')
  BY <1>0 DEF MatchInv, ReportMatched, StartDependency, Fail, runVars, collectionVars
<1> QED
  BY <1>1, <1>2, <1>3, <1>4, <1>5, <1>6, <1>7, <1>8 DEF MatchInv

\* MatchInv survives a command.
LEMMA MatchRunCommand ==
  ASSUME RunInv, MatchInv, RunCommand
  PROVE  MatchInv'
<1>0. setup'.scenarios = setup.scenarios /\ setup'.mode = setup.mode
  BY DEF RunCommand
<1>1. OutcomesOK(setup'.scenarios, wire', side', outcomes')
  BY <1>0 DEF MatchInv, RunCommand, Fail, runVars, collectionVars
<1>2. Started(pc', at', outcomes')
  BY <1>0 DEF MatchInv, Started, Ended, RunCommand, Fail, runVars, collectionVars
<1>3. StepOK(setup'.scenarios, wire', pc', side', at', results')
  BY <1>0 DEF MatchInv, StepOK, RunCommand, Fail, runVars, collectionVars
<1>4. EndOK(setup'.scenarios, pc', failure', outcomes')
  BY <1>0 DEF MatchInv, EndOK, RunInv, FlowOK, Ended, Failure, NoFailure, RunCommand, Fail,
     runVars, collectionVars
<1>5. SidesOK(setup'.scenarios, wire', evidence')
  BY <1>0 DEF MatchInv, SidesOK, RunCommand, Fail, runVars, collectionVars
<1>6. WholeOK(setup'.scenarios, setup'.mode, pc', evidence')
  BY <1>0 DEF MatchInv, WholeOK, Ended, RunCommand, Fail, runVars, collectionVars
<1>7. ParityOK(setup'.scenarios, wire', setup'.mode, pc', evidence')
  BY <1>0 DEF MatchInv, ParityOK, Ended, RunCommand, Fail, runVars, collectionVars
<1>8. ReportMatched(setup'.scenarios, wire', setup'.mode, report')
  BY <1>0 DEF MatchInv, ReportMatched, RunCommand, Fail, runVars, collectionVars
<1> QED
  BY <1>1, <1>2, <1>3, <1>4, <1>5, <1>6, <1>7, <1>8 DEF MatchInv

\* MatchInv survives the start of the application.
LEMMA MatchStartApplication ==
  ASSUME RunInv, MatchInv, StartApplication
  PROVE  MatchInv'
<1>0. setup'.scenarios = setup.scenarios /\ setup'.mode = setup.mode
  BY DEF StartApplication
<1>1. OutcomesOK(setup'.scenarios, wire', side', outcomes')
  BY <1>0 DEF MatchInv, StartApplication, Fail, runVars, collectionVars
<1>2. Started(pc', at', outcomes')
  BY <1>0 DEF MatchInv, Started, Ended, StartApplication, Fail, runVars, collectionVars
<1>3. StepOK(setup'.scenarios, wire', pc', side', at', results')
  BY <1>0 DEF MatchInv, StepOK, StartApplication, Fail, runVars, collectionVars
<1>4. EndOK(setup'.scenarios, pc', failure', outcomes')
  BY <1>0 DEF MatchInv, EndOK, RunInv, FlowOK, Ended, Failure, NoFailure, StartApplication,
     Fail, runVars, collectionVars
<1>5. SidesOK(setup'.scenarios, wire', evidence')
  BY <1>0 DEF MatchInv, SidesOK, StartApplication, Fail, runVars, collectionVars
<1>6. WholeOK(setup'.scenarios, setup'.mode, pc', evidence')
  BY <1>0 DEF MatchInv, WholeOK, Ended, StartApplication, Fail, runVars, collectionVars
<1>7. ParityOK(setup'.scenarios, wire', setup'.mode, pc', evidence')
  BY <1>0 DEF MatchInv, ParityOK, Ended, StartApplication, Fail, runVars, collectionVars
<1>8. ReportMatched(setup'.scenarios, wire', setup'.mode, report')
  BY <1>0 DEF MatchInv, ReportMatched, StartApplication, Fail, runVars, collectionVars
<1> QED
  BY <1>1, <1>2, <1>3, <1>4, <1>5, <1>6, <1>7, <1>8 DEF MatchInv

\* MatchInv survives the exit of the application.
LEMMA MatchApplicationExits ==
  ASSUME RunInv, MatchInv, ApplicationExits
  PROVE  MatchInv'
<1>0. setup'.scenarios = setup.scenarios /\ setup'.mode = setup.mode
  BY DEF ApplicationExits
<1>1. OutcomesOK(setup'.scenarios, wire', side', outcomes')
  BY <1>0 DEF MatchInv, ApplicationExits, runVars, collectionVars
<1>2. Started(pc', at', outcomes')
  BY <1>0 DEF MatchInv, Started, Ended, ApplicationExits, runVars, collectionVars
<1>3. StepOK(setup'.scenarios, wire', pc', side', at', results')
  BY <1>0 DEF MatchInv, StepOK, ApplicationExits, runVars, collectionVars
<1>4. EndOK(setup'.scenarios, pc', failure', outcomes')
  BY <1>0 DEF MatchInv, EndOK, RunInv, FlowOK, Ended, Failure, NoFailure, ApplicationExits,
     runVars, collectionVars
<1>5. SidesOK(setup'.scenarios, wire', evidence')
  BY <1>0 DEF MatchInv, SidesOK, ApplicationExits, runVars, collectionVars
<1>6. WholeOK(setup'.scenarios, setup'.mode, pc', evidence')
  BY <1>0 DEF MatchInv, WholeOK, Ended, ApplicationExits, runVars, collectionVars
<1>7. ParityOK(setup'.scenarios, wire', setup'.mode, pc', evidence')
  BY <1>0 DEF MatchInv, ParityOK, Ended, ApplicationExits, runVars, collectionVars
<1>8. ReportMatched(setup'.scenarios, wire', setup'.mode, report')
  BY <1>0 DEF MatchInv, ReportMatched, ApplicationExits, runVars, collectionVars
<1> QED
  BY <1>1, <1>2, <1>3, <1>4, <1>5, <1>6, <1>7, <1>8 DEF MatchInv

\* MatchInv survives the wait for health.
LEMMA MatchWaitForHealth ==
  ASSUME RunInv, MatchInv, WaitForHealth
  PROVE  MatchInv'
<1>0. setup'.scenarios = setup.scenarios /\ setup'.mode = setup.mode
  BY DEF WaitForHealth
<1>1. OutcomesOK(setup'.scenarios, wire', side', outcomes')
  BY <1>0 DEF MatchInv, WaitForHealth, Fail, runVars, collectionVars
<1>2. Started(pc', at', outcomes')
  BY <1>0 DEF MatchInv, Started, Ended, WaitForHealth, Fail, runVars, collectionVars
<1>3. StepOK(setup'.scenarios, wire', pc', side', at', results')
  BY <1>0 DEF MatchInv, StepOK, WaitForHealth, Fail, runVars, collectionVars
<1>4. EndOK(setup'.scenarios, pc', failure', outcomes')
  BY <1>0 DEF MatchInv, EndOK, RunInv, FlowOK, Ended, Failure, NoFailure, WaitForHealth, Fail,
     runVars, collectionVars
<1>5. SidesOK(setup'.scenarios, wire', evidence')
  BY <1>0 DEF MatchInv, SidesOK, WaitForHealth, Fail, runVars, collectionVars
<1>6. WholeOK(setup'.scenarios, setup'.mode, pc', evidence')
  BY <1>0 DEF MatchInv, WholeOK, Ended, WaitForHealth, Fail, runVars, collectionVars
<1>7. ParityOK(setup'.scenarios, wire', setup'.mode, pc', evidence')
  BY <1>0 DEF MatchInv, ParityOK, Ended, WaitForHealth, Fail, runVars, collectionVars
<1>8. ReportMatched(setup'.scenarios, wire', setup'.mode, report')
  BY <1>0 DEF MatchInv, ReportMatched, WaitForHealth, Fail, runVars, collectionVars
<1> QED
  BY <1>1, <1>2, <1>3, <1>4, <1>5, <1>6, <1>7, <1>8 DEF MatchInv

\* MatchInv survives a budget that runs out.
LEMMA MatchBudgetPasses ==
  ASSUME RunInv, MatchInv, BudgetPasses
  PROVE  MatchInv'
<1>0. setup'.scenarios = setup.scenarios /\ setup'.mode = setup.mode
  BY DEF BudgetPasses
<1>1. OutcomesOK(setup'.scenarios, wire', side', outcomes')
  BY <1>0 DEF MatchInv, BudgetPasses, runVars, collectionVars
<1>2. Started(pc', at', outcomes')
  BY <1>0 DEF MatchInv, Started, Ended, BudgetPasses, runVars, collectionVars
<1>3. StepOK(setup'.scenarios, wire', pc', side', at', results')
  BY <1>0 DEF MatchInv, StepOK, BudgetPasses, runVars, collectionVars
<1>4. EndOK(setup'.scenarios, pc', failure', outcomes')
  BY <1>0 DEF MatchInv, EndOK, RunInv, FlowOK, Ended, Failure, NoFailure, BudgetPasses, runVars,
     collectionVars
<1>5. SidesOK(setup'.scenarios, wire', evidence')
  BY <1>0 DEF MatchInv, SidesOK, BudgetPasses, runVars, collectionVars
<1>6. WholeOK(setup'.scenarios, setup'.mode, pc', evidence')
  BY <1>0 DEF MatchInv, WholeOK, Ended, BudgetPasses, runVars, collectionVars
<1>7. ParityOK(setup'.scenarios, wire', setup'.mode, pc', evidence')
  BY <1>0 DEF MatchInv, ParityOK, Ended, BudgetPasses, runVars, collectionVars
<1>8. ReportMatched(setup'.scenarios, wire', setup'.mode, report')
  BY <1>0 DEF MatchInv, ReportMatched, BudgetPasses, runVars, collectionVars
<1> QED
  BY <1>1, <1>2, <1>3, <1>4, <1>5, <1>6, <1>7, <1>8 DEF MatchInv

\* MatchInv survives the next scenario.
LEMMA MatchNextScenario ==
  ASSUME RunInv, MatchInv, NextScenario
  PROVE  MatchInv'
<1>0. setup'.scenarios = setup.scenarios /\ setup'.mode = setup.mode
  BY DEF NextScenario
<1>1. OutcomesOK(setup'.scenarios, wire', side', outcomes')
  <2>1. OutcomesOK(setup.scenarios, wire, side, outcomes) /\ wire' = wire /\ side' = side
    BY DEF MatchInv, NextScenario
  <2>2. CASE outcomes' = outcomes
    BY <1>0, <2>1, <2>2
  <2>3. ASSUME NEW status \in {"SKIPPED", "ERROR"},
               outcomes' = Append(outcomes, [scenario |-> setup.scenarios[at].name, status |-> status, steps |-> <<>>])
        PROVE  OutcomesOK(setup.scenarios, wire, side, outcomes')
    <3>1. at \in Nat \ {0} /\ at <= Len(setup.scenarios) /\ Len(outcomes) = at - 1
      BY DEF NextScenario, RunInv, FlowOK, MatchInv, Started
    <3>2. IsSeq(setup.scenarios)
      BY Scenarios DEF RunInv, Lists
    <3>3. at \in DOMAIN setup.scenarios /\ at = Len(outcomes) + 1
      BY <3>1, <3>2, SeqFacts
    <3>4. PICK o : o = [scenario |-> setup.scenarios[at].name, status |-> status, steps |-> <<>>]
      OBVIOUS
    <3>5. OutcomeOK(setup.scenarios, wire, side, at, o)
      BY <3>3, <3>4, UnrunOK
    <3> QED
      BY <2>1, <2>3, <3>3, <3>4, <3>5, OutcomeAppended
  <2>4. outcomes' = outcomes \/ \E status \in {"SKIPPED", "ERROR"} :
          outcomes' = Append(outcomes, [scenario |-> setup.scenarios[at].name, status |-> status, steps |-> <<>>])
    BY DEF NextScenario
  <2> QED
    BY <1>0, <2>1, <2>2, <2>3, <2>4
<1>2. Started(pc', at', outcomes')
  <2>1. /\ pc = "collection" /\ Len(outcomes) = at - 1 /\ at \in Nat \ {0} /\ IsSeq(outcomes)
    BY DEF NextScenario, RunInv, FlowOK, MatchInv, Started, OutcomesOK
  <2>2. \/ outcomes' = outcomes /\ at' = at /\ pc' = "step"
        \/ (\E o : outcomes' = Append(outcomes, o)) /\ at' = at + 1 /\ pc' = "collection"
    BY <2>1 DEF NextScenario
  <2>3. ASSUME NEW o, outcomes' = Append(outcomes, o) PROVE Len(outcomes') = Len(outcomes) + 1
    BY <2>1, <2>3, AppendFacts
  <2>4. Len(outcomes) \in Nat
    BY <2>1, SeqFacts
  <2> QED
    BY <2>1, <2>2, <2>3, <2>4 DEF Started
<1>3. StepOK(setup'.scenarios, wire', pc', side', at', results')
  <2>1. CASE pc' = "step"
    <3>1. at' = at /\ at <= Len(setup.scenarios) /\ results' = <<>>
      BY <2>1 DEF NextScenario
    <3>2. at \in Nat \ {0}
      BY DEF RunInv, FlowOK
    <3>3. Lists(setup.scenarios)
      BY Scenarios DEF RunInv
    <3>4. at \in DOMAIN setup.scenarios
      BY <3>1, <3>2, <3>3, SeqFacts DEF Lists
    <3>5. Len(setup.scenarios[at].steps) \in Nat
      BY <3>3, <3>4, SeqFacts DEF Lists
    <3>6. PICK rs : rs = <<>>
      OBVIOUS
    <3>7. rs \in Seq({}) /\ Len(rs) = 0
      BY <3>6
    <3>8. ResultsOK(setup.scenarios, wire', side', at, rs)
      <4>1. IsSeq(rs)
        BY <3>7, NoneIsSeq
      <4>2. 0 <= Len(setup.scenarios[at].steps)
        BY <3>5
      <4>3. Len(rs) = 0 /\ 1..Len(rs) = {}
        BY <3>7
      <4> QED
        BY <4>1, <4>2, <4>3 DEF ResultsOK
    <3> QED
      BY <1>0, <3>1, <3>6, <3>8 DEF StepOK
  <2> QED
    BY <2>1 DEF StepOK
<1>4. EndOK(setup'.scenarios, pc', failure', outcomes')
  BY <1>0 DEF MatchInv, EndOK, RunInv, FlowOK, Ended, Failure, NoFailure, NextScenario, runVars,
     collectionVars
<1>5. SidesOK(setup'.scenarios, wire', evidence')
  BY <1>0 DEF MatchInv, SidesOK, NextScenario, runVars, collectionVars
<1>6. WholeOK(setup'.scenarios, setup'.mode, pc', evidence')
  BY <1>0 DEF MatchInv, WholeOK, Ended, NextScenario, runVars, collectionVars
<1>7. ParityOK(setup'.scenarios, wire', setup'.mode, pc', evidence')
  BY <1>0 DEF MatchInv, ParityOK, Ended, NextScenario, runVars, collectionVars
<1>8. ReportMatched(setup'.scenarios, wire', setup'.mode, report')
  BY <1>0 DEF MatchInv, ReportMatched, NextScenario, runVars, collectionVars
<1> QED
  BY <1>1, <1>2, <1>3, <1>4, <1>5, <1>6, <1>7, <1>8 DEF MatchInv

\* MatchInv survives a step that is refused.
LEMMA MatchRefuseStep ==
  ASSUME RunInv, MatchInv, RefuseStep
  PROVE  MatchInv'
<1>0. setup'.scenarios = setup.scenarios /\ setup'.mode = setup.mode
  BY DEF RefuseStep
<1>9. /\ pc = "step" /\ at \in Nat \ {0} /\ at <= Len(setup.scenarios) /\ at \in DOMAIN setup.scenarios
      /\ ResultsOK(setup.scenarios, wire, side, at, results) /\ IsSeq(results) /\ IsSeq(setup.scenarios[at].steps)
      /\ Len(setup.scenarios[at].steps) \in Nat
  <2>1. pc = "step" /\ at \in Nat \ {0}
    BY DEF RunInv, FlowOK, RefuseStep
  <2>2. at <= Len(setup.scenarios) /\ ResultsOK(setup.scenarios, wire, side, at, results)
    BY <2>1 DEF MatchInv, StepOK
  <2>3. Lists(setup.scenarios)
    BY Scenarios DEF RunInv
  <2>4. at \in DOMAIN setup.scenarios
    BY <2>1, <2>2, <2>3, SeqFacts DEF Lists
  <2>5. IsSeq(setup.scenarios[at].steps)
    BY <2>3, <2>4 DEF Lists
  <2>6. Len(setup.scenarios[at].steps) \in Nat
    BY <2>5, SeqFacts
  <2> QED
    BY <2>1, <2>2, <2>4, <2>5, <2>6 DEF ResultsOK
<1>1. OutcomesOK(setup'.scenarios, wire', side', outcomes')
  BY <1>0 DEF MatchInv, RefuseStep, runVars, collectionVars
<1>2. Started(pc', at', outcomes')
  BY <1>0 DEF MatchInv, Started, Ended, RefuseStep, runVars, collectionVars
<1>3. StepOK(setup'.scenarios, wire', pc', side', at', results')
  <2>1. PICK why : results' = Append(results, ErrorResult(Step, why))
    BY DEF RefuseStep
  <2>2. Len(results) < Len(setup.scenarios[at].steps) /\ pc' = pc /\ at' = at /\ side' = side /\ wire' = wire
    BY DEF RefuseStep, Scenario
  <2>3. PICK r : r = ErrorResult(Step, why)
    OBVIOUS
  <2>4. r.status = "ERROR" /\ Backed(setup.scenarios, wire, side, at, Len(results) + 1, r)
    BY <2>3, ErrorBacked
  <2>5. ResultsOK(setup.scenarios, wire, side, at, Append(results, r))
    BY <1>9, <2>2, <2>4, ResultAppended
  <2> QED
    BY <1>0, <1>9, <2>1, <2>2, <2>3, <2>5 DEF StepOK
<1>4. EndOK(setup'.scenarios, pc', failure', outcomes')
  BY <1>0 DEF MatchInv, EndOK, RunInv, FlowOK, Ended, Failure, NoFailure, RefuseStep, runVars,
     collectionVars
<1>5. SidesOK(setup'.scenarios, wire', evidence')
  BY <1>0 DEF MatchInv, SidesOK, RefuseStep, runVars, collectionVars
<1>6. WholeOK(setup'.scenarios, setup'.mode, pc', evidence')
  BY <1>0 DEF MatchInv, WholeOK, Ended, RefuseStep, runVars, collectionVars
<1>7. ParityOK(setup'.scenarios, wire', setup'.mode, pc', evidence')
  BY <1>0 DEF MatchInv, ParityOK, Ended, RefuseStep, runVars, collectionVars
<1>8. ReportMatched(setup'.scenarios, wire', setup'.mode, report')
  BY <1>0 DEF MatchInv, ReportMatched, RefuseStep, runVars, collectionVars
<1> QED
  BY <1>1, <1>2, <1>3, <1>4, <1>5, <1>6, <1>7, <1>8 DEF MatchInv

\* MatchInv survives a step that is sent.
LEMMA MatchSendStep ==
  ASSUME RunInv, MatchInv, SendStep
  PROVE  MatchInv'
<1>0. setup'.scenarios = setup.scenarios /\ setup'.mode = setup.mode
  BY DEF SendStep
<1>9. /\ pc = "step" /\ at \in Nat \ {0} /\ at <= Len(setup.scenarios) /\ at \in DOMAIN setup.scenarios
      /\ ResultsOK(setup.scenarios, wire, side, at, results) /\ IsSeq(results) /\ IsSeq(setup.scenarios[at].steps)
      /\ Len(setup.scenarios[at].steps) \in Nat
  <2>1. pc = "step" /\ at \in Nat \ {0}
    BY DEF RunInv, FlowOK, SendStep, Sendable
  <2>2. at <= Len(setup.scenarios) /\ ResultsOK(setup.scenarios, wire, side, at, results)
    BY <2>1 DEF MatchInv, StepOK
  <2>3. Lists(setup.scenarios)
    BY Scenarios DEF RunInv
  <2>4. at \in DOMAIN setup.scenarios
    BY <2>1, <2>2, <2>3, SeqFacts DEF Lists
  <2>5. IsSeq(setup.scenarios[at].steps)
    BY <2>3, <2>4 DEF Lists
  <2>6. Len(setup.scenarios[at].steps) \in Nat
    BY <2>5, SeqFacts
  <2> QED
    BY <2>1, <2>2, <2>4, <2>5, <2>6 DEF ResultsOK
<1>10. PICK listener, answer :
         /\ results' = Append(results, StepResult(Step, answer))
         /\ wire' = Append(wire, [side |-> side, by |-> listener.side, scenario |-> at,
                                  step |-> Len(results) + 1, answer |-> answer])
  BY DEF SendStep
<1>11. PICK x : x = [side |-> side, by |-> listener.side, scenario |-> at, step |-> Len(results) + 1, answer |-> answer]
  OBVIOUS
<1>12. x.side = side /\ x.scenario = at /\ x.step = Len(results) + 1 /\ x.answer = answer
  BY <1>11
<1>13. ToSet(wire') = ToSet(wire) \cup {x}
  <2>1. IsSeq(wire)
    BY DEF RunInv, WireOK
  <2> QED
    BY <1>10, <1>11, <2>1, AppendFacts
<1>14. ToSet(wire) \subseteq ToSet(wire')
  BY <1>13
<1>1. OutcomesOK(setup'.scenarios, wire', side', outcomes')
  BY <1>0, <1>14, OutcomesStay DEF MatchInv, SendStep
<1>2. Started(pc', at', outcomes')
  BY <1>0 DEF MatchInv, Started, Ended, SendStep, Sendable, runVars, collectionVars
<1>3. StepOK(setup'.scenarios, wire', pc', side', at', results')
  <2>2. Len(results) < Len(setup.scenarios[at].steps) /\ pc' = pc /\ at' = at /\ side' = side
    BY DEF SendStep, Sendable, Scenario
  <2>3. PICK r : r = StepResult(Step, answer)
    OBVIOUS
  <2>4. /\ r.status \in {"ERROR", "FAILED", "PASSED"}
        /\ r.status = "PASSED" => r.answer = Evidence(answer) /\ r.httpStatus = answer.status /\ Faithful(Step, r)
    BY <2>3, AnswerBacked
  <2>5. Backed(setup.scenarios, wire', side, at, Len(results) + 1, r)
    BY <1>12, <1>13, <2>4 DEF Backed, Step, Scenario
  <2>6. ResultsOK(setup.scenarios, wire', side, at, results)
    BY <1>9, <1>14, ResultsStay
  <2>7. ResultsOK(setup.scenarios, wire', side, at, Append(results, r))
    BY <1>9, <2>2, <2>4, <2>5, <2>6, ResultAppended
  <2> QED
    BY <1>0, <1>9, <1>10, <2>2, <2>3, <2>7 DEF StepOK
<1>4. EndOK(setup'.scenarios, pc', failure', outcomes')
  BY <1>0 DEF MatchInv, EndOK, RunInv, FlowOK, Ended, Failure, NoFailure, SendStep, Sendable,
     runVars, collectionVars
<1>5. SidesOK(setup'.scenarios, wire', evidence')
  <2>1. evidence' = evidence
    BY DEF SendStep
  <2> QED
    BY <1>0, <1>14, <2>1, OutcomesStay DEF MatchInv, SidesOK
<1>6. WholeOK(setup'.scenarios, setup'.mode, pc', evidence')
  BY <1>0 DEF MatchInv, WholeOK, Ended, SendStep, Sendable, runVars, collectionVars
<1>7. ParityOK(setup'.scenarios, wire', setup'.mode, pc', evidence')
  BY <1>9 DEF SendStep, ParityOK
<1>8. ReportMatched(setup'.scenarios, wire', setup'.mode, report')
  <2>1. report' = report
    BY DEF SendStep
  <2> QED
    BY <1>0, <1>14, <2>1, MatchedStays DEF MatchInv, ReportMatched
<1> QED
  BY <1>1, <1>2, <1>3, <1>4, <1>5, <1>6, <1>7, <1>8 DEF MatchInv

\* MatchInv survives a step that is lost.
LEMMA MatchLoseStep ==
  ASSUME RunInv, MatchInv, LoseStep
  PROVE  MatchInv'
<1>0. setup'.scenarios = setup.scenarios /\ setup'.mode = setup.mode
  BY DEF LoseStep
<1>9. /\ pc = "step" /\ at \in Nat \ {0} /\ at <= Len(setup.scenarios) /\ at \in DOMAIN setup.scenarios
      /\ ResultsOK(setup.scenarios, wire, side, at, results) /\ IsSeq(results) /\ IsSeq(setup.scenarios[at].steps)
      /\ Len(setup.scenarios[at].steps) \in Nat
  <2>1. pc = "step" /\ at \in Nat \ {0}
    BY DEF RunInv, FlowOK, LoseStep, Sendable
  <2>2. at <= Len(setup.scenarios) /\ ResultsOK(setup.scenarios, wire, side, at, results)
    BY <2>1 DEF MatchInv, StepOK
  <2>3. Lists(setup.scenarios)
    BY Scenarios DEF RunInv
  <2>4. at \in DOMAIN setup.scenarios
    BY <2>1, <2>2, <2>3, SeqFacts DEF Lists
  <2>5. IsSeq(setup.scenarios[at].steps)
    BY <2>3, <2>4 DEF Lists
  <2>6. Len(setup.scenarios[at].steps) \in Nat
    BY <2>5, SeqFacts
  <2> QED
    BY <2>1, <2>2, <2>4, <2>5, <2>6 DEF ResultsOK
<1>1. OutcomesOK(setup'.scenarios, wire', side', outcomes')
  BY <1>0 DEF MatchInv, LoseStep, Sendable, runVars, collectionVars
<1>2. Started(pc', at', outcomes')
  BY <1>0 DEF MatchInv, Started, Ended, LoseStep, Sendable, runVars, collectionVars
<1>3. StepOK(setup'.scenarios, wire', pc', side', at', results')
  <2>1. PICK why : results' = Append(results, ErrorResult(Step, why))
    BY DEF LoseStep
  <2>2. Len(results) < Len(setup.scenarios[at].steps) /\ pc' = pc /\ at' = at /\ side' = side /\ wire' = wire
    BY DEF LoseStep, Sendable, Scenario
  <2>3. PICK r : r = ErrorResult(Step, why)
    OBVIOUS
  <2>4. r.status = "ERROR" /\ Backed(setup.scenarios, wire, side, at, Len(results) + 1, r)
    BY <2>3, ErrorBacked
  <2>5. ResultsOK(setup.scenarios, wire, side, at, Append(results, r))
    BY <1>9, <2>2, <2>4, ResultAppended
  <2> QED
    BY <1>0, <1>9, <2>1, <2>2, <2>3, <2>5 DEF StepOK
<1>4. EndOK(setup'.scenarios, pc', failure', outcomes')
  BY <1>0 DEF MatchInv, EndOK, RunInv, FlowOK, Ended, Failure, NoFailure, LoseStep, Sendable,
     runVars, collectionVars
<1>5. SidesOK(setup'.scenarios, wire', evidence')
  BY <1>0 DEF MatchInv, SidesOK, LoseStep, Sendable, runVars, collectionVars
<1>6. WholeOK(setup'.scenarios, setup'.mode, pc', evidence')
  BY <1>0 DEF MatchInv, WholeOK, Ended, LoseStep, Sendable, runVars, collectionVars
<1>7. ParityOK(setup'.scenarios, wire', setup'.mode, pc', evidence')
  BY <1>0 DEF MatchInv, ParityOK, Ended, LoseStep, Sendable, runVars, collectionVars
<1>8. ReportMatched(setup'.scenarios, wire', setup'.mode, report')
  BY <1>0 DEF MatchInv, ReportMatched, LoseStep, Sendable, runVars, collectionVars
<1> QED
  BY <1>1, <1>2, <1>3, <1>4, <1>5, <1>6, <1>7, <1>8 DEF MatchInv

\* MatchInv survives the end of a scenario.
LEMMA MatchEndScenario ==
  ASSUME RunInv, MatchInv, EndScenario
  PROVE  MatchInv'
<1>0. setup'.scenarios = setup.scenarios /\ setup'.mode = setup.mode
  BY DEF EndScenario
<1>9. /\ pc = "step" /\ at \in Nat \ {0} /\ at <= Len(setup.scenarios) /\ at \in DOMAIN setup.scenarios
      /\ ResultsOK(setup.scenarios, wire, side, at, results) /\ IsSeq(results) /\ IsSeq(setup.scenarios[at].steps)
      /\ Len(setup.scenarios[at].steps) \in Nat
  <2>1. pc = "step" /\ at \in Nat \ {0}
    BY DEF RunInv, FlowOK, EndScenario
  <2>2. at <= Len(setup.scenarios) /\ ResultsOK(setup.scenarios, wire, side, at, results)
    BY <2>1 DEF MatchInv, StepOK
  <2>3. Lists(setup.scenarios)
    BY Scenarios DEF RunInv
  <2>4. at \in DOMAIN setup.scenarios
    BY <2>1, <2>2, <2>3, SeqFacts DEF Lists
  <2>5. IsSeq(setup.scenarios[at].steps)
    BY <2>3, <2>4 DEF Lists
  <2>6. Len(setup.scenarios[at].steps) \in Nat
    BY <2>5, SeqFacts
  <2> QED
    BY <2>1, <2>2, <2>4, <2>5, <2>6 DEF ResultsOK
<1>10. /\ OutcomesOK(setup.scenarios, wire, side, outcomes) /\ Len(outcomes) = at - 1 /\ IsSeq(outcomes)
       /\ Len(outcomes) \in Nat
  <2>1. OutcomesOK(setup.scenarios, wire, side, outcomes) /\ Len(outcomes) = at - 1
    BY <1>9 DEF MatchInv, Started
  <2> QED
    BY <2>1, SeqFacts DEF OutcomesOK
<1>1. OutcomesOK(setup'.scenarios, wire', side', outcomes')
  <2>1. wire' = wire /\ side' = side /\ outcomes' = Append(outcomes, ScenarioReport(setup.scenarios[at], results))
    BY DEF EndScenario, Scenario
  <2>2. (results # <<>> /\ Last(results).status # "PASSED") \/ Len(results) = Len(setup.scenarios[at].steps)
    BY DEF EndScenario, Halted, Scenario
  <2>3. PICK o : o = ScenarioReport(setup.scenarios[at], results)
    OBVIOUS
  <2>4. OutcomeOK(setup.scenarios, wire, side, at, o)
    BY <1>9, <2>2, <2>3, ReportBacked
  <2>5. at = Len(outcomes) + 1
    BY <1>9, <1>10
  <2> QED
    BY <1>0, <1>10, <2>1, <2>3, <2>4, <2>5, OutcomeAppended
<1>2. Started(pc', at', outcomes')
  <2>1. pc' = "collection" /\ at' = at + 1 /\ outcomes' = Append(outcomes, ScenarioReport(setup.scenarios[at], results))
    BY DEF EndScenario, Scenario
  <2>2. Len(outcomes') = Len(outcomes) + 1
    BY <1>10, <2>1, AppendFacts
  <2> QED
    BY <1>9, <1>10, <2>1, <2>2 DEF Started, Ended
<1>3. StepOK(setup'.scenarios, wire', pc', side', at', results')
  BY <1>0 DEF MatchInv, StepOK, EndScenario, runVars, collectionVars
<1>4. EndOK(setup'.scenarios, pc', failure', outcomes')
  BY <1>0 DEF MatchInv, EndOK, RunInv, FlowOK, Ended, Failure, NoFailure, EndScenario, runVars,
     collectionVars
<1>5. SidesOK(setup'.scenarios, wire', evidence')
  BY <1>0 DEF MatchInv, SidesOK, EndScenario, runVars, collectionVars
<1>6. WholeOK(setup'.scenarios, setup'.mode, pc', evidence')
  BY <1>0 DEF MatchInv, WholeOK, Ended, EndScenario, runVars, collectionVars
<1>7. ParityOK(setup'.scenarios, wire', setup'.mode, pc', evidence')
  BY <1>0 DEF MatchInv, ParityOK, Ended, EndScenario, runVars, collectionVars
<1>8. ReportMatched(setup'.scenarios, wire', setup'.mode, report')
  BY <1>0 DEF MatchInv, ReportMatched, EndScenario, runVars, collectionVars
<1> QED
  BY <1>1, <1>2, <1>3, <1>4, <1>5, <1>6, <1>7, <1>8 DEF MatchInv

\* MatchInv survives the end of the collection.
LEMMA MatchEndCollection ==
  ASSUME RunInv, MatchInv, EndCollection
  PROVE  MatchInv'
<1>0. setup'.scenarios = setup.scenarios /\ setup'.mode = setup.mode
  BY DEF EndCollection
<1>1. OutcomesOK(setup'.scenarios, wire', side', outcomes')
  BY <1>0 DEF MatchInv, EndCollection, Fail, runVars, collectionVars
<1>2. Started(pc', at', outcomes')
  BY <1>0 DEF MatchInv, Started, Ended, EndCollection, Fail, runVars, collectionVars
<1>3. StepOK(setup'.scenarios, wire', pc', side', at', results')
  BY <1>0 DEF MatchInv, StepOK, EndCollection, Fail, runVars, collectionVars
<1>4. EndOK(setup'.scenarios, pc', failure', outcomes')
  <2>1. CASE Verdict.verdict # "PROVEN"
    <3>1. failure = NoFailure
      BY DEF RunInv, FlowOK, Ended, EndCollection
    <3>2. PICK class : failure' = Failure(class, "collection", "none") /\ class # "none"
      <4>1. failure' = Failure(CASE CollectionStatus # "PASSED" -> "SCENARIO_FAILED"
                                 [] CollectionStatus = "PASSED" /\ Coverage.incomplete # {} -> "CONTRACT_GAP"
                                 [] OTHER -> "COVERAGE_INCOMPLETE", "collection", "none")
        BY <2>1, <3>1 DEF EndCollection, Fail
      <4>2. PICK class : class = CASE CollectionStatus # "PASSED" -> "SCENARIO_FAILED"
                                   [] CollectionStatus = "PASSED" /\ Coverage.incomplete # {} -> "CONTRACT_GAP"
                                   [] OTHER -> "COVERAGE_INCOMPLETE"
        OBVIOUS
      <4>3. class # "none"
        BY <4>2
      <4> QED
        BY <4>1, <4>2, <4>3
    <3>3. failure' # NoFailure
      BY <3>2 DEF Failure, NoFailure
    <3> QED
      BY <3>3 DEF EndOK
  <2>2. CASE Verdict.verdict = "PROVEN"
    <3>1. /\ OutcomesOK(setup.scenarios, wire, side, outcomes) /\ Len(outcomes) = at - 1 /\ at > Len(setup.scenarios)
          /\ at \in Nat /\ outcomes' = outcomes
      BY DEF EndCollection, collectionVars, MatchInv, Started, RunInv, FlowOK
    <3>2. IsSeq(setup.scenarios)
      BY Scenarios DEF RunInv, Lists
    <3>3. PICK n \in Nat : n = Len(setup.scenarios) /\ DOMAIN setup.scenarios = 1..n
      BY <3>2, SeqFacts
    <3>4. PICK m \in Nat : m = Len(outcomes)
      BY <3>1, SeqFacts DEF OutcomesOK
    <3>5. m \in 1..m => m \in DOMAIN setup.scenarios
      BY <3>1, <3>4 DEF OutcomesOK, OutcomeOK
    <3>6. m = n
      BY <3>1, <3>3, <3>4, <3>5
    <3>7. \A i \in 1..Len(outcomes) : outcomes[i].status = "PASSED"
      BY <2>2, <3>1, ProvenIsWhole DEF Verdict, Number, OutcomesOK
    <3>8. Whole(setup.scenarios, outcomes)
      BY <3>3, <3>4, <3>6, <3>7 DEF Whole
    <3> QED
      BY <1>0, <3>1, <3>8 DEF EndOK
  <2> QED
    BY <2>1, <2>2
<1>5. SidesOK(setup'.scenarios, wire', evidence')
  BY <1>0 DEF MatchInv, SidesOK, EndCollection, Fail, runVars, collectionVars
<1>6. WholeOK(setup'.scenarios, setup'.mode, pc', evidence')
  BY <1>0 DEF MatchInv, WholeOK, Ended, EndCollection, Fail, runVars, collectionVars
<1>7. ParityOK(setup'.scenarios, wire', setup'.mode, pc', evidence')
  BY <1>0 DEF MatchInv, ParityOK, Ended, EndCollection, Fail, runVars, collectionVars
<1>8. ReportMatched(setup'.scenarios, wire', setup'.mode, report')
  BY <1>0 DEF MatchInv, ReportMatched, EndCollection, Fail, runVars, collectionVars
<1> QED
  BY <1>1, <1>2, <1>3, <1>4, <1>5, <1>6, <1>7, <1>8 DEF MatchInv

\* MatchInv survives the cleanup.
LEMMA MatchCleanup ==
  ASSUME RunInv, MatchInv, Cleanup, setup.mode # "registered"
  PROVE  MatchInv'
<1>0. setup'.scenarios = setup.scenarios /\ setup'.mode = setup.mode
  BY DEF Cleanup
<1>9. /\ DOMAIN evidence' = DOMAIN evidence \cup {side}
      /\ \A s \in DOMAIN evidence : s # side => evidence'[s] = evidence[s]
      /\ evidence'[side].reports = outcomes
      /\ evidence'[side].verdict = "PROVEN" => failure = NoFailure
  <2> DEFINE row == [verdict |-> IF failure = NoFailure THEN "PROVEN" ELSE "NOT_PROVEN", failure |-> failure,
                     reports |-> outcomes]
  <2>1. row.reports = outcomes /\ (row.verdict = "PROVEN" => failure = NoFailure)
    OBVIOUS
  <2> HIDE DEF row
  <2>2. evidence' = [s \in DOMAIN evidence \cup {side} |-> IF s # side THEN evidence[s] ELSE row]
    BY DEF Cleanup, row
  <2>3. DOMAIN evidence' = DOMAIN evidence \cup {side} /\ evidence'[side] = row
        /\ \A s \in DOMAIN evidence : s # side => evidence'[s] = evidence[s]
    BY <2>2
  <2> QED
    BY <2>1, <2>3
<1>10. outcomes' = <<>> /\ wire' = wire /\ pc = "cleanup" /\ pc' \notin {"collection", "step", "cleanup"}
  BY DEF Cleanup
<1>1. OutcomesOK(setup'.scenarios, wire', side', outcomes')
  BY <1>10, NoOutcomes
<1>2. Started(pc', at', outcomes')
  BY <1>10 DEF Started
<1>3. StepOK(setup'.scenarios, wire', pc', side', at', results')
  BY <1>10 DEF StepOK
<1>4. EndOK(setup'.scenarios, pc', failure', outcomes')
  BY <1>10 DEF EndOK
<1>5. SidesOK(setup'.scenarios, wire', evidence')
  BY <1>0, <1>9, <1>10 DEF MatchInv, SidesOK
<1>6. WholeOK(setup'.scenarios, setup'.mode, pc', evidence')
  <2> SUFFICES ASSUME setup.mode = "comparison", NEW s \in DOMAIN evidence', evidence'[s].verdict = "PROVEN"
               PROVE  Whole(setup.scenarios, evidence'[s].reports)
    BY <1>0 DEF WholeOK
  <2>1. CASE s = side
    BY <1>9, <1>10, <2>1 DEF MatchInv, EndOK
  <2>2. CASE s # side
    <3>1. s \in DOMAIN evidence /\ evidence'[s] = evidence[s]
      BY <1>9, <2>2
    <3> QED
      BY <1>10, <3>1 DEF MatchInv, WholeOK, Ended
  <2> QED
    BY <2>1, <2>2
<1>7. ParityOK(setup'.scenarios, wire', setup'.mode, pc', evidence')
  <2>1. setup.mode = "comparison" => pc' # "record"
    BY SetupModes DEF Cleanup, RunInv, FlowOK
  <2> QED
    BY <1>0, <2>1 DEF ParityOK
<1>8. ReportMatched(setup'.scenarios, wire', setup'.mode, report')
  BY <1>0 DEF MatchInv, ReportMatched, Cleanup, runVars, collectionVars
<1> QED
  BY <1>1, <1>2, <1>3, <1>4, <1>5, <1>6, <1>7, <1>8 DEF MatchInv

\* A comparison that makes the subject PROVEN: neither side failed, and their answers match.
LEMMA Compared ==
  ASSUME RunInv, Compare
  PROVE  /\ DOMAIN evidence' = DOMAIN evidence
         /\ \A s \in DOMAIN evidence : evidence'[s].reports = evidence[s].reports
         /\ \A s \in DOMAIN evidence : s # "subject" => evidence'[s] = evidence[s]
         /\ evidence'["subject"].verdict = "PROVEN" =>
              /\ evidence["subject"].failure = NoFailure /\ evidence["reference"].verdict = "PROVEN"
              /\ Parity.verdict = "MATCH"
<1>9. {"reference", "subject"} \subseteq DOMAIN evidence
  BY DEF Compare, RunInv, EvidenceOK
<1>10. PICK first :
         /\ first = IF evidence["subject"].failure # NoFailure THEN evidence["subject"].failure
                    ELSE IF evidence["reference"].verdict # "PROVEN" THEN Failure("REFERENCE_NOT_PROVEN", "reference", "none")
                    ELSE IF Parity.verdict # "MATCH" THEN Failure("PARITY_MISMATCH", "parity", "none")
                    ELSE NoFailure
         /\ evidence' = [evidence EXCEPT !["subject"].failure = first,
                                         !["subject"].verdict = IF first = NoFailure THEN "PROVEN" ELSE "NOT_PROVEN"]
  BY DEF Compare
<1>11. /\ DOMAIN evidence' = DOMAIN evidence
       /\ \A s \in DOMAIN evidence : evidence'[s].reports = evidence[s].reports
       /\ \A s \in DOMAIN evidence : s # "subject" => evidence'[s] = evidence[s]
       /\ evidence'["subject"].verdict = "PROVEN" => first = NoFailure
  <2>1. PICK v : v = IF first = NoFailure THEN "PROVEN" ELSE "NOT_PROVEN"
    OBVIOUS
  <2>2. PICK sub : sub = "subject"
    OBVIOUS
  <2>3. evidence' = [evidence EXCEPT ![sub].failure = first, ![sub].verdict = v]
    BY <1>10, <2>1, <2>2
  <2>4. sub \in DOMAIN evidence
    BY <1>9, <2>2
  <2>5. evidence' = [evidence EXCEPT ![sub] = [[evidence[sub] EXCEPT !.failure = first] EXCEPT !.verdict = v]]
    BY <2>3, <2>4
  <2>6. PICK o : o = evidence[sub]
    OBVIOUS
  <2>7. Row(o)
    BY <2>4, <2>6 DEF RunInv, EvidenceOK
  <2>8. PICK a, b, c : o = [verdict |-> a, failure |-> b, reports |-> c]
    BY <2>7 DEF Row
  <2>9. PICK p : p = [o EXCEPT !.failure = first]
    OBVIOUS
  <2>10. p = [verdict |-> a, failure |-> first, reports |-> c]
    BY <2>8, <2>9
  <2>11. PICK q : q = [p EXCEPT !.verdict = v]
    OBVIOUS
  <2>12. q = [verdict |-> v, failure |-> first, reports |-> c]
    BY <2>10, <2>11
  <2>13. q.reports = o.reports /\ q.verdict = v
    BY <2>8, <2>12
  <2>14. evidence' = [evidence EXCEPT ![sub] = q]
    BY <2>5, <2>6, <2>9, <2>11
  <2>15. DOMAIN evidence' = DOMAIN evidence /\ evidence'[sub] = q
         /\ \A s \in DOMAIN evidence : s # sub => evidence'[s] = evidence[s]
    BY <2>4, <2>14
  <2>16. ASSUME NEW s \in DOMAIN evidence PROVE evidence'[s].reports = evidence[s].reports
    BY <2>6, <2>13, <2>15
  <2>17. evidence'["subject"].verdict = v
    BY <2>2, <2>13, <2>15
  <2> QED
    BY <2>1, <2>2, <2>15, <2>16, <2>17
<1>12. Failure("REFERENCE_NOT_PROVEN", "reference", "none") # NoFailure
       /\ Failure("PARITY_MISMATCH", "parity", "none") # NoFailure
  BY FailureIsOne
<1>13. first = NoFailure =>
         /\ evidence["subject"].failure = NoFailure /\ evidence["reference"].verdict = "PROVEN"
         /\ Parity.verdict = "MATCH"
  BY <1>10, <1>12
<1> QED
  BY <1>11, <1>13

\* MatchInv survives the comparison.
LEMMA MatchCompare ==
  ASSUME RunInv, MatchInv, Compare
  PROVE  MatchInv'
<1>0. setup'.scenarios = setup.scenarios /\ setup'.mode = setup.mode
  BY DEF Compare
<1>9. /\ pc = "compare" /\ pc' = "record" /\ wire' = wire /\ {"reference", "subject"} \subseteq DOMAIN evidence
      /\ setup.mode = "comparison"
  BY DEF Compare, runVars, collectionVars, RunInv, EvidenceOK, FlowOK
<1>1. OutcomesOK(setup'.scenarios, wire', side', outcomes')
  BY <1>0 DEF MatchInv, Compare, runVars, collectionVars
<1>2. Started(pc', at', outcomes')
  BY <1>0 DEF MatchInv, Started, Ended, Compare, runVars, collectionVars
<1>3. StepOK(setup'.scenarios, wire', pc', side', at', results')
  BY <1>0 DEF MatchInv, StepOK, Compare, runVars, collectionVars
<1>4. EndOK(setup'.scenarios, pc', failure', outcomes')
  BY <1>0 DEF MatchInv, EndOK, RunInv, FlowOK, Ended, Failure, NoFailure, Compare, runVars,
     collectionVars
<1>5. SidesOK(setup'.scenarios, wire', evidence')
  BY <1>0, <1>9, Compared DEF MatchInv, SidesOK
<1>6. WholeOK(setup'.scenarios, setup'.mode, pc', evidence')
  BY <1>9 DEF WholeOK, Ended
<1>7. ParityOK(setup'.scenarios, wire', setup'.mode, pc', evidence')
  <2> SUFFICES ASSUME evidence'["subject"].verdict = "PROVEN", OneNameEach(setup.scenarios)
               PROVE  Matched(setup.scenarios, wire)
    BY <1>0, <1>9 DEF ParityOK
  <2>1. /\ evidence["reference"].verdict = "PROVEN"
        /\ CompareExecutions(StepsFromReports(evidence["reference"].reports),
                             StepsFromReports(evidence["subject"].reports)).verdict = "MATCH"
    BY Compared DEF Parity
  <2>2. PICK ref, sub : ref = evidence["reference"].reports /\ sub = evidence["subject"].reports
    OBVIOUS
  <2>3. /\ OutcomesOK(setup.scenarios, wire, "reference", ref) /\ OutcomesOK(setup.scenarios, wire, "subject", sub)
        /\ Whole(setup.scenarios, ref)
    BY <1>9, <2>1, <2>2 DEF MatchInv, SidesOK, WholeOK, Ended
  <2>4. Lists(setup.scenarios)
    BY Scenarios DEF RunInv
  <2> QED
    BY <2>1, <2>2, <2>3, <2>4, MatchedExecutions
<1>8. ReportMatched(setup'.scenarios, wire', setup'.mode, report')
  BY <1>0 DEF MatchInv, ReportMatched, Compare, runVars, collectionVars
<1> QED
  BY <1>1, <1>2, <1>3, <1>4, <1>5, <1>6, <1>7, <1>8 DEF MatchInv

\* MatchInv survives the start of a registered target.
LEMMA MatchStartRegistered ==
  ASSUME RunInv, MatchInv, StartRegistered
  PROVE  MatchInv'
<1>0. setup'.scenarios = setup.scenarios /\ setup'.mode = setup.mode
  BY DEF StartRegistered
<1>1. OutcomesOK(setup'.scenarios, wire', side', outcomes')
  BY <1>0 DEF MatchInv, StartRegistered, runVars, collectionVars
<1>2. Started(pc', at', outcomes')
  <2>1. outcomes' = outcomes /\ at' = at /\ pc = "queued" /\ pc' \in {"collection", "done"}
    BY DEF StartRegistered, runVars, collectionVars
  <2>2. at = 1 /\ outcomes = <<>>
    BY <2>1 DEF RunInv, FlowOK, MatchInv, Started, Ended
  <2>3. Len(outcomes') = at' - 1
    BY <2>1, <2>2
  <2> QED
    BY <2>1, <2>3 DEF Started, Ended
<1>3. StepOK(setup'.scenarios, wire', pc', side', at', results')
  BY <1>0 DEF MatchInv, StepOK, StartRegistered, runVars, collectionVars
<1>4. EndOK(setup'.scenarios, pc', failure', outcomes')
  BY <1>0 DEF MatchInv, EndOK, RunInv, FlowOK, Ended, Failure, NoFailure, StartRegistered,
     runVars, collectionVars
<1>5. SidesOK(setup'.scenarios, wire', evidence')
  BY <1>0 DEF MatchInv, SidesOK, StartRegistered, runVars, collectionVars
<1>6. WholeOK(setup'.scenarios, setup'.mode, pc', evidence')
  BY <1>0 DEF MatchInv, WholeOK, Ended, StartRegistered, runVars, collectionVars
<1>7. ParityOK(setup'.scenarios, wire', setup'.mode, pc', evidence')
  BY <1>0 DEF MatchInv, ParityOK, Ended, StartRegistered, runVars, collectionVars
<1>8. ReportMatched(setup'.scenarios, wire', setup'.mode, report')
  BY <1>0 DEF MatchInv, ReportMatched, StartRegistered, runVars, collectionVars
<1> QED
  BY <1>1, <1>2, <1>3, <1>4, <1>5, <1>6, <1>7, <1>8 DEF MatchInv

\* MatchInv survives the disabling of a resource.
LEMMA MatchDisableResource ==
  ASSUME RunInv, MatchInv, DisableResource
  PROVE  MatchInv'
<1>0. setup'.scenarios = setup.scenarios /\ setup'.mode = setup.mode
  BY Disabled DEF RunInv, DisableResource
<1>1. OutcomesOK(setup'.scenarios, wire', side', outcomes')
  BY <1>0 DEF MatchInv, DisableResource, runVars, collectionVars
<1>2. Started(pc', at', outcomes')
  BY <1>0 DEF MatchInv, Started, Ended, DisableResource, runVars, collectionVars
<1>3. StepOK(setup'.scenarios, wire', pc', side', at', results')
  BY <1>0 DEF MatchInv, StepOK, DisableResource, runVars, collectionVars
<1>4. EndOK(setup'.scenarios, pc', failure', outcomes')
  BY <1>0 DEF MatchInv, EndOK, RunInv, FlowOK, Ended, Failure, NoFailure, DisableResource,
     runVars, collectionVars
<1>5. SidesOK(setup'.scenarios, wire', evidence')
  BY <1>0 DEF MatchInv, SidesOK, DisableResource, runVars, collectionVars
<1>6. WholeOK(setup'.scenarios, setup'.mode, pc', evidence')
  BY <1>0 DEF MatchInv, WholeOK, Ended, DisableResource, runVars, collectionVars
<1>7. ParityOK(setup'.scenarios, wire', setup'.mode, pc', evidence')
  BY <1>0 DEF MatchInv, ParityOK, Ended, DisableResource, runVars, collectionVars
<1>8. ReportMatched(setup'.scenarios, wire', setup'.mode, report')
  BY <1>0 DEF MatchInv, ReportMatched, DisableResource, runVars, collectionVars
<1> QED
  BY <1>1, <1>2, <1>3, <1>4, <1>5, <1>6, <1>7, <1>8 DEF MatchInv

\* MatchInv survives the report on a registered target.
LEMMA MatchRecordRegistered ==
  ASSUME RunInv, MatchInv, RecordRegistered
  PROVE  MatchInv'
<1>0. setup'.scenarios = setup.scenarios /\ setup'.mode = setup.mode
  BY DEF RecordRegistered
<1>1. OutcomesOK(setup'.scenarios, wire', side', outcomes')
  BY <1>0 DEF MatchInv, RecordRegistered, runVars, collectionVars
<1>2. Started(pc', at', outcomes')
  BY <1>0 DEF MatchInv, Started, Ended, RecordRegistered, runVars, collectionVars
<1>3. StepOK(setup'.scenarios, wire', pc', side', at', results')
  BY <1>0 DEF MatchInv, StepOK, RecordRegistered, runVars, collectionVars
<1>4. EndOK(setup'.scenarios, pc', failure', outcomes')
  BY <1>0 DEF MatchInv, EndOK, RunInv, FlowOK, Ended, Failure, NoFailure, RecordRegistered,
     runVars, collectionVars
<1>5. SidesOK(setup'.scenarios, wire', evidence')
  BY <1>0 DEF MatchInv, SidesOK, RecordRegistered, runVars, collectionVars
<1>6. WholeOK(setup'.scenarios, setup'.mode, pc', evidence')
  BY <1>0 DEF MatchInv, WholeOK, Ended, RecordRegistered, runVars, collectionVars
<1>7. ParityOK(setup'.scenarios, wire', setup'.mode, pc', evidence')
  BY <1>0 DEF MatchInv, ParityOK, Ended, RecordRegistered, runVars, collectionVars
<1>8. ReportMatched(setup'.scenarios, wire', setup'.mode, report')
  BY <1>0 DEF RecordRegistered, ReportMatched
<1> QED
  BY <1>1, <1>2, <1>3, <1>4, <1>5, <1>6, <1>7, <1>8 DEF MatchInv

\* MatchInv holds of every set-up.
LEMMA MatchInit ==
  ASSUME Init
  PROVE  MatchInv
<1>1. outcomes = <<>> /\ evidence = <<>> /\ pc = "queued" /\ report = NoReport
  BY DEF Init
<1>2. DOMAIN evidence = {}
  BY <1>1
<1>3. OutcomesOK(setup.scenarios, wire, side, outcomes)
  BY <1>1, NoOutcomes
<1>4. report.verdict = "none"
  BY <1>1 DEF NoReport
<1>5. Started(pc, at, outcomes)
  BY <1>1 DEF Started
<1>6. /\ StepOK(setup.scenarios, wire, pc, side, at, results) /\ EndOK(setup.scenarios, pc, failure, outcomes)
      /\ SidesOK(setup.scenarios, wire, evidence) /\ WholeOK(setup.scenarios, setup.mode, pc, evidence)
  BY <1>1, <1>2 DEF StepOK, EndOK, SidesOK, WholeOK
<1>7. /\ ParityOK(setup.scenarios, wire, setup.mode, pc, evidence)
      /\ ReportMatched(setup.scenarios, wire, setup.mode, report)
  BY <1>1, <1>4 DEF ParityOK, ReportMatched
<1> QED
  BY <1>3, <1>5, <1>6, <1>7 DEF MatchInv

\* No step breaks MatchInv.
LEMMA MatchNext ==
  ASSUME RunInv, MatchInv, [Next]_vars
  PROVE  MatchInv'
<1>1. CASE UNCHANGED vars
  BY <1>1 DEF vars, MatchInv
<1>2. CASE Claim
  BY <1>2, MatchClaim
<1>3. ASSUME NEW file \in {"none", "refused", "valid"}, Record(file)
      PROVE  MatchInv'
  BY <1>3, MatchRecord
<1>4. CASE EnvironmentDies
  BY <1>4, MatchEnvironmentDies
<1>5. CASE CheckPlan
  BY <1>5, MatchCheckPlan
<1>6. CASE PrepareRuntime
  BY <1>6, MatchPrepareRuntime
<1>7. CASE StartDependency
  BY <1>7, MatchStartDependency
<1>8. CASE RunCommand
  BY <1>8, MatchRunCommand
<1>9. CASE StartApplication
  BY <1>9, MatchStartApplication
<1>10. CASE ApplicationExits
  BY <1>10, MatchApplicationExits
<1>11. CASE WaitForHealth
  BY <1>11, MatchWaitForHealth
<1>12. CASE BudgetPasses
  BY <1>12, MatchBudgetPasses
<1>13. CASE NextScenario
  BY <1>13, MatchNextScenario
<1>14. CASE RefuseStep
  BY <1>14, MatchRefuseStep
<1>15. CASE SendStep
  BY <1>15, MatchSendStep
<1>16. CASE LoseStep
  BY <1>16, MatchLoseStep
<1>17. CASE EndScenario
  BY <1>17, MatchEndScenario
<1>18. CASE EndCollection
  BY <1>18, MatchEndCollection
<1>19. CASE Cleanup /\ setup.mode # "registered"
  BY <1>19, MatchCleanup
<1>20. CASE Compare
  BY <1>20, MatchCompare
<1>21. CASE StartRegistered
  BY <1>21, MatchStartRegistered
<1>22. CASE DisableResource
  BY <1>22, MatchDisableResource
<1>23. CASE RecordRegistered
  BY <1>23, MatchRecordRegistered
<1> QED
  BY <1>1, <1>2, <1>3, <1>4, <1>5, <1>6, <1>7, <1>8, <1>9, <1>10, <1>11, <1>12, <1>13, <1>14,
     <1>15, <1>16, <1>17, <1>18, <1>19, <1>20, <1>21, <1>22, <1>23 DEF Next, Environment,
     Collection

\* A comparison is PROVEN only if, for every step of every scenario, both
\* sides answered it, with the same status and bodies of the same fields and
\* the same normalised values, neither cut short; what the evidence redacts
\* (audit/src/index.ts) was there on both sides and no more is claimed of
\* it.  Whatever the collection, its budgets and losses, provided that no
\* two of its scenarios share a name, by which the code pairs them
\* (parity.ts).
THEOREM MatchesAreSame ==
  ASSUME NamesDiffer
  PROVE  Spec => []MatchMeansSameAnswers
<1>1. Init => RunInv /\ MatchInv
  BY RunInit, MatchInit
<1>2. (RunInv /\ MatchInv) /\ [Next]_vars => (RunInv /\ MatchInv)'
  BY RunNext, MatchNext
<1>3. RunInv /\ MatchInv => MatchMeansSameAnswers
  <2> SUFFICES ASSUME RunInv, MatchInv, setup.mode = "comparison", report.verdict = "PROVEN"
               PROVE  \A i \in DOMAIN setup.scenarios : \A j \in DOMAIN setup.scenarios[i].steps :
                        \E x \in Exchanges("reference"), y \in Exchanges("subject") :
                          /\ <<x.scenario, x.step>> = <<i, j>> /\ <<y.scenario, y.step>> = <<i, j>>
                          /\ SameAnswers(x.answer, y.answer)
    BY DEF MatchMeansSameAnswers, AtEveryStep
  <2>1. Matched(setup.scenarios, wire)
    BY DEF MatchInv, ReportMatched, RunInv, SetupOK, NamesDiffer
  <2> SUFFICES ASSUME NEW i \in DOMAIN setup.scenarios, NEW j \in DOMAIN setup.scenarios[i].steps
               PROVE  \E x \in Exchanges("reference"), y \in Exchanges("subject") :
                          /\ <<x.scenario, x.step>> = <<i, j>> /\ <<y.scenario, y.step>> = <<i, j>>
                          /\ SameAnswers(x.answer, y.answer)
    OBVIOUS
  <2>2. PICK x \in ToSet(wire), y \in ToSet(wire) :
          /\ x.side = "reference" /\ y.side = "subject"
          /\ <<x.scenario, x.step>> = <<i, j>> /\ <<y.scenario, y.step>> = <<i, j>>
          /\ SameAnswers(x.answer, y.answer)
    BY <2>1 DEF Matched
  <2>3. x \in Exchanges("reference") /\ y \in Exchanges("subject")
    BY <2>2 DEF Exchanges
  <2> QED
    BY <2>2, <2>3
<1> QED
  BY <1>1, <1>2, <1>3, PTL DEF Spec

(*------------------------------- the verdict ----------------------------*)

\* An operation that is covered was asked for, and answered as expected.
LEMMA CoveredIsAsked ==
  ASSUME NEW st, NEW w, NEW s, NEW outs, OutcomesOK(st.scenarios, w, s, outs), NEW requests,
         requests = FlattenSeq([i \in DOMAIN outs |-> outs[i].steps]),
         NEW operations, AreOperations(operations), NEW i \in DOMAIN operations,
         NEW r \in ToSet(requests), MatchOperation(operations, r) = i, r.status = "PASSED"
  PROVE  Asked(st, w, s, operations[i])
<1>1. PICK sc : sc = st.scenarios
  OBVIOUS
<1>2. OutcomesOK(sc, w, s, outs)
  BY <1>1
<1>3. PICK n \in Nat : n = Len(outs) /\ DOMAIN outs = 1..n
  BY <1>2, SeqFacts DEF OutcomesOK
<1>4. PICK ss : ss = [k \in 1..n |-> outs[k].steps]
  OBVIOUS
<1>5. ss = [k \in 1..n |-> ss[k]] /\ \A k \in 1..n : ss[k] = outs[k].steps
  BY <1>4
<1>6. \A k \in 1..n : OutcomeOK(sc, w, s, k, outs[k]) /\ IsSeq(ss[k])
  BY <1>2, <1>3, <1>5 DEF OutcomesOK, OutcomeOK
<1>7. requests = FlattenSeq(ss)
  BY <1>3, <1>4
<1>8. \A q : q \in ToSet(FlattenSeq(ss)) <=> \E k \in 1..n : q \in ToSet(ss[k])
  BY <1>5, <1>6, FlattenedLists
<1>9. PICK k \in 1..n : r \in ToSet(outs[k].steps)
  BY <1>5, <1>7, <1>8
<1>10. PICK j \in DOMAIN outs[k].steps : r = outs[k].steps[j]
  BY <1>9 DEF ToSet
<1>11. Backed(sc, w, s, k, j, r)
  BY <1>6, <1>10 DEF OutcomeOK
<1>12. PICK x \in ToSet(w) : /\ x.side = s /\ x.scenario = k /\ x.step = j
                             /\ r.answer = Evidence(x.answer) /\ r.httpStatus = x.answer.status
  BY <1>11 DEF Backed
<1>13. Faithful(sc[k].steps[j], r)
  BY <1>11 DEF Backed
<1>14. operations[i].method = r.method /\ TemplateMatchScore(operations[i].path, r.path) >= 0
  BY MatchFits DEF AreOperations
<1>15. PICK step, o : step = sc[k].steps[j] /\ o = operations[i]
  OBVIOUS
<1>16. step = st.scenarios[x.scenario].steps[x.step]
  BY <1>1, <1>12, <1>15
<1>17. /\ step.method = o.method /\ step.expects \in {0, x.answer.status}
       /\ TemplateMatchScore(o.path, Rendered(step.path)) >= 0
  BY <1>12, <1>13, <1>14, <1>15 DEF Faithful
<1>18. Asked(st, w, s, o)
  BY <1>12, <1>16, <1>17 DEF Asked
<1> QED
  BY <1>15, <1>18

\* A collection whose verdict is PROVEN asked for every operation of the inventory.
LEMMA VerdictAnswers ==
  ASSUME RunInv, MatchInv, Verdict.verdict = "PROVEN"
  PROVE  Answered(setup, wire, side)
<1>1. PICK c : c = Coverage
  OBVIOUS
<1>2. PICK n, p, k : n = Len(outcomes) /\ p = Number("PASSED") /\ k = Number("SKIPPED")
  OBVIOUS
<1>3. CollectionVerdict(n, p, k, c).verdict = "PROVEN"
  BY <1>1, <1>2 DEF Verdict
<1>4. c.status # "NO_INVENTORY" /\ c.uncovered = {} /\ c.incomplete = {}
  <2>1. PICK v : v = CollectionVerdict(n, p, k, c)
    OBVIOUS
  <2>2. v.reasons = {}
    BY <1>3, <2>1 DEF CollectionVerdict
  <2> QED
    BY <2>1, <2>2 DEF CollectionVerdict
<1>5. PICK requests : requests = Requests
  OBVIOUS
<1>6. PICK inventory, operations : inventory = setup.inventory /\ operations = inventory.operations
  OBVIOUS
<1>7. c = ComputeApiCoverage(inventory, setup.documentedBy, requests, "EXECUTED")
  BY <1>1, <1>5, <1>6 DEF Coverage
<1>8. inventory.known /\ inventory.incomplete = {}
  BY <1>4, <1>7 DEF ComputeApiCoverage
<1>9. ASSUME NEW i \in DOMAIN operations
      PROVE  \E r \in ToSet(requests) : MatchOperation(operations, r) = i /\ r.status = "PASSED"
  <2> DEFINE Hits == {r \in ToSet(requests) : MatchOperation(operations, r) = i}
             uncovered == DOMAIN operations \ {j \in DOMAIN operations :
               \E r \in {q \in ToSet(requests) : MatchOperation(operations, q) = j} : Exercises(r, "EXECUTED")}
  <2>1. c.uncovered = {OperationKey(operations[j]) : j \in uncovered}
    BY <1>6, <1>7 DEF ComputeApiCoverage
  <2>2. i \notin uncovered
    BY <1>4, <2>1
  <2>3. PICK r \in Hits : Exercises(r, "EXECUTED")
    BY <2>2
  <2> QED
    BY <2>3 DEF Exercises
<1>10. AreOperations(operations)
  BY <1>6, InventoryOfCase DEF RunInv, SetupOK
<1>11. OutcomesOK(setup.scenarios, wire, side, outcomes)
  BY DEF MatchInv
<1>12. ASSUME NEW o \in ToSet(operations) PROVE Asked(setup, wire, side, o)
  <2>1. PICK i \in DOMAIN operations : o = operations[i]
    BY DEF ToSet
  <2>2. PICK r \in ToSet(requests) : MatchOperation(operations, r) = i /\ r.status = "PASSED"
    BY <1>9
  <2>3. requests = FlattenSeq([j \in DOMAIN outcomes |-> outcomes[j].steps])
    BY <1>5 DEF Requests
  <2> QED
    <3>1. Asked(setup, wire, side, operations[i])
      BY <1>10, <1>11, <2>2, <2>3, CoveredIsAsked
    <3> QED
      BY <2>1, <3>1
<1> QED
  BY <1>6, <1>8, <1>12 DEF Answered

(*------------------------------- AnswerInv -------------------------------*)
SameSetup(st, u) ==
    /\ u.mode = st.mode /\ u.verified = st.verified /\ u.projects = st.projects
    /\ u.scenarios = st.scenarios /\ u.inventory = st.inventory
\* A step that ends no collection, compares nothing and reports nothing PROVEN.
Quiet ==
    /\ SameSetup(setup, setup') /\ ToSet(wire) \subseteq ToSet(wire')
    /\ pc' = "cleanup" /\ failure' = NoFailure => pc = "cleanup" /\ failure = NoFailure /\ side' = side
    /\ evidence' = evidence \/ DOMAIN evidence' = {}
    /\ pc' = "record" => pc = "record" \/ DOMAIN evidence' = {}
    /\ report' = report \/ report'.verdict # "PROVEN"

\* What was asked for stays asked for.
LEMMA AnsweredStays ==
  ASSUME NEW st, NEW u, SameSetup(st, u), NEW w, NEW v, ToSet(w) \subseteq ToSet(v), NEW s, Answered(st, w, s)
  PROVE  Answered(u, v, s)
  BY DEF Answered, Asked, SameSetup

\* AnswerInv survives a quiet step.
LEMMA AnswerQuiet ==
  ASSUME AnswerInv, Quiet
  PROVE  AnswerInv'
<1>0. SameSetup(setup, setup') /\ ToSet(wire) \subseteq ToSet(wire')
  BY DEF Quiet
<1>5. \A s : Answered(setup, wire, s) => Answered(setup', wire', s)
  BY <1>0, AnsweredStays
<1>6. setup'.mode = setup.mode /\ setup'.projects = setup.projects
  BY <1>0 DEF SameSetup
<1>1. EndAnswered(setup', wire', pc', side', failure')
  BY <1>5, <1>6 DEF Quiet, AnswerInv, EndAnswered
<1>2. SidesAnswered(setup', wire', evidence')
  BY <1>5 DEF Quiet, AnswerInv, SidesAnswered
<1>3. BothAnswered(setup', wire', pc', evidence')
  BY <1>5, <1>6 DEF Quiet, AnswerInv, BothAnswered
<1>4. ReportAnswered(setup', wire', report')
  BY <1>5, <1>6 DEF Quiet, AnswerInv, ReportAnswered
<1> QED
  BY <1>1, <1>2, <1>3, <1>4 DEF AnswerInv

\* The set-up stays the same when it is not written.
LEMMA SameSetupStays ==
  ASSUME setup' = setup
  PROVE  SameSetup(setup, setup')
  BY DEF SameSetup

\* AnswerInv survives every step of an environment.
LEMMA AnswerEnvironment ==
  ASSUME RunInv, AnswerInv, Environment
  PROVE  AnswerInv'
<1> SUFFICES Quiet
  BY AnswerQuiet
<1>1. CASE CheckPlan
  <2>1. failure = NoFailure
    BY <1>1 DEF CheckPlan, RunInv, FlowOK, Ended
  <2>2. pc' = "cleanup" => failure' # NoFailure
    <3>1. Failure("PLAN_UNRESOLVED", "plan", "none") # NoFailure /\ Failure("NO_SCENARIOS", "collection", "none") # NoFailure
          /\ Failure("PLAN_UNRESOLVED", "env", "none") # NoFailure
      BY FailureIsOne
    <3> QED
      BY <1>1, <2>1, <3>1 DEF CheckPlan, Fail
  <2>3. pc' \in {"cleanup", "network"}
    BY <1>1 DEF CheckPlan, Fail
  <2> QED
    BY <1>1, <2>2, <2>3, SameSetupStays DEF CheckPlan, collectionVars, Quiet
<1>2. CASE PrepareRuntime
  <2>1. failure = NoFailure
    BY <1>2 DEF PrepareRuntime, RunInv, FlowOK, Ended
  <2>2. pc' \in {"cleanup", "dependency"} /\ (pc' = "cleanup" => failure' # NoFailure)
    BY <1>2, <2>1, FailureIsOne DEF PrepareRuntime, Fail
  <2> QED
    BY <1>2, <2>2, SameSetupStays DEF PrepareRuntime, collectionVars, Quiet
<1>3. CASE StartDependency
  <2>1. failure = NoFailure
    BY <1>3 DEF StartDependency, RunInv, FlowOK, Ended
  <2>2. pc' \in {"cleanup", "dependency", "command"} /\ (pc' = "cleanup" => failure' # NoFailure)
    BY <1>3, <2>1, FailureIsOne DEF StartDependency, Fail
  <2> QED
    BY <1>3, <2>2, SameSetupStays DEF StartDependency, collectionVars, Quiet
<1>4. CASE RunCommand
  <2>1. failure = NoFailure
    BY <1>4 DEF RunCommand, RunInv, FlowOK, Ended
  <2>2. pc' \in {"cleanup", "start", "command"} /\ (pc' = "cleanup" => failure' # NoFailure)
    BY <1>4, <2>1, FailureIsOne DEF RunCommand, Fail
  <2> QED
    BY <1>4, <2>2, SameSetupStays DEF RunCommand, collectionVars, Quiet
<1>5. CASE StartApplication
  <2>1. failure = NoFailure
    BY <1>5 DEF StartApplication, RunInv, FlowOK, Ended
  <2>2. pc' \in {"cleanup", "health"} /\ (pc' = "cleanup" => failure' # NoFailure)
    BY <1>5, <2>1, FailureIsOne DEF StartApplication, Fail
  <2> QED
    BY <1>5, <2>2, SameSetupStays DEF StartApplication, collectionVars, Quiet
<1>6. CASE ApplicationExits
  BY <1>6, SameSetupStays DEF ApplicationExits, collectionVars, Quiet
<1>7. CASE WaitForHealth
  <2>1. failure = NoFailure
    BY <1>7 DEF WaitForHealth, RunInv, FlowOK, Ended
  <2>2. pc' \in {"cleanup", "collection"} /\ (pc' = "cleanup" => failure' # NoFailure)
    BY <1>7, <2>1, FailureIsOne DEF WaitForHealth, Fail
  <2> QED
    BY <1>7, <2>2, SameSetupStays DEF WaitForHealth, collectionVars, Quiet
<1>8. CASE EnvironmentDies
  <2>1. DOMAIN evidence' = {}
    BY <1>8 DEF EnvironmentDies
  <2> QED
    BY <1>8, <2>1, SameSetupStays DEF EnvironmentDies, collectionVars, Quiet
<1> QED
  BY <1>1, <1>2, <1>3, <1>4, <1>5, <1>6, <1>7, <1>8 DEF Environment

\* AnswerInv survives every step of a collection but its end.
LEMMA AnswerCollection ==
  ASSUME RunInv, AnswerInv, NextScenario \/ RefuseStep \/ SendStep \/ LoseStep \/ EndScenario \/ BudgetPasses
  PROVE  AnswerInv'
<1> SUFFICES Quiet
  BY AnswerQuiet
<1>1. CASE NextScenario
  <2>1. pc = "collection" /\ pc' \in {"collection", "step"}
    BY <1>1 DEF NextScenario
  <2> QED
    BY <1>1, <2>1, SameSetupStays DEF NextScenario, Quiet
<1>2. CASE RefuseStep
  BY <1>2, SameSetupStays DEF RefuseStep, Quiet
<1>3. CASE SendStep
  <2>1. PICK x : wire' = Append(wire, x)
    BY <1>3 DEF SendStep
  <2>2. ToSet(wire) \subseteq ToSet(wire')
    BY <2>1, AppendFacts DEF RunInv, WireOK
  <2>3. setup' = setup /\ pc' = pc /\ failure' = failure /\ side' = side /\ evidence' = evidence /\ report' = report
    BY <1>3 DEF SendStep
  <2> QED
    BY <2>2, <2>3, SameSetupStays DEF Quiet
<1>4. CASE LoseStep
  BY <1>4, SameSetupStays DEF LoseStep, Quiet
<1>5. CASE EndScenario
  BY <1>5, SameSetupStays DEF EndScenario, Quiet
<1>6. CASE BudgetPasses
  BY <1>6, SameSetupStays DEF BudgetPasses, Quiet
<1> QED
  BY <1>1, <1>2, <1>3, <1>4, <1>5, <1>6

\* AnswerInv survives the end of the collection.
LEMMA AnswerEndCollection ==
  ASSUME RunInv, MatchInv, AnswerInv, EndCollection
  PROVE  AnswerInv'
<1>0. setup' = setup /\ wire' = wire /\ side' = side /\ evidence' = evidence /\ report' = report /\ pc' = "cleanup"
  BY DEF EndCollection, Fail, collectionVars
<1>1. EndAnswered(setup', wire', pc', side', failure')
  <2> SUFFICES ASSUME failure' = NoFailure PROVE Answered(setup, wire, side)
    BY <1>0 DEF EndAnswered
  <2>1. CASE Verdict.verdict # "PROVEN"
    <3>1. failure = NoFailure
      BY DEF RunInv, FlowOK, Ended, EndCollection
    <3>2. PICK class : class = CASE CollectionStatus # "PASSED" -> "SCENARIO_FAILED"
                                 [] CollectionStatus = "PASSED" /\ Coverage.incomplete # {} -> "CONTRACT_GAP"
                                 [] OTHER -> "COVERAGE_INCOMPLETE"
      OBVIOUS
    <3>3. failure' = Failure(class, "collection", "none")
      BY <2>1, <3>1, <3>2 DEF EndCollection, Fail
    <3>4. class # "none"
      BY <3>2
    <3>5. failure' # NoFailure
      BY <3>3, <3>4, FailureIsOne
    <3> QED
      BY <3>5
  <2>2. CASE Verdict.verdict = "PROVEN"
    BY <2>2, VerdictAnswers
  <2> QED
    BY <2>1, <2>2
<1>2. SidesAnswered(setup', wire', evidence')
  BY <1>0 DEF AnswerInv
<1>3. BothAnswered(setup', wire', pc', evidence')
  BY <1>0 DEF BothAnswered
<1>4. ReportAnswered(setup', wire', report')
  BY <1>0 DEF AnswerInv
<1> QED
  BY <1>1, <1>2, <1>3, <1>4 DEF AnswerInv

\* AnswerInv survives the cleanup.
LEMMA AnswerCleanup ==
  ASSUME RunInv, AnswerInv, Cleanup, setup.mode # "registered"
  PROVE  AnswerInv'
<1>0. setup' = setup /\ wire' = wire /\ report' = report /\ pc = "cleanup" /\ pc' # "cleanup"
  BY DEF Cleanup
<1>1. EndAnswered(setup', wire', pc', side', failure')
  BY <1>0 DEF EndAnswered
<1>2. SidesAnswered(setup', wire', evidence')
  <2> DEFINE row == [verdict |-> IF failure = NoFailure THEN "PROVEN" ELSE "NOT_PROVEN", failure |-> failure,
                     reports |-> outcomes]
  <2>1. row.verdict = "PROVEN" => failure = NoFailure
    OBVIOUS
  <2> HIDE DEF row
  <2>2. evidence' = [s \in DOMAIN evidence \cup {side} |-> IF s # side THEN evidence[s] ELSE row]
    BY DEF Cleanup, row
  <2> SUFFICES ASSUME NEW s \in DOMAIN evidence', evidence'[s].verdict = "PROVEN" PROVE Answered(setup, wire, s)
    BY <1>0 DEF SidesAnswered
  <2>3. CASE s = side
    <3>1. failure = NoFailure
      BY <2>1, <2>2, <2>3
    <3> QED
      BY <1>0, <2>3, <3>1 DEF AnswerInv, EndAnswered
  <2>4. CASE s # side
    <3>1. s \in DOMAIN evidence /\ evidence'[s] = evidence[s]
      BY <2>2, <2>4
    <3> QED
      BY <3>1 DEF AnswerInv, SidesAnswered
  <2> QED
    BY <2>3, <2>4
<1>3. BothAnswered(setup', wire', pc', evidence')
  <2>1. setup.mode = "comparison" => pc' # "record"
    BY SetupModes DEF Cleanup, RunInv, FlowOK
  <2> QED
    BY <1>0, <2>1 DEF BothAnswered
<1>4. ReportAnswered(setup', wire', report')
  BY <1>0 DEF AnswerInv
<1> QED
  BY <1>1, <1>2, <1>3, <1>4 DEF AnswerInv

\* AnswerInv survives the comparison.
LEMMA AnswerCompare ==
  ASSUME RunInv, AnswerInv, Compare
  PROVE  AnswerInv'
<1>0. setup' = setup /\ wire' = wire /\ report' = report /\ pc' = "record"
  BY DEF Compare, runVars, collectionVars
<1>5. {"reference", "subject"} \subseteq DOMAIN evidence
  BY DEF Compare, RunInv, EvidenceOK
<1>6. evidence'["subject"].verdict = "PROVEN" =>
        Answered(setup, wire, "subject") /\ Answered(setup, wire, "reference")
  <2> SUFFICES ASSUME evidence'["subject"].verdict = "PROVEN"
               PROVE  Answered(setup, wire, "subject") /\ Answered(setup, wire, "reference")
    OBVIOUS
  <2>1. evidence["subject"].failure = NoFailure /\ evidence["reference"].verdict = "PROVEN"
    BY Compared
  <2>2. evidence["subject"].verdict = "PROVEN"
    BY <1>5, <2>1 DEF RunInv, EvidenceOK
  <2> QED
    BY <1>5, <2>1, <2>2 DEF AnswerInv, SidesAnswered
<1>1. EndAnswered(setup', wire', pc', side', failure')
  BY <1>0 DEF EndAnswered
<1>2. SidesAnswered(setup', wire', evidence')
  <2> SUFFICES ASSUME NEW s \in DOMAIN evidence', evidence'[s].verdict = "PROVEN" PROVE Answered(setup, wire, s)
    BY <1>0 DEF SidesAnswered
  <2>1. CASE s = "subject"
    BY <1>6, <2>1
  <2>2. CASE s # "subject"
    <3>1. s \in DOMAIN evidence /\ evidence'[s] = evidence[s]
      BY <2>2, Compared
    <3> QED
      BY <3>1 DEF AnswerInv, SidesAnswered
  <2> QED
    BY <2>1, <2>2
<1>3. BothAnswered(setup', wire', pc', evidence')
  BY <1>0, <1>6 DEF BothAnswered
<1>4. ReportAnswered(setup', wire', report')
  BY <1>0 DEF AnswerInv
<1> QED
  BY <1>1, <1>2, <1>3, <1>4 DEF AnswerInv

\* AnswerInv survives the recording of evidence.
LEMMA AnswerRecord ==
  ASSUME RunInv, AnswerInv, NEW file, Record(file)
  PROVE  AnswerInv'
<1>0. setup' = setup /\ wire' = wire /\ evidence' = evidence /\ pc = "record" /\ pc' = "done"
  BY DEF Record, runVars, collectionVars
<1>1. EndAnswered(setup', wire', pc', side', failure')
  BY <1>0 DEF EndAnswered
<1>2. SidesAnswered(setup', wire', evidence')
  BY <1>0 DEF AnswerInv
<1>3. BothAnswered(setup', wire', pc', evidence')
  BY <1>0 DEF BothAnswered
<1>4. ReportAnswered(setup', wire', report')
  <2> SUFFICES ASSUME report'.verdict = "PROVEN", NEW s \in DOMAIN setup.projects PROVE Answered(setup, wire, s)
    BY <1>0 DEF ReportAnswered
  <2>1. file = "valid"
    <3>1. file # "valid" => report'.verdict = "NOT_PROVEN"
      BY DEF Record
    <3> QED
      BY <3>1
  <2>2. setup.verified \in DOMAIN evidence /\ evidence[setup.verified].verdict = "PROVEN"
    BY <2>1 DEF Record
  <2>3. Answered(setup, wire, setup.verified)
    BY <2>2 DEF AnswerInv, SidesAnswered
  <2>4. \/ s = setup.verified
        \/ s = "reference" /\ setup.mode = "comparison" /\ setup.verified = "subject"
    BY SetupModes DEF RunInv
  <2>5. CASE s = "reference" /\ setup.mode = "comparison" /\ setup.verified = "subject"
    BY <1>0, <2>2, <2>5 DEF AnswerInv, BothAnswered
  <2> QED
    BY <2>3, <2>4, <2>5
<1> QED
  BY <1>1, <1>2, <1>3, <1>4 DEF AnswerInv

\* AnswerInv survives the report on a registered target.
LEMMA AnswerRecordRegistered ==
  ASSUME RunInv, MatchInv, AnswerInv, RecordRegistered
  PROVE  AnswerInv'
<1>0. setup' = setup /\ wire' = wire /\ evidence' = evidence /\ pc' = "done" /\ report'.verdict = Verdict.verdict
      /\ setup.mode = "registered"
  BY DEF RecordRegistered, runVars, collectionVars
<1>1. EndAnswered(setup', wire', pc', side', failure')
  BY <1>0 DEF EndAnswered
<1>2. SidesAnswered(setup', wire', evidence')
  BY <1>0 DEF AnswerInv
<1>3. BothAnswered(setup', wire', pc', evidence')
  BY <1>0 DEF BothAnswered
<1>4. ReportAnswered(setup', wire', report')
  <2> SUFFICES ASSUME Verdict.verdict = "PROVEN", NEW s \in DOMAIN setup.projects PROVE Answered(setup, wire, s)
    BY <1>0 DEF ReportAnswered
  <2>1. s = side
    BY <1>0, SetupModes DEF RunInv, FlowOK
  <2> QED
    BY <2>1, VerdictAnswers
<1> QED
  BY <1>1, <1>2, <1>3, <1>4 DEF AnswerInv

\* AnswerInv holds of every set-up.
LEMMA AnswerInit ==
  ASSUME Init
  PROVE  AnswerInv
<1>1. pc = "queued" /\ DOMAIN evidence = {} /\ report.verdict = "none"
  BY DEF Init, NoReport
<1> QED
  BY <1>1 DEF AnswerInv, EndAnswered, SidesAnswered, BothAnswered, ReportAnswered

\* No step breaks AnswerInv.
LEMMA AnswerNext ==
  ASSUME RunInv, MatchInv, AnswerInv, [Next]_vars
  PROVE  AnswerInv'
<1>1. CASE UNCHANGED vars
  BY <1>1 DEF vars, AnswerInv
<1>2. CASE Claim
  <2>1. report' = report \/ report'.verdict # "PROVEN"
    <3>1. report' = [NoReport EXCEPT !.verdict = "NOT_PROVEN", !.area = "INFRASTRUCTURE",
                       !.failure = Failure("INFRASTRUCTURE_UNAVAILABLE", "prepare", "none")]
          => report'.verdict = "NOT_PROVEN"
      BY DEF NoReport
    <3> QED
      BY <1>2, <3>1 DEF Claim
  <2>2. pc' \in {"plan", "done"}
    BY <1>2 DEF Claim
  <2>3. Quiet
    BY <1>2, <2>1, <2>2, SameSetupStays DEF Claim, runVars, collectionVars, Quiet
  <2> QED
    BY <2>3, AnswerQuiet
<1>3. CASE Environment
  BY <1>3, AnswerEnvironment
<1>4. CASE Collection
  BY <1>4, AnswerCollection, AnswerEndCollection DEF Collection
<1>5. CASE Cleanup /\ setup.mode # "registered"
  BY <1>5, AnswerCleanup
<1>6. CASE Compare
  BY <1>6, AnswerCompare
<1>7. CASE \E file \in {"none", "refused", "valid"} : Record(file)
  BY <1>7, AnswerRecord
<1>8. CASE StartRegistered
  <2>1. pc' \in {"collection", "done"}
    BY <1>8 DEF StartRegistered
  <2>2. Quiet
    BY <1>8, <2>1, SameSetupStays DEF StartRegistered, runVars, collectionVars, Quiet
  <2> QED
    BY <2>2, AnswerQuiet
<1>9. CASE DisableResource
  <2>1. SameSetup(setup, setup')
    BY <1>9, Disabled DEF RunInv, DisableResource, SameSetup
  <2>2. Quiet
    BY <1>9, <2>1 DEF DisableResource, runVars, collectionVars, Quiet
  <2> QED
    BY <2>2, AnswerQuiet
<1>10. CASE RecordRegistered
  BY <1>10, AnswerRecordRegistered
<1> QED
  BY <1>1, <1>2, <1>3, <1>4, <1>5, <1>6, <1>7, <1>8, <1>9, <1>10 DEF Next

\* What PROVEN claims of the whole API (collection.ts collectionVerdict,
\* contract-discovery.ts): in every application of the run each operation
\* of each contract of the repository, its own or behind a $ref that leads
\* to a file, was asked for and answered as the request expected, each path
\* item that is only a $ref led to one that is more, and no document named
\* like a contract went unread.  What a $ref that leads nowhere hides
\* beside operations of the path item's own is not covered.  Whatever the contracts, the collection, its budgets and losses, provided
\* that what a registered resource's artifact holds can be read.
THEOREM ProvenIsAnswered ==
  ASSUME RegisteredContractsRead
  PROVE  Spec => []ProvenMeansAnswered
<1>1. Init => RunInv /\ MatchInv /\ AnswerInv
  BY RunInit, MatchInit, AnswerInit
<1>2. (RunInv /\ MatchInv /\ AnswerInv) /\ [Next]_vars => (RunInv /\ MatchInv /\ AnswerInv)'
  BY RunNext, MatchNext, AnswerNext
<1>3. RunInv /\ MatchInv /\ AnswerInv => ProvenMeansAnswered
  <2> DEFINE AskedFor(s, item, o) ==
               \E x \in Exchanges(s) : /\ Sent(x).method = o.method /\ AsExpected(x)
                                       /\ TemplateMatchScore(item.path, Rendered(Sent(x).path)) >= 0
  <2> SUFFICES ASSUME RunInv, AnswerInv, report.verdict = "PROVEN", NEW s \in DOMAIN setup.projects,
                      NEW f \in ToSet(Project.documents), ContractCandidate(f)
               PROVE  /\ f.named => f.fate = "ok"
                      /\ f.fate = "ok" /\ f.kind = "OPENAPI" => \A item \in ToSet(f.items) :
                           /\ OnlyRef(item) => \E target \in Behind(item) : ~OnlyRef(target)
                           /\ \A o \in DocumentedBy(item) : o.method \in SupportedMethods => AskedFor(s, item, o)
    BY DEF ProvenMeansAnswered
  <2> HIDE DEF AskedFor
  <2>1. Answered(setup, wire, s)
    BY DEF AnswerInv, ReportAnswered
  <2>2. PICK case \in Cases :
          /\ setup.mode = case.mode /\ setup.verified = case.verified /\ setup.projects = case.projects
          /\ setup.inventory = SetUp(case).inventory
    BY DEF RunInv, SetupOK
  <2>3. PICK files : files = case.projects[case.verified].documents
    OBVIOUS
  <2>4. PICK followed : followed = FilesFollowed(case.mode, files)
    OBVIOUS
  <2>5. WholeApi(files, followed, setup.inventory.operations)
    BY <2>1, <2>2, <2>3, <2>4, InventoryOfCase DEF Answered
  <2>6. f \in ToSet(files) /\ IsDocument(f)
    BY <2>2, <2>3, DocumentsOfCase DEF Project, AreDocuments
  <2>7. f.named => f.fate = "ok"
    BY <2>5, <2>6 DEF WholeApi
  <2>8. ASSUME NEW item PROVE Behind(item) = Followed(followed, item)
    <3>1. CASE setup.mode = "registered"
      <4>1. PICK none : none = <<>>
        OBVIOUS
      <4>2. none \in Seq({}) /\ followed = none
        BY <2>2, <2>4, <3>1, <4>1 DEF FilesFollowed
      <4>3. ToSet(followed) = {}
        BY <4>2, EmptyElements
      <4> QED
        BY <3>1, <4>3 DEF Behind, Followed, Held
    <3>2. CASE setup.mode # "registered"
      <4>1. followed = Project.documents
        BY <2>2, <2>3, <2>4, <3>2 DEF Project, FilesFollowed
      <4> QED
        BY <3>2, <4>1 DEF Behind, Followed
    <3> QED
      BY <3>1, <3>2
  <2>9. ASSUME f.fate = "ok", f.kind = "OPENAPI", NEW item \in ToSet(f.items)
        PROVE  /\ OnlyRef(item) => \E target \in Behind(item) : ~OnlyRef(target)
               /\ \A o \in DocumentedBy(item) : o.method \in SupportedMethods => AskedFor(s, item, o)
    <3>1. Reached(f, followed, setup.inventory.operations)
      BY <2>5, <2>6, <2>9 DEF WholeApi
    <3>2. OnlyRef(item) => \E target \in Behind(item) : ~OnlyRef(target)
      BY <2>8, <2>9, <3>1 DEF Reached
    <3>3. ASSUME NEW o \in DocumentedBy(item) PROVE Listed(item.path, o, setup.inventory.operations)
      <4>1. o \in ToSet(item.operations) \/ \E target \in Behind(item) : o \in ToSet(target.operations)
        BY DEF DocumentedBy
      <4> QED
        BY <2>8, <2>9, <3>1, <4>1 DEF Reached
    <3>4. IsSeq(item.path)
      BY <2>6, <2>9 DEF IsDocument
    <3>5. ASSUME NEW o \in DocumentedBy(item), o.method \in SupportedMethods PROVE AskedFor(s, item, o)
      <4>1. PICK k \in ToSet(setup.inventory.operations) : k.method = o.method /\ k.path = NormalizeApiPath(item.path)
        BY <3>3, <3>5 DEF Listed
      <4>2. Asked(setup, wire, s, k)
        BY <2>1, <4>1 DEF Answered
      <4>3. PICK x \in ToSet(wire) :
              /\ x.side = s /\ Sent(x).method = k.method /\ Sent(x).expects \in {0, x.answer.status}
              /\ TemplateMatchScore(k.path, Rendered(Sent(x).path)) >= 0
        BY <4>2 DEF Asked, Sent
      <4>4. TemplateMatchScore(item.path, Rendered(Sent(x).path)) >= 0
        BY <3>4, <4>1, <4>3, NormalizedScore
      <4> QED
        BY <4>1, <4>3, <4>4 DEF Exchanges, AsExpected, AskedFor
    <3> QED
      BY <3>2, <3>5
  <2> QED
    BY <2>7, <2>9
<1> QED
  BY <1>1, <1>2, <1>3, PTL DEF Spec
=============================================================================
