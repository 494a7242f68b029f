------------------------- MODULE EpicVerification -------------------------
(***************************************************************************)
(* How an epic is judged at one commit: which members compose it once the  *)
(* SUPERSEDES relationships are resolved (resolveSupersession), what its   *)
(* plans oblige it to prove (requirementFor), which test outcomes answer a *)
(* dimension (dimensionOutcome, buildPropertyBasedReport), and the verdict *)
(* (buildEpicVerification).  Pure: a set of members ms is a function from  *)
(* task ids to [state, plan, verified, supersedes, contained].             *)
(***************************************************************************)
EXTENDS Integers, Sequences, FiniteSets

AllDimensions == {"CONTRACTS", "CONSUMERS", "INVARIANTS", "INTEGRATION_DEPENDENCIES",
                  "SECURITY_PRIVACY", "MIGRATIONS", "JOURNEYS"}
TestOutcomes == {"PASSED", "FAILED", "SKIPPED"}
SourceTypes == {"TRUSTED_CI", "OPERATOR"}
Containment == {"yes", "no", "unknown"}

\* A plan: the suites it asks for, whether it changes the schema, and what its verification
\* profile says of PROPERTY ("none" when it has no profile).  NoPlan: the member has no plan.
Suites == {"CONTRACT", "MIGRATION", "INTEGRATION"}
Plans == [planned: {TRUE}, suites: SUBSET Suites, schema: BOOLEAN,
          property: {"none", "required", "not"}]
NoPlan == [planned |-> FALSE, suites |-> {}, schema |-> FALSE, property |-> "none"]

(*------------------------------ supersession -----------------------------*)
Superseders(ms, t) == {u \in DOMAIN ms : t \in ms[u].supersedes}

\* The members that compete for t's place: those nobody supersedes, else all of them.
Competing(ms, t) ==
    LET others == Superseders(ms, t) \ {t}
        standing == {u \in others : Superseders(ms, u) = {}}
    IN IF standing # {} THEN standing ELSE others

\* The walk from t along its superseders; it ends within one step per member.
Walk(ms, t) ==
    LET Onward(w) ==
            LET c == Competing(ms, w.at) IN
            IF w.end # "walking" THEN w
            ELSE IF c = {} THEN [w EXCEPT !.end = "terminal"]
            ELSE IF Cardinality(c) > 1 THEN [w EXCEPT !.end = "ambiguous"]
            ELSE IF c \subseteq w.seen THEN [w EXCEPT !.end = "cycle"]
            ELSE [at |-> CHOOSE u \in c : TRUE, seen |-> w.seen \cup c, end |-> "walking"]
        step[n \in 0..Cardinality(DOMAIN ms)] ==
            IF n = 0 THEN [at |-> t, seen |-> {t}, end |-> "walking"] ELSE Onward(step[n - 1])
    IN step[Cardinality(DOMAIN ms)]

\* The member judged in t's place: itself when the walk reaches no terminal.
StandIn(ms, t) == LET w == Walk(ms, t) IN IF w.end = "terminal" THEN w.at ELSE t


\* Mutant: a member composes the epic when nobody supersedes it.
EffectiveUnsuperseded(ms) == {t \in DOMAIN ms : Superseders(ms, t) = {}}
Effective(ms) == {t \in DOMAIN ms : StandIn(ms, t) = t}

Conflicts(ms) == {t \in DOMAIN ms : Walk(ms, t).end \in {"ambiguous", "cycle"}}


(*------------------------------ what is owed -----------------------------*)
PlansOf(ms) == {ms[t].plan : t \in Effective(ms)} \ {NoPlan}
Unassessed(ms) == \E p \in PlansOf(ms) : p.property = "none"
Required(ms, d) ==
    CASE d = "CONTRACTS" -> \E p \in PlansOf(ms) : "CONTRACT" \in p.suites
      [] d = "MIGRATIONS" -> \E p \in PlansOf(ms) : p.schema \/ "MIGRATION" \in p.suites
      [] d = "INVARIANTS" -> \E p \in PlansOf(ms) : p.property = "required"
      [] d = "INTEGRATION_DEPENDENCIES" -> \E p \in PlansOf(ms) : "INTEGRATION" \in p.suites
      [] d = "SECURITY_PRIVACY" -> TRUE
      [] d \in {"CONSUMERS", "JOURNEYS"} -> Cardinality(Effective(ms)) >= 2

(*--------------------------- what a suite proves -------------------------*)
\* seen: the outcomes of the tests whose class answers the dimension.
DimensionPassed(seen) == seen # {} /\ "FAILED" \notin seen /\ "PASSED" \in seen


\* What a generative framework printed: whether it spoke, properties run, counterexamples.
PropertyRuns == [spoke: BOOLEAN, properties: BOOLEAN, counterexample: BOOLEAN]
PropertyStatus(required, suitePassed, p) ==
    CASE ~required -> "NOT_APPLICABLE"
      [] required /\ ~p.spoke -> "UNVERIFIED"
      [] required /\ p.spoke /\ (p.counterexample \/ ~suitePassed) -> "FAIL"
      [] required /\ p.spoke /\ ~p.counterexample /\ suitePassed /\ ~p.properties -> "UNVERIFIED"
      [] OTHER -> "PASS"

InvariantsPassed(required, seen, p) == PropertyStatus(required, "FAILED" \notin seen, p) = "PASS"

(*------------------------------- the verdict -----------------------------*)
\* Mutant: the repository only labels the report.
OfAnyRepository(evidence, repository) == evidence

\* evidence: rows [dimension, commit, passed, repository, source, actor].
OfRepository(evidence, repository) == {e \in evidence : e.repository = repository}

AtHead(evidence, d, head) ==
    {e \in evidence : e.dimension = d /\ e.commit = head /\ e.passed}

DimensionStatus(ms, rows, d, head) ==
    LET passing == AtHead(rows, d, head) IN
    CASE passing # {} -> "PASS"
      [] passing = {} /\ Required(ms, d) -> "BLOCKED"
      [] passing = {} /\ ~Required(ms, d) /\ d = "INVARIANTS" /\ Unassessed(ms) -> "BLOCKED"
      [] OTHER -> "NOT_APPLICABLE"
Trust(sources) ==
    CASE sources = {} -> "NONE"
      [] Cardinality(sources) > 1 -> "MIXED"
      [] sources = {"TRUSTED_CI"} -> "CI_VERIFIED"
      [] OTHER -> "OPERATOR_ASSERTED"

\* The dimensions whose evidence is looked at are a parameter: a run bounds them.
Report(ms, evidence, dimensions, head, repository) ==
    LET rows == OfRepository(evidence, repository)
        status == [d \in dimensions |-> DimensionStatus(ms, rows, d, head)]
        blocked == {d \in dimensions : status[d] = "BLOCKED"}
        counted == UNION {AtHead(rows, d, head) : d \in dimensions}
        blockers == [conflicts |-> Conflicts(ms),
                     notInHead |-> {t \in Effective(ms) : ms[t].contained = "no"},
                     unplanned |-> {t \in Effective(ms) : ~ms[t].plan.planned},
                     unsettled |-> {t \in Effective(ms) : ms[t].state # "READY"},
                     unverified |-> blocked]
    IN [head |-> head, repository |-> repository,
        \* REQUIRED in the report: owed, or answered although nobody owed it.
        required |-> {d \in dimensions : status[d] # "NOT_APPLICABLE"},
        result |-> IF \A f \in DOMAIN blockers : blockers[f] = {} THEN "PASS" ELSE "BLOCKED",
        trust |-> Trust({e.source : e \in counted}),
        effective |-> Effective(ms),
        outstanding |-> blocked]
=============================================================================
