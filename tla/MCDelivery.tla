----------------------------- MODULE MCDelivery -----------------------------
EXTENDS Delivery, TLC
CONSTANTS ta, tb, tc

Plan(suites, property) == [planned |-> TRUE, suites |-> suites, schema |-> FALSE, property |-> property]
Task(state, plan, supersedes) ==
    [state |-> state, busy |-> FALSE, plan |-> plan, verified |-> IF state = "READY" THEN 1 ELSE 0,
     supersedes |-> supersedes]
Mission(kind, ts, pin) == [kind |-> kind, tasks |-> ts, pin |-> pin, status |-> "ACTIVE"]
NoMission == Mission("DELIVERY", <<>>, "none")
Ask(add, remove, pin, status) == [add |-> add, remove |-> remove, pin |-> pin, status |-> status]

\* Epics of two members while tasks are re-verified and land, judged by one run or by two in a
\* row; of one member, judged by a run and by an operator.
Members2(p, q) == ta :> Task("READY", p, {}) @@ tb :> Task("PLANNED", q, {})
Epic(ts, n, op, rs) == [tasks |-> ts, mission |-> NoMission, moves |-> n, operator |-> op,
                        runs |-> rs, asks |-> {}]
Epics == {Epic(Members2(Plan({}, "required"), Plan({}, "not")), 3, FALSE, {"r1"}),
          Epic(Members2(Plan({}, "not"), Plan({}, "none")), 1, FALSE, {"r1", "r2"}),
          Epic(ta :> Task("READY", Plan({}, "required"), {}), 0, TRUE, {"r1"}),
          Epic(ta :> Task("READY", Plan({}, "none"), {}), 0, TRUE, {"r1"})}

\* Every SUPERSEDES graph of three members with one that is not READY, and every one in which no
\* member supersedes itself with two (which ones does not matter), judged once.
Ids == {ta, tb, tc}
Graph(open, g) == Epic([t \in Ids |-> Task(IF t \in open THEN "PLANNED" ELSE "READY", Plan({}, "not"), g[t])],
                       0, FALSE, {"r1"})
Graphs == {Graph({ta}, g) : g \in [Ids -> SUBSET Ids]}
          \cup {Graph({ta, tb}, g) : g \in {g \in [Ids -> SUBSET Ids] : \A t \in Ids : t \notin g[t]}}

Change == [tasks |-> Members2(NoPlan, NoPlan), mission |-> Mission("DELIVERY", <<ta>>, "none"),
           moves |-> 3, operator |-> FALSE, runs |-> {},
           asks |-> {Ask(<<tb>>, {}, "same", "same"), Ask(<<>>, {ta}, "same", "ACHIEVED"),
                     Ask(<<>>, {}, "same", "ACHIEVED"), Ask(<<>>, {}, "same", "CANCELLED")}]
Parity == [tasks |-> Members2(NoPlan, NoPlan), mission |-> Mission("PARITY", <<ta, tb>>, "v1"),
           moves |-> 2, operator |-> FALSE, runs |-> {},
           asks |-> {Ask(<<>>, {tb}, "v2", "same"), Ask(<<>>, {tb}, "same", "ACHIEVED"),
                     Ask(<<>>, {tb}, "v2", "ACHIEVED")}]
MCScenarios == Epics \cup Graphs \cup {Change, Parity}
=============================================================================
