SPECIFICATION Spec
CONSTANTS
    ta = ta
    tb = tb
    tc = tc
    Tasks = {ta, tb, tc}
    Dimensions = {"SECURITY_PRIVACY", "INVARIANTS"}
    Repositories = {"origin", "mirror"}
    Runs = {"r1", "r2"}
    Updates = {"u1", "u2"}
    Pins = {"none", "v1", "v2"}
    MaxComparisons = 2
    Scenarios <- MCScenarios
INVARIANTS TypeOK PassWasRunAtHead ComparisonWaitsForTask
PROPERTIES SupersededHasStandIn CheckedMembersInHead AchievedAsJudged
CHECK_DEADLOCK FALSE
