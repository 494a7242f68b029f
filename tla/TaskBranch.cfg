SPECIFICATION Spec
CONSTANTS
    p = p
    q = q
    Paths = {p, q}
    Payloads = {{p}, {p, q}}
    Canonical = TRUE
    MaxJobs = 3
    MaxTrouble = 2
INVARIANTS TypeOK CommitWasPublished DivergedOnlyWhenRewritten TransferKeepsBothSides
PROPERTY RewritesOnlyWhatWasSeen
ACTION_CONSTRAINT OutsideWhereItIsSeen
CHECK_DEADLOCK FALSE
