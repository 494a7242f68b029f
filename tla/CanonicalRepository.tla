------------------------ MODULE CanonicalRepository ------------------------
(***************************************************************************)
(* Which repository a project is developed in, and the admin mutations     *)
(* that touch it: promote, rollback, rename, export and export             *)
(* verification (packages/canonical-repository), disabling a registration  *)
(* and re-pointing the project, each run inside SuperadminService.mutate.  *)
(* A request is one execution of a mutation; two requests with one         *)
(* operationId are a call and its retry.  Steps are the awaits of the      *)
(* code: registry reads, provider reads, the compare-and-set of the        *)
(* binding rows, row writes, the artifact, the saved operation.            *)
(***************************************************************************)
EXTENDS Integers, Sequences, FiniteSets

CONSTANTS
    Requests,      \* executions of a mutation
    Operations,    \* operationIds
    OperationOf,   \* the operationId a request carries
    Calls,         \* [tool, resource, other]: what an operation may ask for
    Scenarios,     \* what the operationIds in use ask for
    Repositories,  \* registered GITHUB_REPOSITORY resources, one repository each
    Names,         \* owner/name strings
    FirstName,     \* the name each repository is registered under
    Bound,         \* the resource project.repository points at
    Empty,         \* repositories that hold no commit at first
    NoRepository,  \* the absence of a repository
    MaxCommits     \* bound: pushes to default branches

ASSUME ConstantsAssumption ==
    /\ OperationOf \in [Requests -> Operations]
    /\ FirstName \in [Repositories -> Names]
    /\ \A r, s \in Repositories : FirstName[r] = FirstName[s] => r = s
    /\ Bound \in Repositories
    /\ Empty \subseteq Repositories
    /\ NoRepository \notin Repositories
    /\ MaxCommits \in Nat
    /\ \A f \in Scenarios : /\ DOMAIN f \subseteq Operations
                            /\ f \in [DOMAIN f -> Calls]
    /\ \A c \in Calls : /\ c.tool \in {"promote", "rollback", "rename", "export", "verify",
                                     "disable", "repoint", "handover"}
                        /\ c.resource \in Repositories
                        /\ c.tool = "rename" => c.other \in Names
                        /\ c.tool \in {"export", "verify"} => c.other \in Repositories

VARIABLES
    bindings,    \* canonical_development_repositories, in the order inserted; a row's id is its index
    registered,  \* externalReference of each resource
    status,      \* ACTIVE or DISABLED, per resource
    project,     \* project.repository: [resource, name]
    artifacts,   \* reports written: [kind, op, repository]
    saved,       \* admin_operations
    holder,      \* the provider's name table, redirects included
    fullName,    \* the full_name the provider reports
    head,        \* head commit of the default branch, 0 when there is none
    transfers,   \* dispatched export workflows that have not run
    call,        \* what each operationId in use asks for
    req          \* the requests

registry == <<bindings, registered, status, project, artifacts, saved>>
provider == <<holder, fullName, head, transfers>>
vars == <<bindings, registered, status, project, artifacts, saved,
          holder, fullName, head, transfers, call, req>>

Over == {"done", "replayed", "refused", "dead"}
Phases == {"idle", "sent", "open", "read", "judged", "ready", "renamed", "identified",
           "repointed", "written", "confirmed", "reported"} \cup Over
BindingStatus == {"ACTIVE", "SUPERSEDED", "ROLLED_BACK"}

Transfers == {"export", "verify"}

Op(q) == OperationOf[q]
Call(q) == call[Op(q)]
Tool(q) == Call(q).tool

\* What a request has read; row is the index of the ACTIVE binding, 0 when there is none.
NoSight == [row |-> 0, pending |-> FALSE, name |-> "none", status |-> "ACTIVE",
            other |-> "none", otherStatus |-> "ACTIVE", project |-> NoRepository,
            head |-> 0, repository |-> NoRepository, passed |-> TRUE]
Idle == [phase |-> "idle", pinHead |-> 0, pinVersion |-> 0, pinName |-> "none", seen |-> NoSight]

\* At most one row is ACTIVE; 0 when none is.
ActiveRows == {i \in DOMAIN bindings : bindings[i].status = "ACTIVE"}
ActiveRow == IF ActiveRows = {} THEN 0 ELSE CHOOSE i \in ActiveRows : TRUE
VersionAt(row) == IF row = 0 THEN 0 ELSE bindings[row].version
ResourceAt(row) == IF row = 0 THEN NoRepository ELSE bindings[row].resource

\* The binding a rollback of a row restores, 0 when the row is the first.
RestoredBy(row) == IF row = 0 THEN 0 ELSE bindings[row].supersedes

\* The resource a request is about, as its first registry read finds it.
Subject(q) == IF Tool(q) = "rollback" /\ RestoredBy(ActiveRow) # 0
              THEN bindings[RestoredBy(ActiveRow)].resource
              ELSE Call(q).resource

\* An export report whose target repository no verification names, whatever its result.
UnfinishedExport ==
    \E a \in artifacts :
        /\ a.kind = "EXPORT"
        /\ \A v \in artifacts : v.kind = "VERIFICATION" => v.repository # a.repository

Init ==
    /\ bindings = <<>>
    /\ registered = FirstName
    /\ status = [r \in Repositories |-> "ACTIVE"]
    /\ project = [resource |-> Bound, name |-> FirstName[Bound]]
    /\ artifacts = {}
    /\ saved = {}
    /\ holder = [n \in Names |-> IF \E r \in Repositories : FirstName[r] = n
                                 THEN CHOOSE r \in Repositories : FirstName[r] = n
                                 ELSE NoRepository]
    /\ fullName = FirstName
    /\ head = [r \in Repositories |-> IF r \in Empty THEN 0 ELSE 1]
    /\ transfers = {}
    /\ call \in Scenarios
    /\ req = [q \in Requests |-> Idle]

\* A request that is over forgets what it read.
Goto(q, phase) ==
    req' = [req EXCEPT ![q] = IF phase \in Over THEN [Idle EXCEPT !.phase = phase]
                              ELSE [@ EXCEPT !.phase = phase]]
Refuse(q) == Goto(q, "refused") /\ UNCHANGED <<registry, provider, call>>

-----------------------------------------------------------------------------
(***************************************************************************)
(* Every mutation                                                          *)
(***************************************************************************)

\* The caller reads a plan (a dry run, no writes) and pins what it showed.
Pin(q) ==
    /\ req[q].phase = "idle"
    /\ Op(q) \in DOMAIN call
    /\ req' = [req EXCEPT ![q].phase = "sent",
                          ![q].pinHead = head[Call(q).resource],
                          ![q].pinVersion = VersionAt(ActiveRow),
                          ![q].pinName = registered[Call(q).resource]]
    /\ UNCHANGED <<registry, provider, call>>

\* mutate looks the operationId up before it does anything.
Lookup(q) ==
    /\ req[q].phase = "sent"
    /\ Goto(q, IF Op(q) \in saved THEN "replayed" ELSE "open")
    /\ UNCHANGED <<registry, provider, call>>

\* Reads of the control plane: project, binding history, artifacts, resource rows.
ReadRegistry(q) ==
    /\ req[q].phase = "open"
    /\ req' = [req EXCEPT ![q].phase = "read",
                          ![q].seen = [NoSight EXCEPT
                                !.row = ActiveRow,
                                !.pending = UnfinishedExport,
                                !.name = registered[Subject(q)],
                                !.status = status[Subject(q)],
                                !.other = IF Tool(q) \in Transfers
                                          THEN registered[Call(q).other] ELSE "none",
                                !.otherStatus = IF Tool(q) \in Transfers
                                                THEN status[Call(q).other] ELSE "ACTIVE",
                                !.project = project.resource]]
    /\ UNCHANGED <<registry, provider, call>>

\* The provider cannot be read, or a blocker the model carries no data for: the project is not
\* ACTIVE or is PRODUCTION, the registration is no repository or lacks a permission.
RefuseUnreadable(q) ==
    /\ req[q].phase = "read"
    /\ Refuse(q)

\* The process running the request goes away between two awaits.
Die(q) ==
    /\ req[q].phase \in {"ready", "renamed", "identified", "repointed", "written",
                         "confirmed", "reported"}
    /\ Goto(q, "dead")
    /\ UNCHANGED <<registry, provider, call>>

\* The terminal report of a mutation and its domain audit event.
ReportKind == [promote |-> "PROMOTE", rollback |-> "ROLLBACK", rename |-> "RENAME",
               export |-> "EXPORT", verify |-> "VERIFICATION", handover |-> "HANDOVER"]
Report(q) ==
    /\ req[q].phase = "confirmed"
    /\ artifacts' =
         IF Tool(q) \in DOMAIN ReportKind
         THEN artifacts \cup {[kind |-> ReportKind[Tool(q)], op |-> Op(q),
                               repository |-> req[q].seen.other,
                               passed |-> req[q].seen.passed]}
         ELSE artifacts
    /\ Goto(q, "reported")
    /\ UNCHANGED <<bindings, registered, status, project, saved, provider, call>>

\* mutate saves the result under the operationId; from now on the call is a replay.
Save(q) ==
    /\ req[q].phase = "reported"
    /\ saved' = saved \cup {Op(q)}
    /\ Goto(q, "done")
    /\ UNCHANGED <<bindings, registered, status, project, artifacts, provider, call>>

-----------------------------------------------------------------------------
(***************************************************************************)
(* Promotion and rollback                                                  *)
(***************************************************************************)

\* The provider's answers about a name: the repository it resolves to and that one's full name.
Described(name) == holder[name]
IdentityMatches(name) == Described(name) # NoRepository /\ fullName[Described(name)] = name

\* buildCanonicalRepositoryPlan: what blocks promoting the call's resource.
PromotionBlockers(q) ==
    LET seen == req[q].seen
    IN  { code \in {"RESOURCE_INACTIVE", "REPOSITORY_IDENTITY_MISMATCH", "REPOSITORY_EMPTY",
                    "REPOSITORY_TRANSFER_IN_PROGRESS", "ALREADY_CANONICAL"} :
            CASE code = "RESOURCE_INACTIVE" -> seen.status # "ACTIVE"
              [] code = "REPOSITORY_IDENTITY_MISMATCH" -> ~IdentityMatches(seen.name)
              [] code = "REPOSITORY_EMPTY" -> head[Described(seen.name)] = 0
              [] code = "REPOSITORY_TRANSFER_IN_PROGRESS" -> seen.pending
              [] code = "ALREADY_CANONICAL" -> ResourceAt(seen.row) = Call(q).resource }

\* Mutant: only the version of the binding is compared.
PlanIsForThisVersion(q) == VersionAt(req[q].seen.row) = req[q].pinVersion

\* assertPromotionPlanIsCurrent: the pinned head and version against the plan just built.
PlanIsCurrent(q) ==
    /\ head[Described(req[q].seen.name)] = req[q].pinHead
    /\ VersionAt(req[q].seen.row) = req[q].pinVersion

\* Mutant: the repository the provider described is not carried over to the row.
JudgePromotionByName(q) ==
    /\ req[q].phase = "read"
    /\ Tool(q) = "promote"
    /\ IF PromotionBlockers(q) = {} /\ PlanIsCurrent(q)
       THEN req' = [req EXCEPT ![q].phase = "judged",
                               ![q].seen.head = head[Described(req[q].seen.name)]]
       ELSE Goto(q, "refused")
    /\ UNCHANGED <<registry, provider, call>>

JudgePromotion(q) ==
    /\ req[q].phase = "read"
    /\ Tool(q) = "promote"
    /\ IF PromotionBlockers(q) = {} /\ PlanIsCurrent(q)
       THEN req' = [req EXCEPT ![q].phase = "judged",
                               ![q].seen.head = head[Described(req[q].seen.name)],
                               ![q].seen.repository = Described(req[q].seen.name)]
       ELSE Goto(q, "refused")
    /\ UNCHANGED <<registry, provider, call>>

\* requireProjectRepository reads the registration again; the binding is named by this read.
Identify(q) ==
    /\ req[q].phase = "judged"
    /\ IF status[Call(q).resource] = "ACTIVE"
       THEN req' = [req EXCEPT ![q].phase = "ready", ![q].seen.name = registered[Call(q).resource]]
       ELSE Goto(q, "refused")
    /\ UNCHANGED <<registry, provider, call>>

\* A rollback restores the binding the current one superseded, if its repository is still usable.
JudgeRollback(q) ==
    LET seen == req[q].seen
    IN  /\ req[q].phase = "read"
        /\ Tool(q) = "rollback"
        /\ Goto(q, IF /\ seen.row # 0
                      /\ VersionAt(seen.row) = req[q].pinVersion
                      /\ RestoredBy(seen.row) # 0
                      /\ seen.status = "ACTIVE"
                   THEN "ready" ELSE "refused")
        /\ UNCHANGED <<registry, provider, call>>

\* The row a request is about to insert.
NewBinding(q) ==
    LET seen == req[q].seen
        restored == bindings[RestoredBy(seen.row)]
        same == [status |-> "ACTIVE", version |-> VersionAt(seen.row) + 1,
                 supersedes |-> seen.row, op |-> Op(q)]
    IN  IF Tool(q) = "promote"
        THEN [resource |-> Call(q).resource, repository |-> seen.repository, name |-> seen.name,
              sha |-> seen.head, status |-> same.status, version |-> same.version,
              supersedes |-> same.supersedes, op |-> same.op]
        ELSE [restored EXCEPT !.status = same.status, !.version = same.version,
                              !.supersedes = same.supersedes, !.op = same.op]

\* Mutant: the unique index on the operation is gone.
VersionIsNew(q) == \A i \in DOMAIN bindings : bindings[i].version # NewBinding(q).version

\* Mutant: the previous row is left ACTIVE by a rollback.
DisplacedByPromotion(q) == IF Tool(q) = "promote" THEN "SUPERSEDED" ELSE "ACTIVE"

\* promote_canonical_repository: the ACTIVE row, locked, is still the one the request read; the
\* unique indexes refuse a second row of an operation or of a version.
BindingIsCurrent(q) == ActiveRow = req[q].seen.row
BindingIsNew(q) == \A i \in DOMAIN bindings : /\ bindings[i].op # Op(q)
                                              /\ bindings[i].version # NewBinding(q).version
Displaced(q) == IF Tool(q) = "promote" THEN "SUPERSEDED" ELSE "ROLLED_BACK"

\* Mutant: a row that was not written is not noticed.
SwapUnnoticed(q) ==
    /\ req[q].phase = "ready"
    /\ Tool(q) \in {"promote", "rollback"}
    /\ Goto(q, "confirmed")
    /\ IF BindingIsCurrent(q) /\ BindingIsNew(q)
       THEN bindings' = Append([i \in DOMAIN bindings |->
                                     IF i = ActiveRow
                                     THEN [bindings[i] EXCEPT !.status = Displaced(q)]
                                     ELSE bindings[i]],
                                  NewBinding(q))
       ELSE UNCHANGED bindings
    /\ UNCHANGED <<registered, status, project, artifacts, saved, provider, call>>

Swap(q) ==
    /\ req[q].phase = "ready"
    /\ Tool(q) \in {"promote", "rollback"}
    /\ IF BindingIsCurrent(q) /\ BindingIsNew(q)
       THEN /\ bindings' = Append([i \in DOMAIN bindings |->
                                     IF i = ActiveRow
                                     THEN [bindings[i] EXCEPT !.status = Displaced(q)]
                                     ELSE bindings[i]],
                                  NewBinding(q))
            /\ Goto(q, "written")
       ELSE /\ Goto(q, "refused")
            /\ UNCHANGED bindings
    /\ UNCHANGED <<registered, status, project, artifacts, saved, provider, call>>

\* "Promotion succeeded" only ever means that the row was written and read back as ACTIVE.
ReadBack(q) ==
    /\ req[q].phase = "written"
    /\ Tool(q) \in {"promote", "rollback"}
    /\ Goto(q, IF ActiveRow # 0 /\ bindings[ActiveRow].op = Op(q) THEN "confirmed" ELSE "refused")
    /\ UNCHANGED <<registry, provider, call>>

-----------------------------------------------------------------------------
(***************************************************************************)
(* Rename                                                                  *)
(***************************************************************************)

\* Mutant: the registration is rewritten without asking the provider to rename.
JudgeRenameInRegistry(q) ==
    LET seen == req[q].seen
    IN  /\ req[q].phase = "read"
        /\ Tool(q) = "rename"
        /\ Goto(q, IF seen.name = req[q].pinName /\ holder[Call(q).other] = NoRepository
                   THEN "identified" ELSE "refused")
        /\ UNCHANGED <<registry, provider, call>>

\* buildRepositoryRenamePlan, the caller's expectedCurrentReference and expectedHeadSha.
JudgeRename(q) ==
    LET seen == req[q].seen
        newName == Call(q).other
    IN  /\ req[q].phase = "read"
        /\ Tool(q) = "rename"
        /\ IF /\ seen.name = req[q].pinName
              /\ seen.status = "ACTIVE"
              /\ newName # seen.name
              /\ IdentityMatches(seen.name)
              /\ head[Described(seen.name)] # 0
              /\ holder[newName] = NoRepository
              /\ ResourceAt(seen.row) # Call(q).resource
              /\ head[Described(seen.name)] = req[q].pinHead
           THEN req' = [req EXCEPT ![q].phase = "ready",
                                   ![q].seen.head = head[Described(seen.name)],
                                   ![q].seen.repository = Described(seen.name)]
           ELSE Goto(q, "refused")
        /\ UNCHANGED <<registry, provider, call>>

\* The provider renames and keeps answering to the old name; a name in use is refused.
RenameAtProvider(q) ==
    LET repository == Described(req[q].seen.name)
        newName == Call(q).other
    IN  /\ req[q].phase = "ready"
        /\ Tool(q) = "rename"
        /\ IF \A r \in Repositories : fullName[r] = newName => r = repository
           THEN /\ holder' = [holder EXCEPT ![newName] = repository]
                /\ fullName' = [fullName EXCEPT ![repository] = newName]
                /\ Goto(q, "renamed")
           ELSE /\ Goto(q, "refused")
                /\ UNCHANGED <<holder, fullName>>
        /\ UNCHANGED <<registry, head, transfers, call>>

\* assertRenamePreservedIdentity: same repository object, same head, the planned name.
CheckIdentity(q) ==
    LET after == Described(Call(q).other)
    IN  /\ req[q].phase = "renamed"
        /\ Goto(q, IF /\ after = req[q].seen.repository
                      /\ head[after] = req[q].seen.head
                      /\ fullName[after] = Call(q).other
                   THEN "identified" ELSE "refused")
        /\ UNCHANGED <<registry, provider, call>>

\* The whole resource row is written from the copy read at the start.
Reregister(q) ==
    /\ req[q].phase = "identified"
    /\ registered' = [registered EXCEPT ![Call(q).resource] = Call(q).other]
    /\ status' = [status EXCEPT ![Call(q).resource] = req[q].seen.status]
    /\ Goto(q, "repointed")
    /\ UNCHANGED <<bindings, project, artifacts, saved, provider, call>>

\* The project follows when, at the start, it pointed at this resource.
RenameProject(q) ==
    /\ req[q].phase = "repointed"
    /\ project' = IF req[q].seen.project = Call(q).resource
                  THEN [resource |-> Call(q).resource, name |-> Call(q).other]
                  ELSE project
    /\ Goto(q, "confirmed")
    /\ UNCHANGED <<bindings, registered, status, artifacts, saved, provider, call>>

-----------------------------------------------------------------------------
(***************************************************************************)
(* Export                                                                  *)
(***************************************************************************)

\* buildRepositoryExportPlan and the caller's expectedSourceHeadSha.
JudgeExport(q) ==
    LET seen == req[q].seen
    IN  /\ req[q].phase = "read"
        /\ Tool(q) = "export"
        /\ Goto(q, IF /\ Call(q).resource # Call(q).other
                      /\ seen.status = "ACTIVE" /\ seen.otherStatus = "ACTIVE"
                      /\ head[Described(seen.name)] # 0
                      /\ head[Described(seen.other)] = 0
                      /\ head[Described(seen.name)] = req[q].pinHead
                   THEN "ready" ELSE "refused")
        /\ UNCHANGED <<registry, provider, call>>

\* The transfer workflow is dispatched; only then is the report written.
Dispatch(q) ==
    /\ req[q].phase = "ready"
    /\ Tool(q) = "export"
    /\ transfers' = transfers \cup {[op |-> Op(q), from |-> Described(req[q].seen.name),
                                     to |-> Described(req[q].seen.other)]}
    /\ Goto(q, "confirmed")
    /\ UNCHANGED <<registry, holder, fullName, head, call>>

\* autopilot-repository-export.yml: a target with history is refused, any transfer may fail.
Transfer(t) ==
    /\ transfers' = transfers \ {t}
    /\ \/ head[t.to] = 0 /\ head' = [head EXCEPT ![t.to] = head[t.from]]
       \/ UNCHANGED head
    /\ UNCHANGED <<registry, holder, fullName, call, req>>

\* verifyRepositoryExport: both names still identify their repositories, the source has a head
\* and the target's is the same (its branches, tags and history travel with it).
TransferProved(q) ==
    LET seen == req[q].seen
    IN  /\ IdentityMatches(seen.name) /\ IdentityMatches(seen.other)
        /\ head[Described(seen.name)] # 0
        /\ head[Described(seen.other)] = head[Described(seen.name)]

\* exportVerify and handoverReport read the provider and record their verdict whatever it is.
RecordVerdict(q) ==
    /\ req[q].phase = "read"
    /\ Tool(q) \in {"verify", "handover"}
    /\ req' = [req EXCEPT ![q].phase = "confirmed",
                          ![q].seen.passed = IF Tool(q) = "verify" THEN TransferProved(q)
                                             ELSE req[q].seen.row # 0]
    /\ UNCHANGED <<registry, provider, call>>

-----------------------------------------------------------------------------
(***************************************************************************)
(* Registrations and the project row                                       *)
(***************************************************************************)

\* resource_update with status DISABLED: the row read, one field changed, the whole row written.
Disable(q) ==
    /\ req[q].phase = "read"
    /\ Tool(q) = "disable"
    /\ status' = [status EXCEPT ![Call(q).resource] = "DISABLED"]
    /\ registered' = [registered EXCEPT ![Call(q).resource] = req[q].seen.name]
    /\ Goto(q, "confirmed")
    /\ UNCHANGED <<bindings, project, artifacts, saved, provider, call>>

\* project_update of repository: the resource is ACTIVE and registered under the name given.
Repoint(q) ==
    /\ req[q].phase = "read"
    /\ Tool(q) = "repoint"
    /\ IF req[q].seen.status = "ACTIVE" /\ req[q].seen.name = req[q].pinName
       THEN /\ project' = [resource |-> Call(q).resource, name |-> req[q].pinName]
            /\ Goto(q, "confirmed")
       ELSE /\ Goto(q, "refused")
            /\ UNCHANGED project
    /\ UNCHANGED <<bindings, registered, status, artifacts, saved, provider, call>>

\* Somebody pushes to a default branch.
Push(r) ==
    \E c \in 1..MaxCommits :
        /\ \A s \in Repositories : head[s] < c
        /\ \E s \in Repositories : head[s] = c - 1
        /\ head' = [head EXCEPT ![r] = c]
        /\ UNCHANGED <<registry, holder, fullName, transfers, call, req>>

Step(q) ==
    \/ Pin(q) \/ Lookup(q) \/ ReadRegistry(q) \/ RefuseUnreadable(q) \/ Die(q)
    \/ JudgePromotion(q) \/ Identify(q) \/ JudgeRollback(q) \/ Swap(q) \/ ReadBack(q)
    \/ JudgeRename(q) \/ RenameAtProvider(q) \/ CheckIdentity(q) \/ Reregister(q) \/ RenameProject(q)
    \/ JudgeExport(q) \/ Dispatch(q) \/ RecordVerdict(q)
    \/ Disable(q) \/ Repoint(q) \/ Report(q) \/ Save(q)

Next ==
    \/ \E q \in Requests : Step(q)
    \/ \E t \in transfers : Transfer(t)
    \/ \E r \in Repositories : Push(r)

Spec == Init /\ [][Next]_vars

-----------------------------------------------------------------------------
Binding == [resource : Repositories, repository : Repositories, name : Names, sha : Nat,
            status : BindingStatus, version : Nat, supersedes : Nat, op : Operations]

\* Types of the rows and of the requests (packages/schemas, canonicalDevelopmentRepositorySchema).
TypeOK ==
    /\ bindings \in Seq(Binding)
    /\ registered \in [Repositories -> Names]
    /\ status \in [Repositories -> {"ACTIVE", "DISABLED"}]
    /\ project \in [resource : Repositories, name : Names]
    /\ saved \subseteq Operations
    /\ holder \in [Names -> Repositories \cup {NoRepository}]
    /\ fullName \in [Repositories -> Names]
    /\ head \in [Repositories -> Nat]
    /\ call \in Scenarios
    /\ \A q \in Requests : req[q].phase \in Phases

\* The rows of a project form one line, whatever promotions, rollbacks and retries overlap: the
\* newest is the only ACTIVE one, versions count up from 1, every row supersedes the one before
\* it, and no operation has two rows (migration 0006, promote_canonical_repository).
OneLineOfBindings ==
    \A i \in DOMAIN bindings :
        /\ bindings[i].version = i
        /\ bindings[i].supersedes = i - 1
        /\ bindings[i].status = "ACTIVE" <=> i = Len(bindings)
        /\ \A j \in DOMAIN bindings : bindings[i].op = bindings[j].op => i = j

\* A binding is only ever moved over the version its caller pinned, and a promotion only ever to
\* the head its caller pinned ("a moved head is never adopted silently", service.ts promote).
MovesWhatWasPinned ==
    [][Len(bindings') > Len(bindings) =>
         LET row == bindings'[Len(bindings')]
         IN  \E q \in Requests :
                /\ Op(q) = row.op
                /\ req[q].phase = "ready" /\ req'[q].phase = "written"
                /\ row.version = req[q].pinVersion + 1
                /\ Tool(q) = "promote" => row.sha = req[q].pinHead]_bindings

\* An operation that is answered as done, or replayed as done, has taken effect: its row, its
\* report is there, whatever died, lost the race or was retried in between (mutate, promote).
DoneIsDurable ==
    \A q \in Requests :
        req[q].phase \in {"done", "replayed"} =>
            /\ Tool(q) \in {"promote", "rollback"} => \E i \in DOMAIN bindings : bindings[i].op = Op(q)
            /\ Tool(q) \in DOMAIN ReportKind =>
                 \E a \in artifacts : a.kind = ReportKind[Tool(q)] /\ a.op = Op(q)

\* A registration always leads to the repository it was registered for, as long as no two
\* operations want one new name for different repositories: a rename that dies, is overtaken or
\* fails its identity check leaves at worst an old name the provider redirects (rename.ts,
\* assertRenamePreservedIdentity).  Three overlapping renames, two of them to one name, break it.
NamesAreClaimedOnce ==
    \A o, p \in DOMAIN call :
        /\ call[o].tool = "rename" /\ call[p].tool = "rename" /\ call[o].other = call[p].other
        => call[o].resource = call[p].resource
RegistrationKeepsRepository ==
    NamesAreClaimedOnce => \A r \in Repositories : holder[registered[r]] = r

\* While a dispatched transfer has not run, no promotion lands ("an export that was dispatched and
\* never verified.  Canonical state must not move underneath it", service.ts unfinishedExport).
CanonicalWaitsForTransfer == [][transfers # {} => Len(bindings') = Len(bindings)]_bindings

\* The ACTIVE binding records the name its repository answers to ("nothing here stores an
\* owner/name or URL that could drift away from the resource it claims to describe").
ActiveNamesItsResource ==
    ActiveRow # 0 => bindings[ActiveRow].name = fullName[bindings[ActiveRow].repository]

\* The project names the repository of its resource once no mutation is under way
\* (superadmin/src/index.ts projectUpdate: "this field can never drift from the resource").
ProjectNamesItsResource ==
    (\A q \in Requests : req[q].phase \in {"idle", "sent", "done", "replayed", "refused"}) =>
        project.name = registered[project.resource]

-----------------------------------------------------------------------------
\* The line of bindings implements the register its callers are promised.
Register == INSTANCE BindingRegister WITH
    Targets <- Repositories,
    NoTarget <- NoRepository,
    target <- ResourceAt(ActiveRow),
    version <- VersionAt(ActiveRow),
    applied <- {bindings[i].op : i \in DOMAIN bindings}
RegisterSpec == Register!Spec
=============================================================================
