--------------------------- MODULE HttpCollection ---------------------------
(***************************************************************************)
(* The whole API of a repository: the operations its contracts document    *)
(* (packages/http-runner/src/contract-discovery.ts), the scenarios its     *)
(* Postman collections become, how well a set of requests covers the       *)
(* operations and the verdict a collection run may claim                   *)
(* (packages/http-runner/src/collection.ts).                               *)
(*                                                                         *)
(* A contract is a sequence of path items, an item a path and the          *)
(* operations it documents, perhaps behind a $ref.  Parameter names are    *)
(* dropped from a contract's paths: operationKey does so before it         *)
(* compares two.                                                           *)
(***************************************************************************)
EXTENDS HttpScenario, FiniteSets, Functions, Selection

CONSTANTS MaxReads,              \* discoveryLimits.maxReads
          MaxOperations,         \* collectionLimits.maxOperations
          MaxDepth,              \* collectionLimits.maxDepth
          MaxStepsPerScenario    \* collectionLimits.maxStepsPerScenario

SupportedMethods == {"GET", "POST", "PUT", "PATCH", "DELETE", "HEAD"}
ContractMethods == SupportedMethods \cup {"OPTIONS", "TRACE"}

(*---------------------------------- paths --------------------------------*)
\* One spelling of a path: no empty segments.
NormalizeApiPath(path) == Picked(path, {i \in DOMAIN path : path[i] # <<>>})

\* How well a template's segment fits a request's: 2 literally, 1 in part, 0 as a parameter, -1 not.
SegmentScore(template, actual) ==
    CASE "{}" \notin ToSet(template) -> IF template = actual /\ "{{}}" \notin ToSet(actual) THEN 2 ELSE -1
      [] template = <<"{}">> -> 0
      [] OTHER -> IF /\ Len(template) = Len(actual)
                     /\ \A i \in DOMAIN template : template[i] \in {"{}", actual[i]}
                  THEN 1 ELSE -1
\* The sum of the segments' scores: a segment matched at all counts one, and one more when literally.
SegmentScores(expected, actual) ==
    LET Matched(score) == Cardinality({i \in DOMAIN expected : SegmentScore(expected[i], actual[i]) >= score})
    IN IF Len(expected) # Len(actual) \/ \E i \in DOMAIN expected : SegmentScore(expected[i], actual[i]) < 0 THEN -1
       ELSE Matched(1) + Matched(2)
TemplateMatchScore(template, path) == SegmentScores(NormalizeApiPath(template), NormalizeApiPath(path))

(*------------------------------ the inventory ----------------------------*)
OperationKey(operation) == <<operation.method, operation.path>>
\* Mutant: a path is documented once, whatever the method.
SamePath(a, b) == a.path = b.path
SameOperation(a, b) == OperationKey(a) = OperationKey(b)
FirstOfEach(operations) ==
    Picked(operations, {n \in DOMAIN operations : \A i \in 1..(n - 1) : ~SameOperation(operations[i], operations[n])})

NoInventory == [known |-> FALSE, operations |-> <<>>, excluded |-> {}, incomplete |-> {}]
Inventory(operations, excluded, incomplete) ==
    [known |-> TRUE, operations |-> operations, excluded |-> excluded, incomplete |-> incomplete]

\* What one contract documents.  A path item that is only a $ref is a gap; of one that has operations
\* of its own these are counted, and what its $ref may hide is not missed.
Unresolved(item) == item.ref # "none" /\ item.operations = <<>>
SuccessStatus(statuses) ==
    LET ok == {s \in statuses : s \in 200..299} IN IF ok = {} THEN 0 ELSE CHOOSE s \in ok : \A t \in ok : s <= t
ExtractApiOperations(contract) ==
    LET Supported(s) == Picked(s, {n \in DOMAIN s : s[n].method \in SupportedMethods})
        Of(item) ==
            [j \in DOMAIN item.operations |->
               [method |-> item.operations[j].method, path |-> NormalizeApiPath(item.path),
                success |-> SuccessStatus(item.operations[j].statuses), statuses |-> item.operations[j].statuses]]
        all == FlattenSeq([i \in DOMAIN contract.items |-> Of(contract.items[i])])
    IN Inventory(FirstOfEach(Supported(all)),
                 {OperationKey(o) : o \in {o \in ToSet(all) : o.method \notin SupportedMethods}},
                 {i.path : i \in {i \in ToSet(contract.items) : Unresolved(i)}})
Readable(contract) == Len(ExtractApiOperations(contract).operations) <= MaxOperations

\* The inventory of the contracts an API_CONTRACT artifact holds; those that cannot be read are left out.
InventoryFromContractArtifact(contracts) ==
    LET read == Picked(contracts, {i \in DOMAIN contracts : Readable(contracts[i])})
        each == [i \in DOMAIN read |-> ExtractApiOperations(read[i])]
        merged == Inventory(FirstOfEach(FlattenSeq([i \in DOMAIN each |-> each[i].operations])),
                            UNION {each[i].excluded : i \in DOMAIN each}, UNION {each[i].incomplete : i \in DOMAIN each})
    IN IF merged.operations = <<>> /\ merged.excluded = {} THEN NoInventory ELSE merged

(*------------------------------- discovery -------------------------------*)
\* The files worth opening: those named like a contract first, then those in a directory like one.
ContractCandidate(file) == file.structured /\ ~file.ignored /\ (file.named \/ file.located)
\* The elements of a sequence sorted by a number each has; equals keep their places.
Ordered(s, number) ==
    LET At(n) == Picked(s, {i \in DOMAIN s : number[i] = n})
    IN FlattenSeq([n \in 1..(IF s = <<>> THEN 0 ELSE Max(Range(number))) |-> At(n)])
\* A checkout lists its files by name, and each group is taken from the outermost directory inwards.
ByDepth(files) == Ordered(files, [i \in DOMAIN files |-> files[i].depth])
ContractCandidatePaths(files) ==
    LET Fit(named) == Picked(files, {i \in DOMAIN files : /\ ContractCandidate(files[i]) /\ ~files[i].oversized
                                                          /\ files[i].named = named})
    IN ByDepth(Fit(TRUE)) \o ByDepth(Fit(FALSE))

\* A collection is refused when its folders nest too deeply.
Importable(collection) == \A r \in ToSet(collection.requests) : Len(r.folders) <= MaxDepth

\* The path item a $ref leads to, in a file that the repository holds and that parses; none if nowhere.
Held(files, ref) == {f.items[1] : f \in {f \in ToSet(files) : f.path = ref /\ f.fate = "ok" /\ f.items # <<>>}}
\* A path item over the one it refers to: its own operations are kept, and the target may be a $ref itself.
Added(item, target) ==
    Picked(target.operations, {j \in DOMAIN target.operations :
        \A own \in ToSet(item.operations) : own.method # target.operations[j].method})
Merged(item, target) == [path |-> item.path, ref |-> target.ref, operations |-> item.operations \o Added(item, target)]
ResolvePathItem(files, item) ==
    LET held == Held(files, item.ref) IN
    IF item.ref = "none" \/ held = {} THEN item ELSE Merged(item, CHOOSE target \in held : TRUE)
\* Inlines the path items that live behind a $ref, in the document itself or in another file.
ResolvePathItemRefs(files, contract) ==
    [contract EXCEPT !.items = [i \in DOMAIN contract.items |-> ResolvePathItem(files, contract.items[i])]]

\* The files of a listing that are opened; those that parse; the contracts and the collections among these.
Opened(candidates) == SubSeq(candidates, 1, IF Len(candidates) < MaxReads THEN Len(candidates) ELSE MaxReads)
Parsed(files) == Picked(files, {i \in DOMAIN files : files[i].fate = "ok"})
Resolved(files, parsed) == [i \in DOMAIN parsed |-> ResolvePathItemRefs(files, parsed[i])]
Contracts(files) == Picked(files, {i \in DOMAIN files : files[i].kind = "OPENAPI" /\ Readable(files[i])})
Collections(files) == Picked(files, {i \in DOMAIN files : files[i].kind = "POSTMAN" /\ Importable(files[i])})
Extracted(contracts) == [i \in DOMAIN contracts |-> ExtractApiOperations(contracts[i])]
OperationsOf(each) == FlattenSeq([i \in DOMAIN each |-> each[i].operations])

DiscoverRepositoryApi(listing) ==
    LET files == listing.files
        candidates == ContractCandidatePaths(files)
        read == Opened(candidates)
        parsed == Parsed(read)
        resolved == Resolved(files, parsed)
        contracts == Contracts(resolved)
        each == Extracted(contracts)
        all == OperationsOf(each)
        gaps == (IF listing.truncated THEN {"tree"} ELSE {})
                \cup {f.path : f \in {f \in ToSet(files) : ContractCandidate(f) /\ f.oversized}}
                \cup {f.path : f \in ToSet(candidates) \ ToSet(read)}
                \cup {f.path : f \in {f \in ToSet(read) : f.fate = "unreadable" \/ (f.fate = "unparseable" /\ f.named)}}
                \cup {f.path : f \in {f \in ToSet(resolved) : f.kind = "OPENAPI" /\ ~Readable(f)}}
                \cup {f.path : f \in {f \in ToSet(parsed) : f.kind = "POSTMAN" /\ ~Importable(f)}}
                \cup {contracts[i].path : i \in {i \in DOMAIN each : each[i].incomplete # {}}}
    IN [contracts |-> contracts,
        collections |-> Collections(parsed),
        gaps |-> gaps,
        inventory |-> Inventory(FirstOfEach(all), UNION {each[i].excluded : i \in DOMAIN each}, gaps),
        \* the contracts that document each operation, for the coverage of each contract on its own
        documentedBy |-> [i \in DOMAIN contracts |-> {OperationKey(o) : o \in ToSet(each[i].operations)}]]

(*-------------------------------- coverage -------------------------------*)
\* The documented operation a request exercises: the most specific template, the first of equals; 0 if none.
MatchOperation(operations, request) ==
    LET Score(i) == IF operations[i].method = request.method
                    THEN TemplateMatchScore(operations[i].path, request.path) ELSE -1
        fits == {i \in DOMAIN operations : Score(i) >= 0}
    IN IF fits = {} THEN 0
       ELSE CHOOSE i \in fits : \A j \in fits : Score(j) < Score(i) \/ (Score(j) = Score(i) /\ i <= j)

\* A failing or skipped request is no evidence about the operation it was sent to.
Exercises(request, basis) == basis = "DECLARED" \/ request.status = "PASSED"

ComputeApiCoverage(inventory, documentedBy, requests, basis) ==
    LET operations == inventory.operations
        Hits(i) == {r \in ToSet(requests) : MatchOperation(operations, r) = i}
        covered == {i \in DOMAIN operations : \E r \in Hits(i) : Exercises(r, basis)}
        uncovered == DOMAIN operations \ covered
        keys == {OperationKey(operations[i]) : i \in covered}
    IN [status |-> IF ~inventory.known THEN "NO_INVENTORY"
                   ELSE IF operations # <<>> /\ uncovered = {} /\ inventory.incomplete = {} THEN "COMPLETE"
                   ELSE "INCOMPLETE",
        total |-> Len(operations), covered |-> keys,
        uncovered |-> {OperationKey(operations[i]) : i \in uncovered},
        unexercised |-> {OperationKey(operations[i]) : i \in {i \in uncovered : Hits(i) = {}}},
        undocumented |-> {r \in ToSet(requests) : MatchOperation(operations, r) = 0},
        observed |-> [i \in DOMAIN operations |-> operations[i].statuses \cap {r.httpStatus : r \in Hits(i)}],
        partial |-> {c \in DOMAIN documentedBy : ~documentedBy[c] \subseteq keys},
        incomplete |-> inventory.incomplete]

\* Every reason a collection run falls short of PROVEN.
CollectionVerdict(scenarios, passed, skipped, coverage) ==
    LET reasons == {r \in {"empty", "failed", "skipped", "inventory", "uncovered", "incomplete", "partial"} :
              CASE r = "empty" -> scenarios = 0
                [] r = "failed" -> scenarios - passed - skipped > 0
                [] r = "skipped" -> skipped > 0
                [] r = "inventory" -> coverage.status = "NO_INVENTORY" \/ coverage.total = 0
                [] r = "uncovered" -> coverage.uncovered # {}
                [] r = "incomplete" -> coverage.incomplete # {}
                [] r = "partial" -> coverage.partial # {}}
    IN [verdict |-> IF reasons = {} THEN "PROVEN" ELSE "NOT_PROVEN", reasons |-> reasons]

(*---------------------------- Postman collections ------------------------*)
\* The folder a request is grouped under: its top-level folder, or the collection itself.
Group(collection, request) == IF request.folders = <<>> THEN collection.name ELSE Head(request.folders)

\* A request inherits the nearest auth that is set; only a bearer held by a variable is kept.
BearerVariable(request) ==
    LET set == SelectSeq(request.auth, LAMBDA a : a # "unset")
        nearest == IF set = <<>> THEN "none" ELSE Last(set)
    IN IF request.header # "none" THEN request.header
       ELSE IF nearest \in {"none", "inline", "basic"} THEN "none" ELSE nearest

\* Why a request is not imported; "none" when it is.
Skip(request) ==
    CASE request.method \notin SupportedMethods -> "method"
      [] request.bodyMode \notin {"none", "raw"} -> "body"
      [] request.secret -> "secret"
      [] request.malformed -> "invalid"
      [] OTHER -> "none"

\* The path below the prefix the registered base already carries.
RequestPath(request, prefix) ==
    IF IsPrefix(prefix, request.path) THEN SubSeq(request.path, Len(prefix) + 1, Len(request.path)) ELSE request.path

\* What a request's test script asks for: the last status it expects, the variables it sets from the
\* answer and its other expectations.  A line that is none of these is left out, with a warning.
TranslatePostmanTests(tests) ==
    LET Of(type) == SelectSeq(tests, LAMBDA t : t.type = type)
        statuses == Of("status")
        sets == Of("set")
    IN [expects |-> IF statuses = <<>> THEN 0 ELSE Last(statuses).status,
        extract |-> [i \in DOMAIN sets |-> [name |-> sets[i].name, field |-> sets[i].field, sensitive |-> sets[i].sensitive]],
        asserts |-> {t.assertion : t \in ToSet(Of("expect"))}]
ImportRequest(collection, request, prefix) ==
    TranslatePostmanTests(request.tests) @@
    [method |-> request.method, path |-> RequestPath(request, prefix), uses |-> request.uses \ collection.static,
     bearer |-> BearerVariable(request), refused |-> FALSE, secret |-> FALSE]

\* The variables a step needs and no earlier request, in the collection's order, extracts.
Needs(step) == step.uses \cup ({step.bearer} \ {"none"})
Extracts(step) == {step.extract[i].name : i \in DOMAIN step.extract}
MissingVariables(steps) ==
    {i \in DOMAIN steps : ~Needs(steps[i]) \subseteq UNION {Extracts(steps[j]) : j \in 1..(i - 1)}}

\* Each group becomes one scenario, in the order its first request appears, split into parts.
InParts(name, steps) ==
    LET n == (Len(steps) + MaxStepsPerScenario - 1) \div MaxStepsPerScenario
        To(k) == IF k * MaxStepsPerScenario < Len(steps) THEN k * MaxStepsPerScenario ELSE Len(steps)
    IN [k \in 1..n |-> [name |-> <<name, k, n>>, steps |-> SubSeq(steps, (k - 1) * MaxStepsPerScenario + 1, To(k))]]
\* The requests that can be imported; those of a group; the values of a list, where each appears first.
Translated(requests) == Picked(requests, {i \in DOMAIN requests : Skip(requests[i]) = "none"})
InGroup(collection, flat, group) == Picked(flat, {i \in DOMAIN flat : Group(collection, flat[i]) = group})
Firsts(s) == Picked(s, {n \in DOMAIN s : \A i \in 1..(n - 1) : s[i] # s[n]})
ImportPostmanCollection(collection, prefix) ==
    LET flat == Translated(collection.requests)
        Grouped(group) == InGroup(collection, flat, group)
        groups == Firsts([i \in DOMAIN flat |-> Group(collection, flat[i])])
        Steps(requests) == [i \in DOMAIN requests |-> ImportRequest(collection, requests[i], prefix)]
    IN [scenarios |-> FlattenSeq([g \in DOMAIN groups |-> InParts(groups[g], Steps(Grouped(groups[g])))]),
        skipped |-> {r \in ToSet(collection.requests) : Skip(r) # "none"},
        warnings |-> MissingVariables(Steps(flat))]

\* The scenarios saved for a resource, in the order they were created and, within one import, numbered.
CollectionScenarios(artifacts) ==
    LET Numbered(kept) == Ordered(kept, [i \in DOMAIN kept |-> kept[i].index])
        Dated(numbered) == Ordered(numbered, [i \in DOMAIN numbered |-> numbered[i].createdAt])
    IN Dated(Numbered(Picked(artifacts, {i \in DOMAIN artifacts : ~artifacts[i].deleted})))
=============================================================================
