------------------------------ MODULE MCHttpE2e -----------------------------
(* Small repositories, applications and runs for HttpE2e. *)
EXTENDS HttpE2e

Value(kind, t, secret) == [kind |-> kind, text |-> t, format |-> "", secret |-> secret]
Text(t) == Value("text", t, "")
Answer(status, body) == [status |-> status, type |-> "json", body |-> body, cut |-> FALSE, slow |-> FALSE]
\* The lifetime of the token and the text of the hint differ with t as well.
Token(t) == Answer(200, ("token" :> Value("token", t, "")) @@ ("tokenTtl" :> Text(t))
                        @@ ("id" :> Value("uuid", t, "")) @@ ("hint" :> Value("text", "send", t)))
Item(n) == Answer(200, "name" :> Text(n))
Denied == Answer(401, <<>>)
Broken == Answer(500, <<>>)

Items == <<<<"items">>, <<"{}">>>>
Login == <<<<"login">>>>
Operation(method, statuses) == [method |-> method, statuses |-> statuses]
PathItem(path, ref, operations) == [path |-> path, ref |-> ref, operations |-> operations]
File(path, kind, items, requests) ==
    [path |-> path, structured |-> TRUE, ignored |-> FALSE, named |-> TRUE, located |-> FALSE, depth |-> 1,
     oversized |-> FALSE, fate |-> "ok", kind |-> kind, items |-> items, requests |-> requests,
     name |-> path, static |-> {"size"}]
Api == <<PathItem(Login, "none", <<Operation("POST", {200, 401})>>),
         PathItem(Items, "none", <<Operation("GET", {200}), Operation("OPTIONS", {204})>>)>>
Writable == PathItem(Items, "none", <<Operation("GET", {200}), Operation("POST", {201})>>)
Contract(items) == File("openapi.json", "OPENAPI", items, <<>>)

Expects(status) == [type |-> "status", status |-> status]
Sets(name) == [type |-> "set", name |-> name, field |-> "token", sensitive |-> TRUE]
Exists(field) == [type |-> "expect", assertion |-> [type |-> "BODY_FIELD_EXISTS", field |-> field]]
Postman(folders, method, path, tests, bearer) ==
    [folders |-> folders, method |-> method, path |-> path, uses |-> {}, header |-> "none",
     auth |-> <<"unset", bearer>>, bodyMode |-> "none", secret |-> FALSE, malformed |-> FALSE, tests |-> tests]
LoginRequest(folders) == Postman(folders, "POST", <<<<"v1">>>> \o Login, <<Expects(200), Sets("token")>>, "none")
ItemRequest(folders) == Postman(folders, "GET", <<<<"v1">>, <<"items">>, <<"{{}}">>>>,
                                <<Expects(200), Exists("name")>>, "token")
Requested(r) == [r EXCEPT !.uses = {"size"}]
Collection_(name, requests) == File(name, "POSTMAN", <<>>, requests)

Maven == ((<<"pom.xml">> :> {"SPRING_BOOT", "POSTGRES"}) @@ (<<"docker-compose.yml">> :> {"POSTGRES"}))
Two == ((<<"api", "package.json">> :> {"start"}) @@ (<<"web", "package.json">> :> {"start", "prisma"}))
Routes(login, items) == (<<"POST", Login>> :> login) @@ (<<"GET", Items>> :> items)
Project_(files, documents, answers) ==
    [files |-> files, manifest |-> NoManifest, root |-> Unset, documents |-> documents, answers |-> answers]

Docs == <<Contract(Api), Collection_("postman.json", <<LoginRequest(<<"auth">>), Requested(ItemRequest(<<"items">>))>>)>>
Leaking == Collection_("postman.json", <<LoginRequest(<<>>), [ItemRequest(<<>>) EXCEPT !.uses = {"token"}]>>)
\* The items' path behind a $ref that leads nowhere, with operations of its own and without; and one that
\* leads to a file with the operations the path item does not have.
HalfHidden == <<Contract(<<Api[1], [Api[2] EXCEPT !.ref = "items.yaml"]>>), Docs[2]>>
WhollyHidden == <<Contract(<<Api[1], PathItem(Items, "items.yaml", <<>>)>>), Docs[2]>>
Split(target) == <<Contract(<<Api[1], PathItem(Items, "items.yaml", <<Operation("OPTIONS", {204})>>)>>), Docs[2],
                   [File("items.yaml", "NONE", <<target>>, <<>>) EXCEPT !.named = FALSE]>>
Thin == <<Contract(Api), Collection_("postman.json", <<LoginRequest(<<>>)>>)>>
Service_ == Project_(Maven, Docs, Routes({Token("a"), Denied}, {Item("x"), Broken}))
Reference == Project_(Maven, Docs, Routes({Token("b")}, {Item("x"), Item("y")}))
Port == Project_(Maven, Docs, Routes({Token("c")}, {Item("x"), Item("z")}))
Monorepo == [Service_ EXCEPT !.files = Two]
Named == [Monorepo EXCEPT !.root = <<"web">>]
Declared(env) == [NoManifest EXCEPT !.present = TRUE, !.root = <<"web">>, !.env = env, !.dependencies = <<"REDIS">>]

Public == [type |-> "HTTP_API", active |-> TRUE, environment |-> "STAGING", owned |-> TRUE, permissions |-> {"READ"},
           url |-> [scheme |-> "https", credentials |-> FALSE, query |-> FALSE,
                    host |-> [octets |-> <<>>, name |-> "api.example.com"]]]
Metadata == [Public EXCEPT !.url.host.octets = <<169, 254, 169, 254>>]
Staging == [mode |-> "AUTONOMOUS_STAGING", environment |-> "STAGING"]

Case(mode, verified, projects, resource) ==
    [mode |-> mode, verified |-> verified, projects |-> projects, prefix |-> <<<<"v1">>>>, handed |-> {},
     target |-> [project |-> Staging, resource |-> resource]]
Alone(project) == Case("environment", "subject", "subject" :> project, Public)
Registered(resource) == Case("registered", "registered", "registered" :> Service_, resource)
Unresolved_(manifest) == Alone([Monorepo EXCEPT !.manifest = manifest])

MCCases ==
    {Alone(Service_), [Alone(Service_) EXCEPT !.handed = {<<>>}], Alone(Monorepo), Alone(Named),
     Alone([Service_ EXCEPT !.documents = HalfHidden]), Alone([Service_ EXCEPT !.documents = WhollyHidden]),
     Alone([Service_ EXCEPT !.documents = Split(Api[2])]), Alone([Service_ EXCEPT !.documents = Split(Writable)]),
     Alone([Service_ EXCEPT !.documents = Thin]),
     Alone([Service_ EXCEPT !.documents = <<Docs[2]>>]), Alone([Service_ EXCEPT !.documents = <<Docs[1]>>]),
     Alone([Service_ EXCEPT !.documents = <<Docs[1], Leaking>>]),
     Alone([Service_ EXCEPT !.documents = <<Contract(<<Api[1], Writable>>), Docs[2]>>]),
     Unresolved_([NoManifest EXCEPT !.present = TRUE, !.valid = FALSE]),
     Unresolved_(Declared("CACHE" :> "REDIS")), Unresolved_(Declared("STORE" :> "MONGO")),
     Registered(Public), Registered(Metadata),
     Case("comparison", "subject", ("subject" :> Port) @@ ("reference" :> Reference), Public)}

\* What MatchesAreSame of HttpE2e_proofs takes of a collection: its scenarios have names of their own.
ASSUME ScenarioNamesDiffer ==
    \A case \in MCCases : LET sc == SetUp(case).scenarios IN
      \A i, k \in DOMAIN sc : sc[i].name = sc[k].name => i = k

\* What ProvenIsAnswered takes of a registered resource: no contract of its artifact is left out.
ASSUME RegisteredAreRead ==
    \A case \in MCCases : case.mode = "registered" =>
      \A f \in ToSet(case.projects[case.verified].documents) : ContractCandidate(f) =>
        /\ f.named => f.fate = "ok"
        /\ f.fate = "ok" /\ f.kind = "OPENAPI" => Readable(f)

\* A folder between two requests of the collection's own: the folder extracts what the second one sends.
Grouped_ == <<Docs[1], Collection_("postman.json",
    <<[ItemRequest(<<>>) EXCEPT !.auth = <<"unset">>], LoginRequest(<<"auth">>), ItemRequest(<<>>)>>)>>
MCGroupedCases == {Alone([Service_ EXCEPT !.documents = Grouped_])}
\* Two collections whose folders have the same name.
Twins == <<Contract(<<Api[1], Api[2]>>), Collection_("a.json", <<LoginRequest(<<"api">>), ItemRequest(<<"api">>)>>),
           Collection_("b.json", <<LoginRequest(<<"api">>), [ItemRequest(<<"api">>) EXCEPT !.path[3] = <<"first">>]>>)>>
MCTwinCases == {Case("comparison", "subject", ("subject" :> [Port EXCEPT !.documents = Twins])
                                           @@ ("reference" :> [Reference EXCEPT !.documents = Twins]), Public)}
\* A registered resource whose artifact holds a second contract, of more operations than can be read.
Large == File("orders.json", "OPENAPI",
               <<PathItem(<<<<"orders">>>>, "none",
                          [i \in 1..5 |-> Operation(<<"GET", "POST", "PUT", "PATCH", "DELETE">>[i], {200})])>>, <<>>)
MCUnreadCases == {[Registered(Public) EXCEPT !.projects["registered"].documents = <<Docs[1], Large, Docs[2]>>]}
=============================================================================
