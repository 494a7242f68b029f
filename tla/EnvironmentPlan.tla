--------------------------- MODULE EnvironmentPlan --------------------------
(***************************************************************************)
(* How a repository's backend is built and started in a throwaway          *)
(* environment (packages/ephemeral-environment/src/plan.ts): the           *)
(* application's root, the recipe of its stack, the dependencies it needs  *)
(* and what a committed manifest overrides.  Whatever cannot be decided is *)
(* a field of the plan's unresolved set.                                   *)
(*                                                                         *)
(* files maps each path, a sequence of names, to the marks its text        *)
(* carries: what the source's patterns look for in it.  A command is       *)
(* named; its arguments are not kept.                                      *)
(***************************************************************************)
EXTENDS Integers, Sequences, SequencesExt, FiniteSets

Kinds == {"POSTGRES", "MYSQL", "REDIS", "MONGO"}
KindOrder == <<"POSTGRES", "MYSQL", "REDIS", "MONGO">>

(*------------------------------ the root ---------------------------------*)
IgnoredNames == {"node_modules", ".git", ".gradle", "build", "dist", "out", "target", "vendor", "examples", "testdata"}
Ignored(path) == ToSet(path) \cap IgnoredNames # {}
JvmMarkers == {"settings.gradle", "build.gradle", "pom.xml"}
PythonMarkers == {"pyproject.toml", "requirements.txt", "manage.py"}
BuildMarkers == JvmMarkers \cup PythonMarkers \cup {"package.json", "go.mod"}

\* Mutant: of several applications, take one.
DetectOneRoot(paths) ==
    LET roots == {Front(p) : p \in {p \in paths : ~Ignored(p) /\ Len(p) <= 3 /\ Last(p) \in BuildMarkers}}
    IN IF roots = {} THEN {} ELSE {CHOOSE r \in roots : \A other \in roots : Len(r) <= Len(other)}
\* The directories an application may live in: the repository's root, or the outermost ones near it.
DetectRoots(paths) ==
    LET roots == {Front(p) : p \in {p \in paths : ~Ignored(p) /\ Len(p) <= 3 /\ Last(p) \in BuildMarkers}}
    IN IF <<>> \in roots THEN {<<>>}
       ELSE {r \in roots : ~\E other \in roots \ {r} : IsPrefix(other, r)}

\* The files below a root, by their path from it.
Local(files, root) ==
    LET Below(p) == SubSeq(p, Len(root) + 1, Len(p))
        local == {Below(p) : p \in {p \in DOMAIN files : IsStrictPrefix(root, p)}}
    IN [l \in {l \in local : ~Ignored(l)} |-> files[root \o l]]
Has(local, name) == <<name>> \in DOMAIN local
Marks(local, names) == UNION {local[l] : l \in {l \in DOMAIN local : Last(l) \in names}}

(*------------------------------- the recipes -----------------------------*)
Recipe(language, image, install, build, prepare, run, port) ==
    [language |-> language, image |-> image, install |-> install, build |-> build, prepare |-> prepare,
     run |-> run, port |-> port]
NoRecipe == Recipe("UNKNOWN", "", <<>>, <<>>, <<>>, "", 8080)

FirstMark(marks, order, default) ==
    LET found == SelectSeq(order, LAMBDA m : m \in marks) IN IF found = <<>> THEN default ELSE Head(found)

\* Gradle or Maven.  Without a framework it knows, only Gradle's application plugin starts anything.
JvmFramework(local) == FirstMark(Marks(local, JvmMarkers), <<"SPRING_BOOT", "KTOR", "QUARKUS", "MICRONAUT">>, "")
JvmRecipe(local) ==
    LET gradle == \E l \in DOMAIN local : Last(l) \in {"build.gradle", "settings.gradle"}
        framework == JvmFramework(local)
        application == "application" \in Marks(local, {"build.gradle"})
        run == CASE framework = "SPRING_BOOT" -> IF gradle THEN "bootRun" ELSE "spring-boot:run"
                 [] framework = "QUARKUS" -> IF gradle THEN "quarkusRun" ELSE "quarkus:run"
                 [] ~gradle /\ framework = "MICRONAUT" -> "mn:run"
                 [] gradle /\ application -> "run"
                 [] OTHER -> ""
    IN Recipe("JVM", "temurin", <<>>, IF gradle THEN <<"assemble">> ELSE <<"package">>, <<>>, run, 8080)

\* npm, pnpm or yarn, a build script if there is one, Prisma's migrations, and a start script or main.
NodeRecipe(local) ==
    LET marks == local[<<"package.json">>]
        run == FirstMark(marks, <<"start", "main">>, "")
    IN Recipe("NODE", "node", <<"install">>, IF "build" \in marks THEN <<"build">> ELSE <<>>,
              IF "prisma" \in marks THEN <<"migrate">> ELSE <<>>, run, 3000)

\* Django by manage.py, FastAPI and Flask by the module that holds the application object.
PythonFramework(local) ==
    IF Has(local, "manage.py") THEN "DJANGO"
    ELSE FirstMark(Marks(local, {"pyproject.toml", "requirements.txt"}), <<"DJANGO", "FASTAPI", "FLASK">>, "")
PythonModules == {<<"main.py">>, <<"app.py">>, <<"app", "main.py">>, <<"src", "main.py">>, <<"wsgi.py">>}
PythonRecipe(local) ==
    LET framework == PythonFramework(local)
        Holds == \E l \in PythonModules \cap DOMAIN local : framework \in local[l]
        run == CASE framework = "DJANGO" -> "runserver"
                 [] framework \in {"FASTAPI", "FLASK"} /\ Holds -> "serve"
                 [] OTHER -> ""
    IN Recipe("PYTHON", "python", <<"pip install">>, <<>>,
              (IF framework = "DJANGO" THEN <<"migrate">> ELSE <<>>)
              \o (IF Has(local, "alembic.ini") THEN <<"upgrade">> ELSE <<>>), run, 8000)

\* A main.go at the root, or the only cmd/<name>/main.go.
GoRecipe(local) ==
    LET commands == {l \in DOMAIN local : Len(l) = 3 /\ l[1] = "cmd" /\ l[3] = "main.go"}
        target == Has(local, "main.go") \/ Cardinality(commands) = 1
    IN Recipe("GO", "golang", <<"mod download">>, IF target THEN <<"go build">> ELSE <<>>, <<>>,
              IF target THEN "app" ELSE "", 8080)

(*------------------------------ dependencies -----------------------------*)
\* The variables that carry a dependency's address; DATABASE_URL belongs to the first SQL one.
DependencyEnv(kind, spring) ==
    LET names == CASE kind = "POSTGRES" -> {"DATABASE_URL", "PGHOST", "DB_HOST"}
                   [] kind = "MYSQL" -> {"DATABASE_URL", "MYSQL_HOST"}
                   [] kind = "REDIS" -> {"REDIS_URL"}
                   [] kind = "MONGO" -> {"MONGODB_URI"}
        ofSpring == CASE kind = "REDIS" -> "SPRING_DATA_REDIS_HOST" [] kind = "MONGO" -> "SPRING_DATA_MONGODB_URI"
                      [] OTHER -> "SPRING_DATASOURCE_URL"
    IN [v \in names \cup (IF spring THEN {ofSpring} ELSE {}) |-> kind]

DependencyFiles == JvmMarkers \cup {"package.json", "requirements.txt", "pyproject.toml", "go.mod", "application.yml"}
\* A client in a build or configuration file, or a service of docker-compose, whose image tag is used.
DetectDependencies(files, local, spring) ==
    LET text == Marks([l \in {l \in DOMAIN local : Len(l) <= 6} |-> local[l]], DependencyFiles)
        compose == UNION {files[p] : p \in {p \in DOMAIN files : Last(p) = "docker-compose.yml" /\ ~Ignored(p)}}
        used == SelectSeq(KindOrder, LAMBDA k : k \in text \cup compose)
    IN [i \in DOMAIN used |-> [kind |-> used[i], image |-> IF used[i] \in compose THEN "compose" ELSE "default",
                               env |-> DependencyEnv(used[i], spring)]]

\* A variable an earlier dependency owns is never overwritten by a later one, and base wins over both.
MergeEnv(dependencies, base) ==
    LET Owner(v) == dependencies[SelectInSeq(dependencies, LAMBDA d : v \in DOMAIN d.env)].env[v]
        names == UNION {DOMAIN d.env : d \in ToSet(dependencies)}
    IN [v \in names \cup DOMAIN base |-> IF v \in DOMAIN base THEN base[v] ELSE Owner(v)]

(*--------------------------------- the plan ------------------------------*)
\* A manifest sets a field ("set") or leaves it; "" and <<>> stand for what it leaves unset.
NoManifest == [present |-> FALSE, valid |-> TRUE, root |-> <<"?">>, image |-> "", run |-> "", env |-> <<>>,
               dependencies |-> <<"?">>]
Unset == <<"?">>
Applied(manifest) == IF manifest.present /\ manifest.valid THEN manifest ELSE NoManifest

\* plan.ts asks for a root in the manifest, then of the caller, then of the files.
ChosenRoots(files, manifest, requested) ==
    IF Applied(manifest).root # Unset THEN {Applied(manifest).root}
    ELSE IF requested # Unset THEN {requested}
    ELSE DetectRoots(DOMAIN files)

PlanEnvironment(files, manifest, requested) ==
    LET m == Applied(manifest)
        roots == ChosenRoots(files, manifest, requested)
        root == IF Cardinality(roots) = 1 THEN CHOOSE r \in roots : TRUE ELSE <<>>
        local == Local(files, root)
        recipe == CASE \E name \in JvmMarkers : Has(local, name) -> JvmRecipe(local)
                    [] Has(local, "package.json") -> NodeRecipe(local)
                    [] \E name \in PythonMarkers : Has(local, name) -> PythonRecipe(local)
                    [] Has(local, "go.mod") -> GoRecipe(local)
                    [] OTHER -> NoRecipe
        spring == recipe.language = "JVM" /\ JvmFramework(local) = "SPRING_BOOT"
        inferred == DetectDependencies(files, local, spring)
        Declared(k) == [kind |-> k, image |-> "default", env |-> DependencyEnv(k, spring)]
        dependencies == IF m.dependencies = Unset THEN inferred
                        ELSE [i \in DOMAIN m.dependencies |->
                                IF \E d \in ToSet(inferred) : d.kind = m.dependencies[i]
                                THEN CHOOSE d \in ToSet(inferred) : d.kind = m.dependencies[i]
                                ELSE Declared(m.dependencies[i])]
        run == IF m.run # "" THEN m.run ELSE recipe.run
        image == IF m.image # "" THEN m.image ELSE recipe.image
    IN [root |-> root, image |-> image, install |-> recipe.install, build |-> recipe.build,
        prepare |-> recipe.prepare, run |-> run, port |-> recipe.port, dependencies |-> dependencies,
        env |-> MergeEnv(dependencies, m.env),
        unresolved |-> (IF manifest.present /\ ~manifest.valid THEN {"manifest"} ELSE {})
                       \cup (IF Cardinality(roots) # 1 THEN {"root"} ELSE {})
                       \cup (IF recipe # NoRecipe /\ run = "" THEN {"run"} ELSE {})
                       \cup (IF recipe = NoRecipe /\ run = "" THEN {"stack"} ELSE {})
                       \cup (IF image = "" THEN {"image"} ELSE {})]

\* Whether the plan may be executed: an unresolved one is reported, never run on a guess.
PlanIsExecutable(plan) == plan.unresolved = {} /\ plan.run # "" /\ plan.image # ""
\* The dependencies the environment names but the plan does not provide.
UnknownReferences(plan) ==
    {plan.env[v] : v \in DOMAIN plan.env} \ ({d.kind : d \in ToSet(plan.dependencies)} \cup {"literal"})
=============================================================================
