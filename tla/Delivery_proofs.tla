-------------------------- MODULE Delivery_proofs --------------------------
(***************************************************************************)
(* Theorems about the epics and missions of Delivery, for every project,   *)
(* history, number of runs and of requests.  What is inductive is Inv:     *)
(*                                                                         *)
(*   Repository    tasks are verified at commits that exist; no task has a *)
(*                 job in flight and is READY                              *)
(*   EpicSound     every run is at a commit and a repository; of each      *)
(*                 member's commit it asked about it knows that it is in   *)
(*                 its head, that it is not, or that the clone lacks it;   *)
(*                 what CI recorded as passed did pass (Backed)            *)
(*   PassWasRunAtHead  of the reports, which stay when evidence comes      *)
(*   MissionSound  a request that was judged has a row that is complete by *)
(*                 the evidence it read, and the comparison it found is    *)
(*                 still there: comparisons that are PROVEN never change   *)
(*                                                                         *)
(* The walk along SUPERSEDES relationships is a recursive function; what   *)
(* it does is proved by induction on its steps (Climb, Iterates).          *)
(***************************************************************************)
EXTENDS Delivery, Iteration, FiniteSetTheorems, TLAPS

Partial(D, S) == UNION {[E -> S] : E \in SUBSET D}
RunRow == [pc: RunPhases, head: Nat, repository: Repositories \cup {"none"}, required: SUBSET Dimensions,
           todo: SUBSET Dimensions, at: Partial(Tasks, Nat), contained: Partial(Tasks, Containment),
           read: Partial(Tasks, TaskRow)]
Place == [registered: BOOLEAN, active: BOOLEAN, write: BOOLEAN]
Places == [target: Place, reference: Place]
Comparison == [commit: Nat, pin: Pins, status: {"QUEUED", "COMPLETED", "FAILED"},
               verdict: {"PROVEN", "NOT_PROVEN", "none"}, reference: BOOLEAN]
UpdateFields == {"pc", "row", "tasks", "place", "parity", "head"}
TaskView == [state: TaskStates, busy: BOOLEAN]

\* The tasks are those of the scenario, verified at commits of the repository.
TasksOK(ts, n) ==
    /\ ts \in [DOMAIN ts -> TaskRow] /\ DOMAIN ts \subseteq Tasks
    /\ \A t \in DOMAIN ts : ts[t].verified \in 0..n /\ (ts[t].busy => ts[t].state # "READY")
Repository ==
    /\ TasksOK(tasks, Len(history))
    /\ history \in Seq(SUBSET Nat) /\ main \in DOMAIN history /\ squashed \subseteq DOMAIN history

\* What a run knows of the members' commits once it asked git: of those it has no answer for,
\* the clone did not have the commit.
Asked(x, h, sq) ==
    /\ DOMAIN x.contained \subseteq DOMAIN x.at
    /\ \A t \in DOMAIN x.at : IF t \in DOMAIN x.contained
                              THEN x.contained[t] = "no" \/ x.at[t] \in h[x.head]
                              ELSE x.at[t] \in sq
ReadOf(x, ts) == /\ DOMAIN x.read = DOMAIN ts
                 /\ \A t \in DOMAIN ts : x.read[t].supersedes = ts[t].supersedes
RunOK(x, ts, h, sq) ==
    /\ x \in RunRow
    /\ x.todo \subseteq x.required
    /\ x.head \in 0..Len(h)
    /\ x.pc \notin {"idle", "over"} => x.head \in DOMAIN h /\ x.repository \in Repositories
    /\ x.pc \in {"tested", "read"} => Asked(x, h, sq)
    /\ x.pc = "read" => ReadOf(x, ts)
\* Evidence CI recorded as passed is of a suite that really succeeded.
Backed(ev, done) ==
    \A e \in ev : (e.passed /\ e.source = "TRUSTED_CI") => <<e.dimension, e.commit, e.repository>> \in done
EpicSound ==
    /\ DOMAIN run = Runs /\ \A r \in Runs : RunOK(run[r], tasks, history, squashed)
    /\ evidence \subseteq EvidenceRow /\ reports \subseteq ReportRow
    /\ Backed(evidence, proven)

\* A comparison that is PROVEN has ended; the one a request found is still there as it was.
Compared(cs) ==
    /\ cs \in Seq(Comparison)
    /\ \A j \in DOMAIN cs : cs[j].verdict = "PROVEN" => cs[j].status # "QUEUED"
Found(parity, pin, cs) ==
    parity.verdict = "PROVEN" => \E j \in DOMAIN cs :
        /\ cs[j].verdict = "PROVEN" /\ cs[j].commit = parity.commit
        /\ pin \in {"none", cs[j].pin}

MissionOK(m, ts) == m \in MissionRows(ts) /\ MissionRow(m)
Seen(x, head) == [target |-> x.place.target, reference |-> x.place.reference, tasks |-> x.tasks,
                  missing |-> FALSE, parity |-> x.parity, head |-> head]
Listed(x) == DOMAIN x.tasks = DOMAIN x.row.tasks /\ x.tasks \in Seq(TaskView)
UpdateOK(x, ts, cs) ==
    /\ DOMAIN x = UpdateFields /\ x.pc \in UpdatePhases
    /\ x.pc \in {"idle", "over", "loaded"} => x.tasks = <<>>
    /\ x.pc \notin {"idle", "over"} => MissionOK(x.row, ts)
    /\ x.pc \in {"listed", "compared"} => Listed(x)
    /\ x.pc = "compared" => Found(x.parity, x.row.pin, cs)
    /\ (x.pc = "judged" /\ x.tasks # <<>>) =>
          Listed(x) /\ Found(x.parity, x.row.pin, cs) /\ Complete(x.row, Seen(x, x.head))
MissionSound ==
    /\ MissionOK(mission, DOMAIN tasks) /\ Compared(comparisons) /\ place \in Places
    /\ \A ask \in asks : Request(ask, DOMAIN tasks)
    /\ DOMAIN update = Updates /\ \A u \in Updates : UpdateOK(update[u], DOMAIN tasks, comparisons)

Inv == Repository /\ EpicSound /\ PassWasRunAtHead /\ MissionSound
-----------------------------------------------------------------------------
\* What is picked of a sequence is of its elements; each once, when the
\* places tell them apart.
LEMMA PickedIs ==
  ASSUME NEW E, NEW s \in Seq(E), NEW places
  PROVE  /\ Picked(s, places) \in Seq(E)
         /\ (\A i, j \in places \cap (1..Len(s)) : s[i] = s[j] => i = j) => Distinct(Picked(s, places))
<1>1. PICK p : /\ Picked(s, places) = p[Len(s)] /\ p[0] = <<>>
               /\ \A n \in 1..Len(s) : p[n] = IF n \in places THEN Append(p[n - 1], s[n]) ELSE p[n - 1]
  BY PickedSteps
<1>2. PICK N : N = Len(s) /\ N \in Nat /\ \A n \in 1..N : s[n] \in E
  OBVIOUS
<1> DEFINE From(n) == \A i \in 1..Len(p[n]) : \E k \in places \cap (1..n) : p[n][i] = s[k]
           S == {n \in 0..N : p[n] \in Seq(E) /\ From(n)}
           D == {n \in 0..N : Distinct(p[n])}
<1>3. 0..N \subseteq S
  <2>1. 0 \in S
    <3>1. p[0] = <<>> /\ Len(p[0]) = 0 /\ p[0] \in Seq(E)
      BY <1>1
    <3>2. From(0)
      BY <3>1
    <3>3. p[0] \in Seq(E) /\ 0 \in 0..N
      BY <1>2, <3>1
    <3> HIDE DEF From
    <3> QED
      BY <3>2, <3>3
  <2>2. ASSUME NEW n \in 1..N, n - 1 \in S PROVE n \in S
    <3>1. p[n - 1] \in Seq(E) /\ From(n - 1) /\ n \in 0..N /\ 1..(n - 1) \subseteq 1..n
      BY <1>2, <2>2
    <3>2. CASE n \in places
      <4>1. p[n] = Append(p[n - 1], s[n]) /\ s[n] \in E
        BY <1>1, <1>2, <3>2
      <4>2. p[n] \in Seq(E) /\ Len(p[n]) = Len(p[n - 1]) + 1 /\ p[n][Len(p[n])] = s[n]
            /\ \A i \in 1..Len(p[n - 1]) : p[n][i] = p[n - 1][i]
        BY <3>1, <4>1
      <4>3. n \in places \cap (1..n)
        BY <3>2
      <4>4. From(n)
        <5> SUFFICES ASSUME NEW i \in 1..Len(p[n]) PROVE \E k \in places \cap (1..n) : p[n][i] = s[k]
          OBVIOUS
        <5>1. CASE i = Len(p[n])
          BY <4>2, <4>3, <5>1
        <5>2. CASE i # Len(p[n])
          <6>1. Len(p[n - 1]) \in Nat
            BY <3>1
          <6>2. i \in 1..Len(p[n - 1])
            BY <4>2, <5>2, <6>1
          <6>3. PICK k \in places \cap (1..(n - 1)) : p[n - 1][i] = s[k]
            BY <3>1, <6>2
          <6> QED
            BY <3>1, <4>2, <6>2, <6>3
        <5> QED
          BY <5>1, <5>2
      <4> QED
        BY <3>1, <4>2, <4>4
    <3>3. CASE n \notin places
      <4>1. p[n] = p[n - 1]
        BY <1>1, <1>2, <3>3
      <4> QED
        BY <3>1, <4>1
    <3> QED
      BY <3>2, <3>3
  <2> HIDE DEF S
  <2> QED
    BY <1>2, <2>1, <2>2, Climb
<1>4. Picked(s, places) \in Seq(E)
  BY <1>1, <1>2, <1>3
<1>5. ASSUME \A i, j \in places \cap (1..Len(s)) : s[i] = s[j] => i = j
      PROVE  0..N \subseteq D
  <2>1. 0 \in D
    BY <1>1, <1>2 DEF Distinct
  <2>2. ASSUME NEW n \in 1..N, n - 1 \in D PROVE n \in D
    <3>1. n - 1 \in 0..N /\ n \in 0..N
      BY <1>2
    <3>2. p[n - 1] \in Seq(E) /\ From(n - 1) /\ Distinct(p[n - 1])
      BY <1>3, <2>2, <3>1
    <3>3. CASE n \in places
      <4>1. p[n] = Append(p[n - 1], s[n])
        BY <1>1, <1>2, <3>3
      <4>2. PICK q : q = p[n - 1] /\ q \in Seq(E) /\ Distinct(q)
        BY <3>2
      <4>3. \A i \in 1..Len(q) : q[i] # s[n]
        <5> SUFFICES ASSUME NEW i \in 1..Len(q), q[i] = s[n] PROVE FALSE
          OBVIOUS
        <5>1. PICK k \in places \cap (1..(n - 1)) : q[i] = s[k]
          BY <3>2, <4>2
        <5>2. k \in places \cap (1..Len(s)) /\ n \in places \cap (1..Len(s)) /\ k # n
          BY <1>2, <3>3
        <5> QED
          BY <1>5, <5>1, <5>2
      <4>4. Distinct(Append(q, s[n]))
        <5>1. /\ DOMAIN q = 1..Len(q) /\ Len(q) \in Nat
              /\ DOMAIN Append(q, s[n]) = 1..(Len(q) + 1)
              /\ \A i \in 1..Len(q) : Append(q, s[n])[i] = q[i]
              /\ Append(q, s[n])[Len(q) + 1] = s[n]
          BY <4>2
        <5>2. PICK a : a = Append(q, s[n])
          OBVIOUS
        <5>3. PICK k \in Nat : k = Len(q)
          BY <5>1
        <5>4. ASSUME NEW i \in 1..(k + 1), NEW j \in 1..(k + 1), a[i] = a[j] PROVE i = j
          <6>1. CASE i \in 1..k /\ j \in 1..k
            <7>1. q[i] = q[j] /\ i \in DOMAIN q /\ j \in DOMAIN q
              BY <5>1, <5>2, <5>3, <5>4, <6>1
            <7> QED
              BY <4>2, <7>1 DEF Distinct
          <6>2. CASE i \in 1..k /\ j = k + 1
            BY <4>3, <5>1, <5>2, <5>3, <5>4, <6>2
          <6>3. CASE i = k + 1 /\ j \in 1..k
            BY <4>3, <5>1, <5>2, <5>3, <5>4, <6>3
          <6>4. CASE i = k + 1 /\ j = k + 1
            BY <6>4
          <6>5. (i \in 1..k \/ i = k + 1) /\ (j \in 1..k \/ j = k + 1)
            OBVIOUS
          <6> QED
            BY <6>1, <6>2, <6>3, <6>4, <6>5
        <5>5. DOMAIN a = 1..(k + 1)
          BY <5>1, <5>2, <5>3
        <5> QED
          BY <5>2, <5>4, <5>5 DEF Distinct
      <4> QED
        BY <3>1, <4>1, <4>2, <4>4
    <3>4. CASE n \notin places
      <4>1. p[n] = p[n - 1]
        BY <1>1, <1>2, <3>4
      <4> QED
        BY <3>1, <3>2, <4>1
    <3> QED
      BY <3>3, <3>4
  <2> HIDE DEF D
  <2> QED
    BY <1>2, <2>1, <2>2, Climb
<1> QED
  BY <1>1, <1>2, <1>4, <1>5

\* [...new Set(list)] has each element once.
LEMMA UniqueIs ==
  ASSUME NEW E, NEW s \in Seq(E)
  PROVE  Unique(s) \in Seq(E) /\ Distinct(Unique(s))
<1> DEFINE places == {n \in DOMAIN s : \A i \in 1..(n - 1) : s[i] # s[n]}
<1>1. ASSUME NEW i \in places \cap (1..Len(s)), NEW j \in places \cap (1..Len(s)), s[i] = s[j]
      PROVE  i = j
  <2>1. i \in Nat /\ j \in Nat /\ i >= 1 /\ j >= 1
    OBVIOUS
  <2>2. ~(i < j)
    BY <1>1, <2>1
  <2>3. ~(j < i)
    BY <1>1, <2>1
  <2> QED
    BY <2>1, <2>2, <2>3
<1> HIDE DEF places
<1> QED
  BY <1>1, PickedIs DEF Unique, places

\* What is left of a sequence of elements is one.
LEMMA WithoutIs ==
  ASSUME NEW E, NEW s \in Seq(E), NEW gone
  PROVE  Without(s, gone) \in Seq(E)
  BY PickedIs DEF Without
-----------------------------------------------------------------------------
Views(e) == e.missing = FALSE /\ e.tasks \in Seq(TaskView)

\* The three steps of a PARITY mission.
LEMMA ParitySteps ==
  ASSUME NEW m, NEW e, m.kind = "PARITY"
  PROVE  /\ DOMAIN Steps(m, e) = 1..3
         /\ Steps(m, e)[1] = [id |-> "REPOSITORIES", status |-> RepositoriesStep(m, e)]
         /\ Steps(m, e)[2] = [id |-> "TASKS", status |-> TasksStep(e)]
         /\ Steps(m, e)[3] = [id |-> "PARITY", status |-> ParityStep(e)]
<1>1. PICK a : a = [id |-> "REPOSITORIES", status |-> RepositoriesStep(m, e)]
  OBVIOUS
<1>2. PICK b : b = [id |-> "TASKS", status |-> TasksStep(e)]
  OBVIOUS
<1>3. PICK c : c = [id |-> "PARITY", status |-> ParityStep(e)]
  OBVIOUS
<1>4. Steps(m, e) = <<a, b>> \o <<c>>
  BY <1>1, <1>2, <1>3 DEF Steps
<1>5. PICK p, q : p = <<a, b>> /\ q = <<c>>
  OBVIOUS
<1>6. p \in Seq({a, b, c}) /\ q \in Seq({a, b, c}) /\ Len(p) = 2 /\ Len(q) = 1
      /\ p[1] = a /\ p[2] = b /\ q[1] = c
  BY <1>5
<1>9. PICK U : U = {a, b, c}
  OBVIOUS
<1>10. p \in Seq(U) /\ q \in Seq(U)
  BY <1>6, <1>9
<1>11. /\ Len(p \o q) = Len(p) + Len(q) /\ DOMAIN (p \o q) = 1..Len(p \o q)
       /\ \A i \in 1..(Len(p) + Len(q)) : (p \o q)[i] = IF i <= Len(p) THEN p[i] ELSE q[i - Len(p)]
  BY <1>10
<1>7. DOMAIN (p \o q) = 1..3 /\ (p \o q)[1] = a /\ (p \o q)[2] = b /\ (p \o q)[3] = c
  BY <1>6, <1>11
<1>8. Steps(m, e) = p \o q
  BY <1>4, <1>5
<1> QED
  BY <1>1, <1>2, <1>3, <1>7, <1>8

\* The two steps of a DELIVERY mission.
LEMMA ChangeSteps ==
  ASSUME NEW m, NEW e, m.kind # "PARITY"
  PROVE  /\ DOMAIN Steps(m, e) = 1..2
         /\ Steps(m, e)[1] = [id |-> "REPOSITORIES", status |-> RepositoriesStep(m, e)]
         /\ Steps(m, e)[2] = [id |-> "TASKS", status |-> TasksStep(e)]
<1>1. PICK a : a = [id |-> "REPOSITORIES", status |-> RepositoriesStep(m, e)]
  OBVIOUS
<1>2. PICK b : b = [id |-> "TASKS", status |-> TasksStep(e)]
  OBVIOUS
<1>4. Steps(m, e) = <<a, b>> \o <<>>
  BY <1>1, <1>2 DEF Steps
<1>5. PICK p, q : p = <<a, b>> /\ q = <<>>
  OBVIOUS
<1>6. p \in Seq({a, b}) /\ q \in Seq({a, b}) /\ Len(p) = 2 /\ Len(q) = 0 /\ p[1] = a /\ p[2] = b
  BY <1>5
<1>9. PICK U : U = {a, b}
  OBVIOUS
<1>10. p \in Seq(U) /\ q \in Seq(U)
  BY <1>6, <1>9
<1>11. /\ Len(p \o q) = Len(p) + Len(q) /\ DOMAIN (p \o q) = 1..Len(p \o q)
       /\ \A i \in 1..(Len(p) + Len(q)) : (p \o q)[i] = IF i <= Len(p) THEN p[i] ELSE q[i - Len(p)]
  BY <1>10
<1>7. DOMAIN (p \o q) = 1..2 /\ (p \o q)[1] = a /\ (p \o q)[2] = b
  BY <1>6, <1>11
<1>8. Steps(m, e) = p \o q
  BY <1>4, <1>5
<1> QED
  BY <1>1, <1>2, <1>7, <1>8

\* A complete mission has its target, tasks that are all READY and, for
\* PARITY, a comparison that covers the head.
LEMMA CompleteMeans ==
  ASSUME NEW m, NEW e, Views(e), Complete(m, e)
  PROVE  /\ e.target.active
         /\ e.tasks # <<>> /\ \A i \in DOMAIN e.tasks : e.tasks[i].state = "READY"
         /\ m.kind = "PARITY" => Covers(e.parity, e.head)
<1>1. RepositoriesStep(m, e) = "DONE" /\ TasksStep(e) = "DONE"
  <2>1. CASE m.kind = "PARITY"
    <3>2. /\ 1 \in DOMAIN Steps(m, e) /\ 2 \in DOMAIN Steps(m, e)
          /\ Steps(m, e)[1] = [id |-> "REPOSITORIES", status |-> RepositoriesStep(m, e)]
          /\ Steps(m, e)[2] = [id |-> "TASKS", status |-> TasksStep(e)]
      <4>1. /\ DOMAIN Steps(m, e) = 1..3
            /\ Steps(m, e)[1] = [id |-> "REPOSITORIES", status |-> RepositoriesStep(m, e)]
            /\ Steps(m, e)[2] = [id |-> "TASKS", status |-> TasksStep(e)]
        BY <2>1, ParitySteps
      <4> QED
        BY <4>1
    <3>1. /\ 1 \in DOMAIN Steps(m, e) /\ 2 \in DOMAIN Steps(m, e)
          /\ Steps(m, e)[1].status = RepositoriesStep(m, e) /\ Steps(m, e)[2].status = TasksStep(e)
      BY <3>2
    <3> QED
      BY <3>1 DEF Complete
  <2>2. CASE m.kind # "PARITY"
    <3>2. /\ 1 \in DOMAIN Steps(m, e) /\ 2 \in DOMAIN Steps(m, e)
          /\ Steps(m, e)[1] = [id |-> "REPOSITORIES", status |-> RepositoriesStep(m, e)]
          /\ Steps(m, e)[2] = [id |-> "TASKS", status |-> TasksStep(e)]
      <4>1. /\ DOMAIN Steps(m, e) = 1..2
            /\ Steps(m, e)[1] = [id |-> "REPOSITORIES", status |-> RepositoriesStep(m, e)]
            /\ Steps(m, e)[2] = [id |-> "TASKS", status |-> TasksStep(e)]
        BY <2>2, ChangeSteps
      <4> QED
        BY <4>1
    <3>1. /\ 1 \in DOMAIN Steps(m, e) /\ 2 \in DOMAIN Steps(m, e)
          /\ Steps(m, e)[1].status = RepositoriesStep(m, e) /\ Steps(m, e)[2].status = TasksStep(e)
      BY <3>2
    <3> QED
      BY <3>1 DEF Complete
  <2> QED
    BY <2>1, <2>2
<1>2. m.kind = "PARITY" => ParityStep(e) = "DONE"
  <2> SUFFICES ASSUME m.kind = "PARITY" PROVE ParityStep(e) = "DONE"
    OBVIOUS
  <2>2. 3 \in DOMAIN Steps(m, e) /\ Steps(m, e)[3] = [id |-> "PARITY", status |-> ParityStep(e)]
    <3>1. DOMAIN Steps(m, e) = 1..3 /\ Steps(m, e)[3] = [id |-> "PARITY", status |-> ParityStep(e)]
      BY ParitySteps
    <3> QED
      BY <3>1
  <2>1. 3 \in DOMAIN Steps(m, e) /\ Steps(m, e)[3].status = ParityStep(e)
    BY <2>2
  <2> QED
    BY <2>1 DEF Complete
<1>3. e.target.active
  BY <1>1 DEF RepositoriesStep
<1>4. e.tasks # <<>> /\ Open(e) = {}
  BY <1>1 DEF TasksStep
<1>5. \A i \in DOMAIN e.tasks : e.tasks[i].state = "READY"
  BY <1>4 DEF Open
<1>6. m.kind = "PARITY" => Covers(e.parity, e.head)
  BY <1>2 DEF ParityStep
<1> QED
  BY <1>3, <1>4, <1>5, <1>6

\* The first step of a status, when there is one, is the one called for.
LEMMA FirstOfIs ==
  ASSUME NEW m, NEW e, m.kind = "PARITY", NEW status, \E i \in DOMAIN Steps(m, e) : Steps(m, e)[i].status = status
  PROVE  \E i \in 1..3 : /\ Steps(m, e)[i].status = status
                         /\ \A j \in 1..(i - 1) : Steps(m, e)[j].status # status
                         /\ FirstOf(m, e, status) = StepCall(Steps(m, e)[i], e)
<1>1. PICK s : s = Steps(m, e)
  OBVIOUS
<1> DEFINE Is(i) == i \in DOMAIN s /\ s[i].status = status /\ \A j \in 1..(i - 1) : s[j].status # status
<1>2. DOMAIN s = 1..3
  BY <1>1, ParitySteps
<1>3. PICK k \in {1, 2, 3} : s[k].status = status
  BY <1>1, <1>2
<1>4. \E i \in DOMAIN s : s[i].status = status /\ \A j \in 1..(i - 1) : s[j].status # status
  <2>1. CASE s[1].status = status
    <3>1. 1..(1 - 1) = {} /\ 1 \in DOMAIN s
      BY <1>2
    <3> QED
      BY <2>1, <3>1
  <2>2. CASE s[1].status # status /\ s[2].status = status
    <3>1. 1..(2 - 1) = {1} /\ 2 \in DOMAIN s
      BY <1>2
    <3> QED
      BY <2>2, <3>1
  <2>3. CASE s[1].status # status /\ s[2].status # status /\ s[3].status = status
    <3>1. 1..(3 - 1) = {1, 2} /\ 3 \in DOMAIN s
      BY <1>2
    <3> QED
      BY <2>3, <3>1
  <2> QED
    BY <1>3, <2>1, <2>2, <2>3
<1>5. PICK i : /\ i = CHOOSE n \in DOMAIN s : s[n].status = status /\ \A j \in 1..(n - 1) : s[j].status # status
               /\ i \in DOMAIN s /\ s[i].status = status /\ \A j \in 1..(i - 1) : s[j].status # status
  BY <1>4
<1>6. FirstOf(m, e, status) = StepCall(s[i], e)
  BY <1>1, <1>5 DEF FirstOf
<1> QED
  BY <1>1, <1>2, <1>5, <1>6

\* The first open task is the first.
LEMMA FirstOpenIs ==
  ASSUME NEW e, Views(e), Open(e) # {}
  PROVE  FirstOpen(e) \in Open(e) /\ \A j \in Open(e) : FirstOpen(e) <= j
<1>1. PICK O : O = Open(e)
  OBVIOUS
<1>2. O \subseteq Nat /\ O # {}
  BY <1>1 DEF Open, Views
<1>3. PICK i \in O : \A y \in O : <<y, i>> \notin OpToRel(<, Nat)
  BY <1>2, WFMin, NatLessThanWellFounded
<1>4. \A y \in O : ~(y < i)
  BY <1>2, <1>3 DEF OpToRel
<1>5. \A y \in O : i <= y
  BY <1>2, <1>4
<1>6. \E k \in O : \A y \in O : k <= y
  BY <1>5
<1>7. PICK k : k = (CHOOSE n \in O : \A y \in O : n <= y) /\ k \in O /\ \A y \in O : k <= y
  BY <1>6
<1>8. FirstOpen(e) = k
  BY <1>1, <1>7 DEF FirstOpen
<1> QED
  BY <1>1, <1>7, <1>8

\* When a comparison is called for, there is a task to record it against and none is in flight first.
LEMMA CompareWhen ==
  ASSUME NEW m, NEW e, m.kind = "PARITY", Views(e), NextCall(m, e).tool = "compare"
  PROVE  e.tasks # <<>> /\ (Open(e) = {} \/ ~e.tasks[FirstOpen(e)].busy)
<1> DEFINE Has(status) == \E i \in DOMAIN Steps(m, e) : Steps(m, e)[i].status = status
           Result == e.tasks # <<>> /\ (Open(e) = {} \/ ~e.tasks[FirstOpen(e)].busy)
           measureFirst == ParityStep(e) = "REMAINING" /\ TasksStep(e) = "REMAINING" /\ e.tasks # <<>>
           work == BlockedByReference(e) /\ ReferenceWork(e) # {}
<1>1. PICK s : s = Steps(m, e)
  OBVIOUS
<1>2. /\ DOMAIN s = 1..3 /\ s[1].id = "REPOSITORIES" /\ s[2].id = "TASKS" /\ s[3].id = "PARITY"
      /\ s[2].status = TasksStep(e) /\ s[3].status = ParityStep(e)
  <2>1. /\ DOMAIN s = 1..3
        /\ s[1] = [id |-> "REPOSITORIES", status |-> RepositoriesStep(m, e)]
        /\ s[2] = [id |-> "TASKS", status |-> TasksStep(e)]
        /\ s[3] = [id |-> "PARITY", status |-> ParityStep(e)]
    BY <1>1, ParitySteps
  <2> QED
    BY <2>1
<1>3. \A i \in 1..3 : StepCall(s[i], e).tool = "compare" => s[i].id = "PARITY" /\ s[i].status = "REMAINING"
  <2>1. StepCall(s[1], e).tool # "compare"
    BY <1>2 DEF StepCall, Call
  <2>2. StepCall(s[2], e).tool # "compare"
    BY <1>2 DEF StepCall, Call
  <2>3. StepCall(s[3], e).tool = "compare" => s[3].status = "REMAINING"
    BY <1>2 DEF StepCall, Call
  <2> QED
    BY <1>2, <2>1, <2>2, <2>3
<1>4. ASSUME NEW status, status # "REMAINING", Has(status) PROVE FirstOf(m, e, status).tool # "compare"
  BY <1>1, <1>3, <1>4, FirstOfIs
<1>5. TasksStep(e) \in {"REMAINING", "DONE", "RUNNING", "FAILING"}
  BY DEF TasksStep
<1>6. TasksStep(e) = "DONE" => Result
  BY DEF TasksStep, Views
<1>7. TasksStep(e) = "REMAINING" /\ e.tasks # <<>> => Result
  BY DEF TasksStep, Views
<1>8. ASSUME Has("REMAINING"), ~Has("FAILING"), TasksStep(e) # "RUNNING", FirstOf(m, e, "REMAINING").tool = "compare"
      PROVE  Result
  <2>1. PICK i \in 1..3 : /\ s[i].status = "REMAINING" /\ \A j \in 1..(i - 1) : s[j].status # "REMAINING"
                          /\ FirstOf(m, e, "REMAINING") = StepCall(s[i], e)
    BY <1>1, <1>8, FirstOfIs
  <2>2. s[i].id = "PARITY"
    BY <1>3, <1>8, <2>1
  <2>3. i = 3
    BY <1>2, <2>2
  <2>4. 2 \in 1..(3 - 1)
    OBVIOUS
  <2>5. TasksStep(e) # "REMAINING"
    BY <1>2, <2>1, <2>3, <2>4
  <2>6. TasksStep(e) # "FAILING"
    <3>1. 2 \in DOMAIN s
      BY <1>2
    <3> QED
      BY <1>1, <1>2, <1>8, <3>1
  <2> QED
    BY <1>5, <1>6, <1>8, <2>5, <2>6
<1>9. TasksStep(e) = "RUNNING" => Has("RUNNING")
  <2>1. 2 \in DOMAIN s
    BY <1>2
  <2> QED
    BY <1>1, <1>2, <2>1
<1>10. PICK call : call = NextCall(m, e)
  OBVIOUS
<1>11. PICK i : i = CHOOSE n \in ReferenceWork(e) : \A j \in ReferenceWork(e) : n <= j
  OBVIOUS
<1>12. call = IF Complete(m, e) THEN Call("achieve", 0)
              ELSE IF work THEN Call(IF e.tasks[i].busy THEN "wait_task" ELSE "task", i)
              ELSE IF Has("FAILING") THEN FirstOf(m, e, "FAILING")
              ELSE IF TasksStep(e) = "RUNNING" THEN FirstOf(m, e, "RUNNING")
              ELSE IF measureFirst THEN StepCall([id |-> "PARITY", status |-> "REMAINING"], e)
              ELSE IF Has("REMAINING") THEN FirstOf(m, e, "REMAINING")
              ELSE FirstOf(m, e, "RUNNING")
  BY <1>10, <1>11 DEF NextCall
<1>13. call.tool = "compare"
  BY <1>10
<1>14. CASE Complete(m, e)
  BY <1>12, <1>13, <1>14 DEF Call
<1>15. CASE ~Complete(m, e) /\ work
  BY <1>12, <1>13, <1>15 DEF Call
<1>16. CASE ~Complete(m, e) /\ ~work /\ Has("FAILING")
  BY <1>4, <1>12, <1>13, <1>16
<1>17. CASE ~Complete(m, e) /\ ~work /\ ~Has("FAILING") /\ TasksStep(e) = "RUNNING"
  BY <1>4, <1>9, <1>12, <1>13, <1>17
<1>18. CASE ~Complete(m, e) /\ ~work /\ ~Has("FAILING") /\ TasksStep(e) # "RUNNING" /\ measureFirst
  BY <1>7, <1>18
<1>19. CASE ~Complete(m, e) /\ ~work /\ ~Has("FAILING") /\ TasksStep(e) # "RUNNING" /\ ~measureFirst /\ Has("REMAINING")
  BY <1>8, <1>12, <1>13, <1>19
<1>20. CASE ~Complete(m, e) /\ ~work /\ ~Has("FAILING") /\ TasksStep(e) # "RUNNING" /\ ~measureFirst /\ ~Has("REMAINING")
  <2>1. RepositoriesStep(m, e) \in {"DONE", "FAILING"} /\ ParityStep(e) \in {"REMAINING", "RUNNING", "DONE", "FAILING"}
    BY DEF RepositoriesStep, ParityStep
  <2>2. \E j \in DOMAIN Steps(m, e) : Steps(m, e)[j].status # "DONE"
    BY <1>20 DEF Complete
  <2>4. s[1].status = RepositoriesStep(m, e)
    <3>1. s[1] = [id |-> "REPOSITORIES", status |-> RepositoriesStep(m, e)]
      BY <1>1, ParitySteps
    <3> QED
      BY <3>1
  <2>5. PICK j \in {1, 2, 3} : j \in DOMAIN s /\ s[j].status # "DONE"
    BY <1>1, <1>2, <2>2
  <2>6. s[j].status # "FAILING" /\ s[j].status # "REMAINING"
    BY <1>1, <1>20, <2>5
  <2>7. s[j].status = "RUNNING"
    BY <1>2, <1>5, <2>1, <2>4, <2>5, <2>6
  <2>3. Has("RUNNING")
    BY <1>1, <2>5, <2>7
  <2> QED
    BY <1>4, <1>12, <1>13, <1>20, <2>3
<1> QED
  BY <1>14, <1>15, <1>16, <1>17, <1>18, <1>19, <1>20
-----------------------------------------------------------------------------
Ends == {"walking", "terminal", "ambiguous", "cycle"}
Walkers(D) == [at: D, seen: SUBSET D, end: Ends]
Onward(ms, w) ==
    LET c == Competing(ms, w.at) IN
    IF w.end # "walking" THEN w
    ELSE IF c = {} THEN [w EXCEPT !.end = "terminal"]
    ELSE IF Cardinality(c) > 1 THEN [w EXCEPT !.end = "ambiguous"]
    ELSE IF c \subseteq w.seen THEN [w EXCEPT !.end = "cycle"]
    ELSE [at |-> CHOOSE u \in c : TRUE, seen |-> w.seen \cup c, end |-> "walking"]
Start(t) == [at |-> t, seen |-> {t}, end |-> "walking"]
Walks(ms, t, step, C) ==
    /\ step \in [0..C -> Walkers(DOMAIN ms)]
    /\ step[0] = Start(t)
    /\ \A n \in 1..C : step[n] = Onward(ms, step[n - 1])

\* Whoever competes for a member's place supersedes it.
LEMMA CompetingIn ==
  ASSUME NEW ms, NEW t
  PROVE  Competing(ms, t) \subseteq DOMAIN ms /\ \A u \in Competing(ms, t) : t \in ms[u].supersedes
  BY DEF Competing, Superseders

\* One step of the walk stays, or goes on to one that competes; it ends as a
\* terminal where nobody competes.
LEMMA OnwardIn ==
  ASSUME NEW ms, NEW w \in Walkers(DOMAIN ms)
  PROVE  /\ Onward(ms, w) \in Walkers(DOMAIN ms)
         /\ Onward(ms, w).at = w.at \/ Onward(ms, w).at \in Competing(ms, w.at)
         /\ (Onward(ms, w).end = "terminal" /\ w.end = "walking") =>
                Competing(ms, w.at) = {} /\ Onward(ms, w).at = w.at
         /\ w.end # "walking" => Onward(ms, w) = w
<1>1. PICK c : c = Competing(ms, w.at)
  OBVIOUS
<1>2. PICK D : D = DOMAIN ms
  OBVIOUS
<1>3. c \subseteq D /\ w \in [at: D, seen: SUBSET D, end: Ends] /\ w.at \in D /\ w.seen \subseteq D
  BY <1>1, <1>2, CompetingIn DEF Walkers
<1>4. PICK u : u = CHOOSE x \in c : TRUE
  OBVIOUS
<1>5. c # {} => u \in c /\ u \in D
  BY <1>3, <1>4
<1>6. PICK o : o = Onward(ms, w)
  OBVIOUS
<1>7. o = IF w.end # "walking" THEN w
          ELSE IF c = {} THEN [w EXCEPT !.end = "terminal"]
          ELSE IF Cardinality(c) > 1 THEN [w EXCEPT !.end = "ambiguous"]
          ELSE IF c \subseteq w.seen THEN [w EXCEPT !.end = "cycle"]
          ELSE [at |-> u, seen |-> w.seen \cup c, end |-> "walking"]
  BY <1>1, <1>4, <1>6 DEF Onward
<1>8. o \in [at: D, seen: SUBSET D, end: Ends]
  BY <1>3, <1>5, <1>7 DEF Ends
<1>9. o.at = w.at \/ o.at \in c
  BY <1>3, <1>5, <1>7
<1>10. (o.end = "terminal" /\ w.end = "walking") => c = {} /\ o.at = w.at
  BY <1>3, <1>7
<1>11. w.end # "walking" => o = w
  BY <1>7
<1> QED
  BY <1>1, <1>2, <1>6, <1>8, <1>9, <1>10, <1>11 DEF Walkers

\* The walk is its steps: Onward, as many times as there are members.
LEMMA WalkSteps ==
  ASSUME NEW ms, IsFiniteSet(DOMAIN ms), NEW t \in DOMAIN ms
  PROVE  /\ Cardinality(DOMAIN ms) \in Nat
         /\ \E step : Walks(ms, t, step, Cardinality(DOMAIN ms))
                      /\ Walk(ms, t) = step[Cardinality(DOMAIN ms)]
<1>1. PICK C : C = Cardinality(DOMAIN ms)
  OBVIOUS
<1>2. C \in Nat
  BY <1>1, FS_CardinalityType
<1>3. PICK W : W = Walkers(DOMAIN ms)
  OBVIOUS
<1>4. PICK w0 : w0 = Start(t)
  OBVIOUS
<1>5. w0 \in W
  BY <1>3, <1>4 DEF Walkers, Start, Ends
<1> DEFINE g == [n \in 1..C |-> [w \in W |-> Onward(ms, w)]]
<1>6. \A w \in W : Onward(ms, w) \in W
  BY <1>3, OnwardIn
<1>7. PICK G : G = g
  OBVIOUS
<1>8. G \in [1..C -> [W -> W]]
  BY <1>6, <1>7
<1>9. \A n \in 1..C : \A w \in W : G[n][w] = Onward(ms, w)
  BY <1>7
<1> HIDE DEF g
<1>10. Iterated(W, w0, C, G)
  BY <1>2, <1>5, <1>8, Iterates
<1>11. PICK f \in [0..C -> W] : f[0] = w0 /\ \A n \in 1..C : f[n] = G[n][f[n - 1]]
  BY <1>10 DEF Iterated
<1>12. ASSUME NEW n \in 1..C PROVE f[n] = Onward(ms, f[n - 1])
  <2>1. n - 1 \in 0..C
    BY <1>2
  <2>2. f[n - 1] \in W
    BY <1>11, <2>1
  <2> QED
    BY <1>9, <1>11, <2>2
<1> DEFINE Is(p) == p = [n \in 0..C |-> IF n = 0 THEN Start(t) ELSE Onward(ms, p[n - 1])]
<1>13. \A n \in 0..C : f[n] = IF n = 0 THEN Start(t) ELSE Onward(ms, f[n - 1])
  <2>1. \A n \in 0..C : n # 0 => n \in 1..C
    BY <1>2
  <2> QED
    BY <1>4, <1>11, <1>12, <2>1
<1>14. Is(f)
  BY <1>11, <1>13
<1>15. Is(CHOOSE p : Is(p))
  BY <1>14
<1>16. PICK p : p = (CHOOSE q : Is(q)) /\ Is(p)
  BY <1>15
<1>17. Walk(ms, t) = p[C]
  BY <1>1, <1>16 DEF Walk, Onward, Start
<1>18. p[0] = Start(t) /\ \A n \in 1..C : p[n] = Onward(ms, p[n - 1])
  <2>1. p = [n \in 0..C |-> IF n = 0 THEN Start(t) ELSE Onward(ms, p[n - 1])]
    BY <1>16
  <2>2. \A n \in 0..C : p[n] = IF n = 0 THEN Start(t) ELSE Onward(ms, p[n - 1])
    BY <2>1
  <2>3. 0 \in 0..C /\ \A n \in 1..C : n \in 0..C /\ n # 0
    BY <1>2
  <2> QED
    BY <2>2, <2>3
<1>19. p \in [0..C -> W]
  <2> DEFINE S == {n \in 0..C : p[n] \in W}
  <2>1. 0 \in S
    BY <1>2, <1>4, <1>5, <1>18
  <2>2. ASSUME NEW n \in 1..C, n - 1 \in S PROVE n \in S
    BY <1>2, <1>6, <1>18, <2>2
  <2> HIDE DEF S
  <2>3. 0..C \subseteq S
    BY <1>2, <2>1, <2>2, Climb
  <2>4. p = [n \in 0..C |-> IF n = 0 THEN Start(t) ELSE Onward(ms, p[n - 1])]
    BY <1>16
  <2>5. p = [n \in 0..C |-> p[n]]
    BY <2>4
  <2> QED
    BY <2>3, <2>5 DEF S
<1> QED
  BY <1>1, <1>2, <1>3, <1>17, <1>18, <1>19 DEF Walks
-----------------------------------------------------------------------------
SameGraph(ms, ns) == DOMAIN ms = DOMAIN ns /\ \A u \in DOMAIN ms : ms[u].supersedes = ns[u].supersedes

\* Who competes depends on the supersessions alone.
LEMMA SameCompeting ==
  ASSUME NEW ms, NEW ns, SameGraph(ms, ns)
  PROVE  \A t : Competing(ms, t) = Competing(ns, t)
<1>1. \A t : Superseders(ms, t) = Superseders(ns, t)
  BY DEF SameGraph, Superseders
<1>2. ASSUME NEW t PROVE Competing(ms, t) = Competing(ns, t)
  <2>1. PICK others : others = Superseders(ms, t) \ {t} /\ others = Superseders(ns, t) \ {t}
    BY <1>1
  <2>2. PICK standing : standing = {u \in others : Superseders(ms, u) = {}}
    OBVIOUS
  <2>3. standing = {u \in others : Superseders(ns, u) = {}}
    BY <1>1, <2>2
  <2>4. Competing(ms, t) = IF standing # {} THEN standing ELSE others
    BY <2>1, <2>2 DEF Competing
  <2>5. Competing(ns, t) = IF standing # {} THEN standing ELSE others
    BY <2>1, <2>3 DEF Competing
  <2> QED
    BY <2>4, <2>5
<1> QED
  BY <1>2

\* So does the walk.
LEMMA SameWalk ==
  ASSUME NEW ms, NEW ns, SameGraph(ms, ns), IsFiniteSet(DOMAIN ms), NEW t \in DOMAIN ms
  PROVE  Walk(ms, t) = Walk(ns, t)
<1>1. PICK C : C = Cardinality(DOMAIN ms) /\ C = Cardinality(DOMAIN ns)
  BY DEF SameGraph
<1>2. IsFiniteSet(DOMAIN ns) /\ t \in DOMAIN ns
  BY DEF SameGraph
<1>3. C \in Nat
  BY <1>1, WalkSteps
<1>4. PICK p : Walks(ms, t, p, C) /\ Walk(ms, t) = p[C]
  BY <1>1, WalkSteps
<1>5. PICK q : Walks(ns, t, q, C) /\ Walk(ns, t) = q[C]
  BY <1>1, <1>2, WalkSteps
<1>6. \A w : Onward(ms, w) = Onward(ns, w)
  BY SameCompeting DEF Onward
<1> DEFINE S == {n \in 0..C : p[n] = q[n]}
<1>7. 0 \in S
  BY <1>3, <1>4, <1>5 DEF Walks
<1>8. ASSUME NEW n \in 1..C, n - 1 \in S PROVE n \in S
  <2>1. p[n - 1] = q[n - 1]
    BY <1>8
  <2>2. p[n] = Onward(ms, p[n - 1]) /\ q[n] = Onward(ns, q[n - 1])
    BY <1>4, <1>5 DEF Walks
  <2>3. p[n] = q[n]
    BY <1>6, <2>1, <2>2
  <2> QED
    BY <1>3, <2>3
<1> HIDE DEF S
<1>9. C \in S
  BY <1>3, <1>7, <1>8, Climb
<1> QED
  BY <1>4, <1>5, <1>9 DEF S

\* Who composes the epic depends on the supersessions alone.
LEMMA SameEffective ==
  ASSUME NEW ms, NEW ns, SameGraph(ms, ns), IsFiniteSet(DOMAIN ms)
  PROVE  Effective(ms) = Effective(ns)
<1>1. \A t \in DOMAIN ms : StandIn(ms, t) = StandIn(ns, t)
  BY SameWalk DEF StandIn
<1> QED
  BY <1>1 DEF Effective, SameGraph

\* A path of the walk: how s is reached from t.
Path(sup, D, t, s, k) ==
    \E p \in [1..(k + 1) -> D] : /\ p[1] = t /\ p[k + 1] = s
                                 /\ \A i \in 1..k : p[i] \in sup[p[i + 1]]

\* A path goes on to one that supersedes its end.
LEMMA PathExtends ==
  ASSUME NEW sup, NEW D, NEW t, NEW s \in D, NEW k \in Nat, Path(sup, D, t, s, k),
         NEW u \in D, s \in sup[u]
  PROVE  Path(sup, D, t, u, k + 1)
<1>1. PICK p \in [1..(k + 1) -> D] : /\ p[1] = t /\ p[k + 1] = s
                                     /\ \A i \in 1..k : p[i] \in sup[p[i + 1]]
  BY DEF Path
<1>2. PICK q : q = [i \in 1..((k + 1) + 1) |-> IF i = (k + 1) + 1 THEN u ELSE p[i]]
  OBVIOUS
<1>3. \A i \in 1..((k + 1) + 1) : i # (k + 1) + 1 => i \in 1..(k + 1)
  OBVIOUS
<1>4. q \in [1..((k + 1) + 1) -> D]
  BY <1>1, <1>2, <1>3
<1>5. q[(k + 1) + 1] = u /\ \A i \in 1..(k + 1) : q[i] = p[i]
  <2>1. (k + 1) + 1 \in 1..((k + 1) + 1)
    OBVIOUS
  <2>2. \A i \in 1..(k + 1) : i \in 1..((k + 1) + 1) /\ i # (k + 1) + 1
    OBVIOUS
  <2> QED
    BY <1>2, <2>1, <2>2
<1>6. q[1] = t
  <2>1. 1 \in 1..(k + 1)
    OBVIOUS
  <2> QED
    BY <1>1, <1>5, <2>1
<1>7. ASSUME NEW i \in 1..(k + 1) PROVE q[i] \in sup[q[i + 1]]
  <2>1. CASE i = k + 1
    <3>1. q[i] = s /\ q[i + 1] = u
      BY <1>1, <1>5, <2>1
    <3> QED
      BY <3>1
  <2>2. CASE i # k + 1
    <3>1. i \in 1..k /\ i + 1 \in 1..(k + 1)
      BY <2>2
    <3>2. q[i] = p[i] /\ q[i + 1] = p[i + 1]
      BY <1>5, <3>1
    <3> QED
      BY <1>1, <3>1, <3>2
  <2> QED
    BY <2>1, <2>2
<1> QED
  BY <1>4, <1>5, <1>6, <1>7 DEF Path

\* Where a walk is was reached along SUPERSEDES relationships, one for each step at most.
LEMMA WalkReaches ==
  ASSUME NEW ms, IsFiniteSet(DOMAIN ms), NEW t \in DOMAIN ms, NEW sup,
         \A u \in DOMAIN ms : ms[u].supersedes = sup[u]
  PROVE  /\ Walk(ms, t).at \in DOMAIN ms
         /\ \E k \in 0..Cardinality(DOMAIN ms) : Path(sup, DOMAIN ms, t, Walk(ms, t).at, k)
<1>1. PICK C : C = Cardinality(DOMAIN ms)
  OBVIOUS
<1>2. PICK D : D = DOMAIN ms
  OBVIOUS
<1>3. C \in Nat
  BY <1>1, WalkSteps
<1>4. PICK p : Walks(ms, t, p, C) /\ Walk(ms, t) = p[C]
  BY <1>1, WalkSteps
<1>5. \A n \in 0..C : p[n] \in Walkers(D) /\ p[n].at \in D
  BY <1>2, <1>4 DEF Walks, Walkers
<1> DEFINE S == {n \in 0..C : \E k \in 0..n : Path(sup, D, t, p[n].at, k)}
<1>6. 0 \in S
  <2>1. p[0].at = t
    BY <1>4 DEF Walks, Start
  <2>2. PICK q : q = [i \in 1..(0 + 1) |-> t]
    OBVIOUS
  <2>3. q \in [1..(0 + 1) -> D] /\ q[1] = t /\ q[0 + 1] = t /\ 1..0 = {}
    BY <1>2, <2>2
  <2>4. Path(sup, D, t, t, 0)
    BY <2>3 DEF Path
  <2>5. 0 \in 0..0 /\ 0 \in 0..C
    BY <1>3
  <2> HIDE DEF S
  <2>6. \E k \in 0..0 : Path(sup, D, t, p[0].at, k)
    BY <2>1, <2>4, <2>5
  <2> QED
    BY <2>5, <2>6 DEF S
<1>7. ASSUME NEW n \in 1..C, n - 1 \in S PROVE n \in S
  <2>1. PICK k \in 0..(n - 1) : Path(sup, D, t, p[n - 1].at, k)
    BY <1>7
  <2>2. n - 1 \in 0..C /\ n \in 0..C /\ k \in Nat /\ k \in 0..n /\ k + 1 \in 0..n
    BY <1>3
  <2>3. PICK w : w = p[n - 1] /\ w \in Walkers(DOMAIN ms) /\ w.at \in D
    BY <1>2, <1>5, <2>2
  <2>4. p[n] = Onward(ms, w)
    BY <1>4, <2>3 DEF Walks
  <2>5. p[n].at = w.at \/ p[n].at \in Competing(ms, w.at)
    BY <2>3, <2>4, OnwardIn
  <2>6. CASE p[n].at = w.at
    BY <2>1, <2>2, <2>3, <2>6
  <2>7. CASE p[n].at \in Competing(ms, w.at)
    <3>1. PICK u : u = p[n].at
      OBVIOUS
    <3>2. u \in D /\ w.at \in sup[u]
      BY <1>2, <2>7, <3>1, CompetingIn
    <3>3. Path(sup, D, t, u, k + 1)
      BY <2>1, <2>2, <2>3, <3>2, PathExtends
    <3> QED
      BY <2>2, <3>1, <3>3
  <2> QED
    BY <2>5, <2>6, <2>7
<1> HIDE DEF S
<1>8. C \in S
  BY <1>3, <1>6, <1>7, Climb
<1>9. \E k \in 0..C : Path(sup, D, t, p[C].at, k)
  BY <1>8 DEF S
<1>10. p[C].at \in D
  BY <1>3, <1>5
<1> QED
  BY <1>1, <1>2, <1>4, <1>9, <1>10

\* A walk that ended at a terminal is at a member that nobody competes for.
LEMMA TerminalIs ==
  ASSUME NEW ms, IsFiniteSet(DOMAIN ms), NEW t \in DOMAIN ms, Walk(ms, t).end = "terminal"
  PROVE  Competing(ms, Walk(ms, t).at) = {}
<1>1. PICK C : C = Cardinality(DOMAIN ms)
  OBVIOUS
<1>3. C \in Nat
  BY <1>1, WalkSteps
<1>4. PICK p : Walks(ms, t, p, C) /\ Walk(ms, t) = p[C]
  BY <1>1, WalkSteps
<1>5. \A n \in 0..C : p[n] \in Walkers(DOMAIN ms)
  BY <1>4 DEF Walks
<1> DEFINE S == {n \in 0..C : p[n].end = "terminal" => Competing(ms, p[n].at) = {}}
<1>6. 0 \in S
  <2>1. p[0].end = "walking" /\ 0 \in 0..C
    BY <1>3, <1>4 DEF Walks, Start
  <2> QED
    BY <2>1
<1>7. ASSUME NEW n \in 1..C, n - 1 \in S PROVE n \in S
  <2>1. n - 1 \in 0..C /\ n \in 0..C
    BY <1>3
  <2>2. PICK w : w = p[n - 1] /\ w \in Walkers(DOMAIN ms)
    BY <1>5, <2>1
  <2>3. p[n] = Onward(ms, w)
    BY <1>4, <2>2 DEF Walks
  <2>4. w.end = "terminal" => Competing(ms, w.at) = {}
    BY <1>7, <2>2
  <2>5. (p[n].end = "terminal" /\ w.end = "walking") => Competing(ms, w.at) = {} /\ p[n].at = w.at
    BY <2>2, <2>3, OnwardIn
  <2>6. w.end # "walking" => p[n] = w
    BY <2>2, <2>3, OnwardIn
  <2> QED
    BY <2>1, <2>4, <2>5, <2>6
<1> HIDE DEF S
<1>8. C \in S
  BY <1>3, <1>6, <1>7, Climb
<1> QED
  BY <1>4, <1>8 DEF S

\* A member that nobody competes with composes the epic.
LEMMA TerminalStands ==
  ASSUME NEW ms, IsFiniteSet(DOMAIN ms), NEW s \in DOMAIN ms, Competing(ms, s) = {}
  PROVE  s \in Effective(ms)
<1>1. PICK C : C = Cardinality(DOMAIN ms)
  OBVIOUS
<1>3. C \in Nat
  BY <1>1, WalkSteps
<1>4. PICK p : Walks(ms, s, p, C) /\ Walk(ms, s) = p[C]
  BY <1>1, WalkSteps
<1> DEFINE S == {n \in 0..C : p[n].at = s}
<1>6. 0 \in S
  BY <1>3, <1>4 DEF Walks, Start
<1>7. ASSUME NEW n \in 1..C, n - 1 \in S PROVE n \in S
  <2>1. n - 1 \in 0..C /\ n \in 0..C
    BY <1>3
  <2>2. PICK w : w = p[n - 1] /\ w \in Walkers(DOMAIN ms)
    BY <1>4, <2>1 DEF Walks
  <2>3. p[n] = Onward(ms, w) /\ w.at = s
    BY <1>4, <1>7, <2>2 DEF Walks
  <2>4. p[n].at = w.at \/ p[n].at \in Competing(ms, w.at)
    BY <2>2, <2>3, OnwardIn
  <2> QED
    BY <2>1, <2>3, <2>4
<1> HIDE DEF S
<1>8. C \in S
  BY <1>3, <1>6, <1>7, Climb
<1>9. Walk(ms, s).at = s
  BY <1>4, <1>8 DEF S
<1> QED
  BY <1>9 DEF Effective, StandIn
-----------------------------------------------------------------------------
\* What a report says when it passes.
LEMMA PassMeans ==
  ASSUME NEW ms, NEW ev, NEW dims, NEW head, NEW repository,
         Report(ms, ev, dims, head, repository).result = "PASS"
  PROVE  /\ Conflicts(ms) = {}
         /\ \A t \in Effective(ms) : ms[t].contained # "no" /\ ms[t].state = "READY"
         /\ \A d \in Report(ms, ev, dims, head, repository).required :
                AtHead(OfRepository(ev, repository), d, head) # {}
<1>1. PICK rows : rows = OfRepository(ev, repository)
  OBVIOUS
<1>2. PICK status : status = [d \in dims |-> DimensionStatus(ms, rows, d, head)]
  OBVIOUS
<1>3. PICK blocked : blocked = {d \in dims : status[d] = "BLOCKED"}
  OBVIOUS
<1>4. PICK blockers : blockers = [conflicts |-> Conflicts(ms),
                     notInHead |-> {t \in Effective(ms) : ms[t].contained = "no"},
                     unplanned |-> {t \in Effective(ms) : ~ms[t].plan.planned},
                     unsettled |-> {t \in Effective(ms) : ms[t].state # "READY"},
                     unverified |-> blocked]
  OBVIOUS
<1>5. PICK report : report = Report(ms, ev, dims, head, repository)
  OBVIOUS
<1>6. /\ report.required = {d \in dims : status[d] # "NOT_APPLICABLE"}
      /\ report.result = IF \A f \in DOMAIN blockers : blockers[f] = {} THEN "PASS" ELSE "BLOCKED"
  BY <1>1, <1>2, <1>3, <1>4, <1>5 DEF Report
<1>7. \A f \in DOMAIN blockers : blockers[f] = {}
  BY <1>5, <1>6
<1>8. blockers.conflicts = {} /\ blockers.notInHead = {} /\ blockers.unsettled = {} /\ blockers.unverified = {}
  BY <1>4, <1>7
<1>9. Conflicts(ms) = {} /\ blocked = {}
  BY <1>4, <1>8
<1>10. \A t \in Effective(ms) : ms[t].contained # "no" /\ ms[t].state = "READY"
  BY <1>4, <1>8
<1>11. ASSUME NEW d \in report.required PROVE AtHead(rows, d, head) # {}
  <2>1. d \in dims /\ status[d] # "NOT_APPLICABLE" /\ status[d] # "BLOCKED"
    BY <1>3, <1>6, <1>9, <1>11
  <2>2. status[d] = DimensionStatus(ms, rows, d, head)
    BY <1>2, <2>1
  <2> QED
    BY <2>1, <2>2 DEF DimensionStatus
<1> QED
  BY <1>1, <1>5, <1>9, <1>10, <1>11

\* CI_VERIFIED is said of CI's evidence alone.
LEMMA TrustMeans ==
  ASSUME NEW sources, Trust(sources) = "CI_VERIFIED"
  PROVE  sources = {"TRUSTED_CI"}
  BY DEF Trust

\* What a report holds, whatever it is of.
LEMMA ReportIs ==
  ASSUME NEW ms, NEW ev, NEW dims, NEW head, NEW repository
  PROVE  LET report == Report(ms, ev, dims, head, repository) IN
         /\ report.head = head /\ report.repository = repository
         /\ report.result \in {"PASS", "BLOCKED"}
         /\ report.required \subseteq dims
         /\ report.trust \in {"CI_VERIFIED", "OPERATOR_ASSERTED", "MIXED", "NONE"}
         /\ report.effective = Effective(ms)
         /\ report.trust = "CI_VERIFIED" =>
                \A d \in dims : \A e \in AtHead(OfRepository(ev, repository), d, head) : e.source = "TRUSTED_CI"
<1>1. PICK rows : rows = OfRepository(ev, repository)
  OBVIOUS
<1>2. PICK sources : sources = {e.source : e \in UNION {AtHead(rows, d, head) : d \in dims}}
  OBVIOUS
<1>5. PICK report : report = Report(ms, ev, dims, head, repository)
  OBVIOUS
<1>6. /\ report.head = head /\ report.repository = repository
      /\ report.result \in {"PASS", "BLOCKED"}
      /\ report.required \subseteq dims
      /\ report.trust = Trust(sources)
      /\ report.effective = Effective(ms)
  BY <1>1, <1>2, <1>5 DEF Report
<1>7. Trust(sources) \in {"CI_VERIFIED", "OPERATOR_ASSERTED", "MIXED", "NONE"}
  BY DEF Trust
<1>8. ASSUME Trust(sources) = "CI_VERIFIED", NEW d \in dims, NEW e \in AtHead(rows, d, head)
      PROVE  e.source = "TRUSTED_CI"
  <2>1. sources = {"TRUSTED_CI"}
    BY <1>8, TrustMeans
  <2>2. e \in UNION {AtHead(rows, c, head) : c \in dims}
    BY <1>8
  <2>3. e.source \in sources
    BY <1>2, <2>2
  <2> QED
    BY <2>1, <2>3
<1> QED
  BY <1>1, <1>5, <1>6, <1>7, <1>8
-----------------------------------------------------------------------------
\* A partial function, said of its domain.
LEMMA PartialIs ==
  ASSUME NEW D, NEW S, NEW f
  PROVE  f \in Partial(D, S) <=> (DOMAIN f \subseteq D /\ f \in [DOMAIN f -> S])
<1>1. ASSUME f \in Partial(D, S) PROVE DOMAIN f \subseteq D /\ f \in [DOMAIN f -> S]
  <2>1. PICK E \in SUBSET D : f \in [E -> S]
    BY <1>1 DEF Partial
  <2> QED
    BY <2>1
<1>2. ASSUME DOMAIN f \subseteq D, f \in [DOMAIN f -> S] PROVE f \in Partial(D, S)
  <2>1. PICK E : E = DOMAIN f
    OBVIOUS
  <2>2. E \in SUBSET D /\ f \in [E -> S]
    BY <1>2, <2>1
  <2> QED
    BY <2>2 DEF Partial
<1> QED
  BY <1>1, <1>2

\* The function of nothing is a partial function.
LEMMA EmptyPartial ==
  ASSUME NEW D, NEW S
  PROVE  <<>> \in Partial(D, S) /\ DOMAIN <<>> = {}
<1>1. PICK f : f = <<>>
  OBVIOUS
<1>2. DOMAIN f = {}
  BY <1>1
<1>3. f \in [DOMAIN f -> S]
  BY <1>1, <1>2
<1> QED
  BY <1>1, <1>2, <1>3, PartialIs

\* A row of another history: one that goes on from h, with no commit gone but those that were.
Grows(h, k) == Len(h) \in Nat /\ Len(k) \in Nat /\ DOMAIN h = 1..Len(h) /\ DOMAIN k = 1..Len(k)
               /\ Len(h) <= Len(k) /\ \A i \in DOMAIN h : k[i] = h[i]

\* A sound run row stays sound as tasks and history move.
LEMMA RunStays ==
  ASSUME NEW x, NEW ts, NEW h, NEW sq, RunOK(x, ts, h, sq),
         NEW us, NEW k, NEW sr, Grows(h, k), sq \subseteq sr, DOMAIN us = DOMAIN ts,
         \A t \in DOMAIN ts : us[t].supersedes = ts[t].supersedes
  PROVE  RunOK(x, us, k, sr)
<1>1. x \in RunRow /\ x.todo \subseteq x.required /\ x.head \in 0..Len(h)
  BY DEF RunOK
<1>2. x.head \in 0..Len(k)
  BY <1>1 DEF Grows
<1>3. x.pc \notin {"idle", "over"} => x.head \in DOMAIN k /\ x.repository \in Repositories
  BY DEF RunOK, Grows
<1>4. x.pc \in {"tested", "read"} => Asked(x, k, sr)
  <2> SUFFICES ASSUME x.pc \in {"tested", "read"} PROVE Asked(x, k, sr)
    OBVIOUS
  <2>1. Asked(x, h, sq) /\ x.head \in DOMAIN h
    BY DEF RunOK
  <2>2. k[x.head] = h[x.head]
    BY <2>1 DEF Grows
  <2> QED
    BY <2>1, <2>2 DEF Asked
<1>5. x.pc = "read" => ReadOf(x, us)
  BY DEF RunOK, ReadOf
<1> QED
  BY <1>1, <1>2, <1>3, <1>4, <1>5 DEF RunOK

\* Evidence and reports are of commits that stay.
LEMMA EvidenceStays ==
  ASSUME evidence \subseteq EvidenceRow, reports \subseteq ReportRow, Grows(history, history')
  PROVE  evidence \subseteq EvidenceRow' /\ reports \subseteq ReportRow'
<1>1. DOMAIN history \subseteq DOMAIN history'
  BY DEF Grows
<1> QED
  BY <1>1 DEF EvidenceRow, ReportRow

\* What a step on the tasks and the branch may do to the rest.
LEMMA RepositoryMoves ==
  ASSUME Inv, Repository', Grows(history, history'), squashed \subseteq squashed', DOMAIN tasks' = DOMAIN tasks,
         \A t \in DOMAIN tasks : tasks'[t].supersedes = tasks[t].supersedes,
         evidence' = evidence, proven' = proven, reports' = reports, run' = run,
         mission' = mission, comparisons' = comparisons, place' = place, update' = update, asks' = asks
  PROVE  Inv'
<1>1. EpicSound /\ PassWasRunAtHead /\ MissionSound
  BY DEF Inv
<1>2. \A r \in Runs : RunOK(run'[r], tasks', history', squashed')
  <2> TAKE r \in Runs
  <2>1. RunOK(run[r], tasks, history, squashed)
    BY <1>1 DEF EpicSound
  <2>2. RunOK(run[r], tasks', history', squashed')
    BY <2>1, RunStays
  <2> QED
    BY <2>2
<1>3. evidence' \subseteq EvidenceRow' /\ reports' \subseteq ReportRow'
  BY <1>1, EvidenceStays DEF EpicSound
<1>4. EpicSound'
  BY <1>1, <1>2, <1>3 DEF EpicSound
<1>5. PassWasRunAtHead'
  BY <1>1 DEF PassWasRunAtHead
<1>6. MissionSound'
  BY <1>1 DEF MissionSound
<1> QED
  BY <1>4, <1>5, <1>6 DEF Inv

\* A commit is appended; the others keep their numbers.
LEMMA CommitGrows ==
  ASSUME Repository, NEW a \in SUBSET Nat, Commit(a)
  PROVE  /\ history' \in Seq(SUBSET Nat) /\ Len(history') = Len(history) + 1 /\ Grows(history, history')
         /\ NextCommit \in DOMAIN history' /\ NextCommit \in Nat /\ NextCommit = Len(history')
         /\ Len(history) \in Nat /\ DOMAIN history \subseteq DOMAIN history'
<1>1. history \in Seq(SUBSET Nat)
  BY DEF Repository
<1>2. Len(history) \in Nat /\ DOMAIN history = 1..Len(history)
  BY <1>1
<1>3. NextCommit \in Nat /\ NextCommit = Len(history) + 1
  BY <1>2 DEF NextCommit
<1>4. PICK b : b = a \cup {NextCommit} /\ b \in SUBSET Nat
  BY <1>3
<1>5. history' = Append(history, b)
  BY <1>4 DEF Commit
<1>6. history' \in Seq(SUBSET Nat) /\ Len(history') = Len(history) + 1 /\ DOMAIN history' = 1..Len(history')
      /\ \A i \in 1..Len(history) : history'[i] = history[i]
  BY <1>1, <1>4, <1>5
<1> QED
  BY <1>2, <1>3, <1>6 DEF Grows

\* A task reaches READY at a commit of its own.
LEMMA FinishKeeps ==
  ASSUME Inv, NEW t \in DOMAIN tasks, Finish(t)
  PROVE  Inv'
<1>1. Repository /\ TasksOK(tasks, Len(history))
  BY DEF Inv, Repository
<1>2. PICK a : a = history[main] /\ a \in SUBSET Nat
  BY <1>1 DEF Repository
<1>3. Commit(a)
  BY <1>2 DEF Finish
<1>4. /\ history' \in Seq(SUBSET Nat) /\ Len(history') = Len(history) + 1 /\ Grows(history, history')
      /\ NextCommit \in Nat /\ NextCommit = Len(history')
      /\ Len(history) \in Nat /\ DOMAIN history \subseteq DOMAIN history'
  BY <1>1, <1>2, <1>3, CommitGrows
<1>5. tasks' = [tasks EXCEPT ![t] = [@ EXCEPT !.state = "READY", !.busy = FALSE, !.verified = NextCommit]]
  BY DEF Finish
<1>6. PICK row : row = [tasks[t] EXCEPT !.state = "READY", !.busy = FALSE, !.verified = NextCommit]
  OBVIOUS
<1>7. tasks[t] \in TaskRow
  BY <1>1 DEF TasksOK
<1>8. row \in TaskRow /\ row.state = "READY" /\ row.busy = FALSE /\ row.verified = NextCommit
      /\ row.supersedes = tasks[t].supersedes
  BY <1>4, <1>6, <1>7 DEF TaskRow, TaskStates
<1>9. tasks' = [tasks EXCEPT ![t] = row]
  BY <1>5, <1>6
<1>10. DOMAIN tasks' = DOMAIN tasks /\ tasks'[t] = row /\ \A u \in DOMAIN tasks : u # t => tasks'[u] = tasks[u]
  BY <1>1, <1>9 DEF TasksOK
<1>11. TasksOK(tasks', Len(history'))
  <2>1. tasks' \in [DOMAIN tasks' -> TaskRow] /\ DOMAIN tasks' \subseteq Tasks
    BY <1>1, <1>8, <1>9 DEF TasksOK
  <2>2. ASSUME NEW u \in DOMAIN tasks'
        PROVE  tasks'[u].verified \in 0..Len(history') /\ (tasks'[u].busy => tasks'[u].state # "READY")
    <3>1. CASE u = t
      BY <1>4, <1>8, <1>10, <3>1
    <3>2. CASE u # t
      <4>1. tasks'[u] = tasks[u] /\ tasks[u].verified \in 0..Len(history) /\ (tasks[u].busy => tasks[u].state # "READY")
        BY <1>1, <1>10, <2>2, <3>2 DEF TasksOK
      <4> QED
        BY <1>4, <4>1
    <3> QED
      BY <3>1, <3>2
  <2> QED
    BY <2>1, <2>2 DEF TasksOK
<1>12. main' = main /\ squashed' = squashed
  BY DEF Finish
<1>13. Repository'
  BY <1>1, <1>4, <1>11, <1>12 DEF Repository
<1>14. \A u \in DOMAIN tasks : tasks'[u].supersedes = tasks[u].supersedes
  BY <1>8, <1>10
<1> QED
  BY <1>4, <1>10, <1>12, <1>13, <1>14, RepositoryMoves DEF Finish, epicVars, missionVars

\* A task is taken up again.
LEMMA ReopenKeeps ==
  ASSUME Inv, NEW t \in DOMAIN tasks, Reopen(t)
  PROVE  Inv'
<1>1. Repository /\ TasksOK(tasks, Len(history))
  BY DEF Inv, Repository
<1>2. PICK s \in TaskStates \ {"READY"}, b \in BOOLEAN : tasks' = [tasks EXCEPT ![t].state = s, ![t].busy = b]
  BY DEF Reopen
<1>3. tasks[t] \in TaskRow /\ tasks[t].verified \in 0..Len(history)
  BY <1>1 DEF TasksOK
<1>4. PICK row : row = [tasks[t] EXCEPT !.state = s, !.busy = b]
  OBVIOUS
<1>5. row \in TaskRow /\ row.state # "READY" /\ row.verified = tasks[t].verified /\ row.supersedes = tasks[t].supersedes
  BY <1>2, <1>3, <1>4 DEF TaskRow
<1>6. tasks' = [tasks EXCEPT ![t] = row]
  BY <1>2, <1>4
<1>7. DOMAIN tasks' = DOMAIN tasks /\ tasks'[t] = row /\ \A u \in DOMAIN tasks : u # t => tasks'[u] = tasks[u]
  BY <1>1, <1>6 DEF TasksOK
<1>8. main' = main /\ squashed' = squashed /\ history' = history
  BY DEF Reopen
<1>9. TasksOK(tasks', Len(history'))
  <2>1. tasks' \in [DOMAIN tasks' -> TaskRow] /\ DOMAIN tasks' \subseteq Tasks
    BY <1>1, <1>5, <1>6 DEF TasksOK
  <2>2. ASSUME NEW u \in DOMAIN tasks'
        PROVE  tasks'[u].verified \in 0..Len(history') /\ (tasks'[u].busy => tasks'[u].state # "READY")
    <3>1. CASE u = t
      BY <1>3, <1>5, <1>7, <1>8, <3>1
    <3>2. CASE u # t
      BY <1>1, <1>7, <1>8, <2>2, <3>2 DEF TasksOK
    <3> QED
      BY <3>1, <3>2
  <2> QED
    BY <2>1, <2>2 DEF TasksOK
<1>10. Repository'
  BY <1>1, <1>8, <1>9 DEF Repository
<1>11. \A u \in DOMAIN tasks : tasks'[u].supersedes = tasks[u].supersedes
  BY <1>5, <1>7
<1>12. Grows(history, history')
  BY <1>1, <1>8 DEF Repository, Grows
<1> QED
  BY <1>7, <1>8, <1>10, <1>11, <1>12, RepositoryMoves DEF Reopen, epicVars, missionVars

\* A pull request is merged or squashed.
LEMMA LandKeeps ==
  ASSUME Inv, NEW t \in DOMAIN tasks, Land(t)
  PROVE  Inv'
<1>1. Repository /\ TasksOK(tasks, Len(history))
  BY DEF Inv, Repository
<1>2. tasks' = tasks /\ main' = NextCommit
  BY DEF Land
<1>3. PICK v : v = tasks[t].verified
  OBVIOUS
<1>4. v \in DOMAIN history
  BY <1>1, <1>3 DEF Land, TasksOK, Repository
<1>5. PICK a \in SUBSET Nat : Commit(a)
  <2>1. history[main] \in SUBSET Nat /\ history[v] \in SUBSET Nat
    BY <1>1, <1>4 DEF Repository
  <2> QED
    BY <1>3, <2>1 DEF Land
<1>6. squashed' = squashed \/ squashed' = squashed \cup {v}
  BY <1>3 DEF Land
<1>7. /\ history' \in Seq(SUBSET Nat) /\ Len(history') = Len(history) + 1 /\ Grows(history, history')
      /\ NextCommit \in DOMAIN history' /\ Len(history) \in Nat /\ DOMAIN history \subseteq DOMAIN history'
  BY <1>1, <1>5, CommitGrows
<1>8. squashed \subseteq squashed' /\ squashed' \subseteq DOMAIN history'
  BY <1>1, <1>4, <1>6, <1>7 DEF Repository
<1>9. TasksOK(tasks', Len(history'))
  BY <1>1, <1>2, <1>7 DEF TasksOK
<1>10. Repository'
  BY <1>2, <1>7, <1>8, <1>9 DEF Repository
<1> QED
  BY <1>2, <1>7, <1>8, <1>10, RepositoryMoves DEF Land, epicVars, missionVars
-----------------------------------------------------------------------------
\* What a step on the epic may do: the tasks and the mission stay.
LEMMA EpicMoves ==
  ASSUME Inv, UNCHANGED <<taskVars, missionVars, operator, asks>>,
         DOMAIN run' = Runs, \A r \in Runs : RunOK(run'[r], tasks, history, squashed),
         evidence' \subseteq EvidenceRow, reports' \subseteq ReportRow, Backed(evidence', proven'),
         PassWasRunAtHead'
  PROVE  Inv'
<1>1. Repository /\ MissionSound
  BY DEF Inv
<1>2. /\ tasks' = tasks /\ history' = history /\ main' = main /\ squashed' = squashed
      /\ mission' = mission /\ comparisons' = comparisons /\ place' = place /\ update' = update /\ asks' = asks
  BY DEF taskVars, missionVars
<1>3. Repository'
  BY <1>1, <1>2 DEF Repository
<1>4. MissionSound'
  BY <1>1, <1>2 DEF MissionSound
<1>5. EvidenceRow' = EvidenceRow /\ ReportRow' = ReportRow
  BY <1>2 DEF EvidenceRow, ReportRow
<1>6. EpicSound'
  BY <1>2, <1>5 DEF EpicSound
<1> QED
  BY <1>3, <1>4, <1>6 DEF Inv

\* What a step of one run may do to the run's row alone.
LEMMA RowMoves ==
  ASSUME Inv, NEW r \in Runs, NEW x, run' = [run EXCEPT ![r] = x], RunOK(x, tasks, history, squashed)
  PROVE  DOMAIN run' = Runs /\ \A s \in Runs : RunOK(run'[s], tasks, history, squashed)
<1>1. DOMAIN run = Runs /\ \A s \in Runs : RunOK(run[s], tasks, history, squashed)
  BY DEF Inv, EpicSound
<1>2. DOMAIN run' = Runs /\ \A s \in Runs : run'[s] = IF s = r THEN x ELSE run[s]
  BY <1>1
<1> QED
  BY <1>1, <1>2

\* Reports that stay are still backed.
LEMMA SameReports ==
  ASSUME PassWasRunAtHead, reports' = reports, proven \subseteq proven'
  PROVE  PassWasRunAtHead'
  BY DEF PassWasRunAtHead

\* What a step of one run may do that records nothing.
LEMMA RunMoves ==
  ASSUME Inv, NEW r \in Runs, NEW x, run' = [run EXCEPT ![r] = x], RunOK(x, tasks, history, squashed),
         UNCHANGED <<taskVars, missionVars, operator, asks>>,
         evidence' = evidence, reports' = reports, proven' = proven
  PROVE  Inv'
<1>1. DOMAIN run' = Runs /\ \A s \in Runs : RunOK(run'[s], tasks, history, squashed)
  BY RowMoves
<1>2. evidence' \subseteq EvidenceRow /\ reports' \subseteq ReportRow /\ Backed(evidence', proven')
  BY DEF Inv, EpicSound
<1>3. PassWasRunAtHead'
  BY SameReports DEF Inv
<1> QED
  BY <1>1, <1>2, <1>3, EpicMoves

RunFields == {"pc", "head", "repository", "required", "todo", "at", "contained", "read"}

\* The fields of a run row.
LEMMA RunRowIs ==
  ASSUME NEW x \in RunRow
  PROVE  /\ DOMAIN x = RunFields
         /\ x.pc \in RunPhases /\ x.head \in Nat /\ x.repository \in Repositories \cup {"none"}
         /\ x.required \in SUBSET Dimensions /\ x.todo \in SUBSET Dimensions
         /\ x.at \in Partial(Tasks, Nat) /\ x.contained \in Partial(Tasks, Containment)
         /\ x.read \in Partial(Tasks, TaskRow)
  BY DEF RunRow, RunFields

\* A run pins the head and what it must cover.
LEMMA PreflightKeeps ==
  ASSUME Inv, NEW r \in Runs, Preflight(r)
  PROVE  Inv'
<1>1. Repository /\ TasksOK(tasks, Len(history)) /\ EpicSound
  BY DEF Inv, Repository
<1>2. run[r] \in RunRow /\ run[r].pc = "idle"
  BY <1>1 DEF EpicSound, RunOK, Preflight
<1>3. PICK repository \in Repositories :
        LET report == Judged(tasks, <<>>, main, repository) IN
           Step(r, [pc |-> "pinned", head |-> main, repository |-> repository,
                    required |-> report.required, todo |-> report.required,
                    at |-> [t \in {t \in report.effective : tasks[t].verified # 0} |-> tasks[t].verified]])
  BY DEF Preflight
<1>4. PICK report : report = Judged(tasks, <<>>, main, repository)
  OBVIOUS
<1>5. PICK at : at = [t \in {t \in report.effective : tasks[t].verified # 0} |-> tasks[t].verified]
  OBVIOUS
<1>6. PICK required : required = report.required
  OBVIOUS
<1>7. PICK x : x = With(run[r], [pc |-> "pinned", head |-> main, repository |-> repository,
                                 required |-> required, todo |-> required, at |-> at])
  OBVIOUS
<1>8. run' = [run EXCEPT ![r] = x]
  BY <1>3, <1>4, <1>5, <1>6, <1>7 DEF Step
<1>9. required \subseteq Dimensions
  BY <1>4, <1>6, ReportIs DEF Judged
<1>10. report.effective \subseteq DOMAIN tasks
  <2>1. report.effective = Effective(Members(tasks, <<>>))
    BY <1>4, ReportIs DEF Judged
  <2>2. DOMAIN Members(tasks, <<>>) = DOMAIN tasks
    BY DEF Members
  <2> QED
    BY <2>1, <2>2 DEF Effective
<1>11. at \in Partial(Tasks, Nat)
  <2>1. DOMAIN at \subseteq Tasks
    BY <1>1, <1>5, <1>10 DEF TasksOK
  <2>2. \A t \in DOMAIN at : tasks[t] \in TaskRow
    BY <1>1, <1>5, <1>10 DEF TasksOK
  <2>3. \A t \in DOMAIN at : at[t] \in Nat
    BY <1>5, <2>2 DEF TaskRow
  <2>4. at \in [DOMAIN at -> Nat]
    BY <1>5, <2>3
  <2> QED
    BY <2>1, <2>4, PartialIs
<1>12. main \in DOMAIN history /\ main \in Nat /\ main \in 0..Len(history)
  BY <1>1 DEF Repository
<1>13. /\ x.pc = "pinned" /\ x.head = main /\ x.repository = repository /\ x.required = required
       /\ x.todo = required /\ x \in RunRow
  <2>1. /\ DOMAIN run[r] = RunFields
        /\ run[r].contained \in Partial(Tasks, Containment) /\ run[r].read \in Partial(Tasks, TaskRow)
    BY <1>2, RunRowIs
  <2>2. x = [pc |-> "pinned", head |-> main, repository |-> repository, required |-> required, todo |-> required,
             at |-> at, contained |-> run[r].contained, read |-> run[r].read]
    BY <1>7, <2>1 DEF With, RunFields
  <2> QED
    BY <1>9, <1>11, <1>12, <2>1, <2>2 DEF RunRow, RunPhases
<1>14. RunOK(x, tasks, history, squashed)
  BY <1>12, <1>13 DEF RunOK
<1> QED
  BY <1>8, <1>14, RunMoves DEF Preflight

\* A run asks git about the members' commits.
LEMMA ContainmentKeeps ==
  ASSUME Inv, NEW r \in Runs, CommitContainment(r)
  PROVE  Inv'
<1>1. RunOK(run[r], tasks, history, squashed) /\ run[r] \in RunRow /\ run[r].pc = "pinned"
  BY DEF Inv, EpicSound, RunOK, CommitContainment
<1>2. PICK y : y = run[r]
  OBVIOUS
<1>3. /\ DOMAIN y = RunFields
      /\ y.pc \in RunPhases /\ y.head \in Nat /\ y.repository \in Repositories \cup {"none"}
      /\ y.required \in SUBSET Dimensions /\ y.todo \in SUBSET Dimensions
      /\ y.at \in Partial(Tasks, Nat) /\ y.read \in Partial(Tasks, TaskRow)
  BY <1>1, <1>2, RunRowIs
<1>4. PICK known : known = {t \in DOMAIN y.at : y.at[t] \notin squashed}
  OBVIOUS
<1>5. PICK contained : contained = [t \in known |-> IF y.at[t] \in history[y.head] THEN "yes" ELSE "no"]
  OBVIOUS
<1>6. PICK x : x = With(y, [pc |-> "tested", contained |-> contained])
  OBVIOUS
<1>7. run' = [run EXCEPT ![r] = x]
  BY <1>2, <1>4, <1>5, <1>6 DEF CommitContainment, Step
<1>8. contained \in Partial(Tasks, Containment)
  <2>1. DOMAIN contained \subseteq Tasks
    BY <1>3, <1>4, <1>5, PartialIs
  <2>2. contained \in [DOMAIN contained -> Containment]
    BY <1>5 DEF Containment
  <2> QED
    BY <2>1, <2>2, PartialIs
<1>9. x = [pc |-> "tested", head |-> y.head, repository |-> y.repository, required |-> y.required,
           todo |-> y.todo, at |-> y.at, contained |-> contained, read |-> y.read]
  BY <1>3, <1>6 DEF With, RunFields
<1>10. x \in RunRow
  BY <1>3, <1>8, <1>9 DEF RunRow, RunPhases
<1>11. Asked(x, history, squashed)
  BY <1>4, <1>5, <1>9 DEF Asked
<1>12. /\ x.pc = "tested" /\ x.head = y.head /\ x.todo = y.todo /\ x.required = y.required
       /\ x.repository = y.repository
  BY <1>9
<1>13. /\ y.todo \subseteq y.required /\ y.head \in 0..Len(history)
       /\ y.head \in DOMAIN history /\ y.repository \in Repositories
  BY <1>1, <1>2 DEF RunOK
<1>14. RunOK(x, tasks, history, squashed)
  BY <1>10, <1>11, <1>12, <1>13 DEF RunOK
<1> QED
  BY <1>7, <1>14, RunMoves DEF CommitContainment

\* A run reads the members, to judge them.
LEMMA ReadKeeps ==
  ASSUME Inv, NEW r \in Runs, ReadMembers(r)
  PROVE  Inv'
<1>1. RunOK(run[r], tasks, history, squashed) /\ run[r] \in RunRow /\ run[r].pc = "tested"
  BY DEF Inv, EpicSound, RunOK, ReadMembers
<1>2. PICK y : y = run[r]
  OBVIOUS
<1>3. /\ DOMAIN y = RunFields
      /\ y.pc \in RunPhases /\ y.head \in Nat /\ y.repository \in Repositories \cup {"none"}
      /\ y.required \in SUBSET Dimensions /\ y.todo \in SUBSET Dimensions
      /\ y.at \in Partial(Tasks, Nat) /\ y.contained \in Partial(Tasks, Containment)
  BY <1>1, <1>2, RunRowIs
<1>4. TasksOK(tasks, Len(history))
  BY DEF Inv, Repository
<1>6. PICK x : x = With(y, [pc |-> "read", read |-> tasks])
  OBVIOUS
<1>7. run' = [run EXCEPT ![r] = x]
  BY <1>2, <1>6 DEF ReadMembers, Step
<1>8. tasks \in Partial(Tasks, TaskRow)
  BY <1>4, PartialIs DEF TasksOK
<1>9. x = [pc |-> "read", head |-> y.head, repository |-> y.repository, required |-> y.required,
           todo |-> y.todo, at |-> y.at, contained |-> y.contained, read |-> tasks]
  BY <1>3, <1>6 DEF With, RunFields
<1>10. x \in RunRow
  BY <1>3, <1>8, <1>9 DEF RunRow, RunPhases
<1>11. /\ x.pc = "read" /\ x.head = y.head /\ x.todo = y.todo /\ x.required = y.required
       /\ x.repository = y.repository /\ x.at = y.at /\ x.contained = y.contained /\ x.read = tasks
  BY <1>9
<1>12. /\ y.todo \subseteq y.required /\ y.head \in 0..Len(history)
       /\ y.head \in DOMAIN history /\ y.repository \in Repositories /\ Asked(y, history, squashed)
  BY <1>1, <1>2 DEF RunOK
<1>13. Asked(x, history, squashed)
  BY <1>11, <1>12 DEF Asked
<1>14. ReadOf(x, tasks)
  BY <1>11 DEF ReadOf
<1>15. RunOK(x, tasks, history, squashed)
  BY <1>10, <1>11, <1>12, <1>13, <1>14 DEF RunOK
<1> QED
  BY <1>7, <1>15, RunMoves DEF ReadMembers

\* A run that has not begun, or is over, knows nothing.
LEMMA IdleRuns ==
  ASSUME Repository, NEW pc \in {"idle", "over"}
  PROVE  RunOK([IdleRun EXCEPT !.pc = pc], tasks, history, squashed)
<1>1. PICK x : x = [IdleRun EXCEPT !.pc = pc]
  OBVIOUS
<1>2. PICK e : e = <<>>
  OBVIOUS
<1>3. x = [pc |-> pc, head |-> 0, repository |-> "none", required |-> {}, todo |-> {},
           at |-> e, contained |-> e, read |-> e]
  BY <1>1, <1>2 DEF IdleRun
<1>4. e \in Partial(Tasks, Nat) /\ e \in Partial(Tasks, Containment) /\ e \in Partial(Tasks, TaskRow)
  BY <1>2, EmptyPartial
<1>5. x \in RunRow
  BY <1>3, <1>4 DEF RunRow, RunPhases
<1>6. 0 \in 0..Len(history)
  BY DEF Repository
<1>7. x.pc = pc /\ x.head = 0 /\ x.todo = {} /\ x.required = {}
  BY <1>3
<1>8. x.pc \notin {"pinned", "tested", "read"} /\ x.pc \in {"idle", "over"}
  BY <1>7
<1>9. RunOK(x, tasks, history, squashed)
  BY <1>5, <1>6, <1>7, <1>8 DEF RunOK
<1> QED
  BY <1>1, <1>9

\* A run is lost.
LEMMA DiesKeeps ==
  ASSUME Inv, NEW r \in Runs, RunDies(r)
  PROVE  Inv'
<1>1. PICK x : x = [IdleRun EXCEPT !.pc = "over"]
  OBVIOUS
<1>2. RunOK(x, tasks, history, squashed)
  BY <1>1, IdleRuns DEF Inv
<1>3. run' = [run EXCEPT ![r] = x]
  BY <1>1 DEF RunDies
<1> QED
  BY <1>2, <1>3, RunMoves DEF RunDies

\* A dimension recorded as passed by a run is one its suite exercised, with nothing failing.
LEMMA PassedIsReal ==
  ASSUME NEW seen, NEW p \in PropertyRuns, InvariantsPassed(TRUE, seen, p)
  PROVE  "FAILED" \notin seen /\ p.spoke /\ p.properties /\ ~p.counterexample
<1>1. p.spoke \in BOOLEAN /\ p.properties \in BOOLEAN /\ p.counterexample \in BOOLEAN
  BY DEF PropertyRuns
<1>2. PropertyStatus(TRUE, "FAILED" \notin seen, p) = "PASS"
  BY DEF InvariantsPassed
<1>3. p.spoke
  BY <1>1, <1>2 DEF PropertyStatus
<1>4. ~p.counterexample /\ "FAILED" \notin seen
  BY <1>1, <1>2, <1>3 DEF PropertyStatus
<1>5. p.properties
  BY <1>1, <1>2, <1>3, <1>4 DEF PropertyStatus
<1> QED
  BY <1>3, <1>4, <1>5

\* A run records what a suite did.
LEMMA DimensionKeeps ==
  ASSUME Inv, NEW r \in Runs, NEW d \in Dimensions, RecordDimension(r, d)
  PROVE  Inv'
<1>1. RunOK(run[r], tasks, history, squashed) /\ run[r] \in RunRow /\ run[r].pc = "tested"
  BY DEF Inv, EpicSound, RunOK, RecordDimension
<1>2. PICK y : y = run[r]
  OBVIOUS
<1>3. /\ DOMAIN y = RunFields
      /\ y.pc \in RunPhases /\ y.head \in Nat /\ y.repository \in Repositories \cup {"none"}
      /\ y.required \in SUBSET Dimensions /\ y.todo \in SUBSET Dimensions
      /\ y.at \in Partial(Tasks, Nat) /\ y.contained \in Partial(Tasks, Containment)
      /\ y.read \in Partial(Tasks, TaskRow)
  BY <1>1, <1>2, RunRowIs
<1>4. /\ y.todo \subseteq y.required /\ y.head \in 0..Len(history) /\ y.pc = "tested"
      /\ y.head \in DOMAIN history /\ y.repository \in Repositories /\ Asked(y, history, squashed)
  BY <1>1, <1>2 DEF RunOK
<1>5. PICK seen \in SUBSET TestOutcomes, p \in IF d = "INVARIANTS" THEN PropertyRuns ELSE {<<>>} :
           LET passed == IF d = "INVARIANTS" THEN InvariantsPassed(TRUE, seen, p)
                         ELSE DimensionPassed(seen)
               real == /\ "FAILED" \notin seen
                       /\ IF d = "INVARIANTS" THEN p.spoke /\ p.properties /\ ~p.counterexample
                          ELSE "PASSED" \in seen
           IN /\ Record(d, run[r].head, passed, run[r].repository, r)
              /\ proven' = IF real THEN proven \cup {<<d, run[r].head, run[r].repository>>} ELSE proven
  BY DEF RecordDimension
<1>6. PICK passed \in BOOLEAN : passed = IF d = "INVARIANTS" THEN InvariantsPassed(TRUE, seen, p) ELSE DimensionPassed(seen)
  BY DEF InvariantsPassed, DimensionPassed
<1>7. Record(d, y.head, passed, y.repository, r)
  BY <1>2, <1>5, <1>6
<1>8. passed => proven' = proven \cup {<<d, y.head, y.repository>>}
  <2>1. CASE d = "INVARIANTS"
    <3>1. p \in PropertyRuns
      BY <1>5, <2>1
    <3>2. passed => "FAILED" \notin seen /\ p.spoke /\ p.properties /\ ~p.counterexample
      BY <1>6, <2>1, <3>1, PassedIsReal
    <3> QED
      BY <1>2, <1>5, <2>1, <3>2
  <2>2. CASE d # "INVARIANTS"
    <3>1. passed => "FAILED" \notin seen /\ "PASSED" \in seen
      BY <1>6, <2>2 DEF DimensionPassed
    <3> QED
      BY <1>2, <1>5, <2>2, <3>1
  <2> QED
    BY <2>1, <2>2
<1>9. proven \subseteq proven'
  BY <1>5
<1>10. PICK row : row = Row(d, y.head, passed, y.repository, r)
  OBVIOUS
<1>11. row = [dimension |-> d, commit |-> y.head, passed |-> passed, repository |-> y.repository,
              actor |-> r, source |-> "TRUSTED_CI"]
  BY <1>10 DEF Row
<1>12. row \in EvidenceRow
  BY <1>4, <1>11 DEF EvidenceRow, SourceTypes
<1>13. evidence' = evidence \/ evidence' = evidence \cup {row}
  BY <1>7, <1>10 DEF Record
<1>14. evidence \subseteq EvidenceRow /\ Backed(evidence, proven) /\ reports \subseteq ReportRow
  BY DEF Inv, EpicSound
<1>15. evidence' \subseteq EvidenceRow
  BY <1>12, <1>13, <1>14
<1>16. Backed(evidence', proven')
  <2> SUFFICES ASSUME NEW e \in evidence', e.passed, e.source = "TRUSTED_CI"
               PROVE  <<e.dimension, e.commit, e.repository>> \in proven'
    BY DEF Backed
  <2>1. CASE e \in evidence
    BY <1>9, <1>14, <2>1 DEF Backed
  <2>2. CASE e = row
    <3>1. e.dimension = d /\ e.commit = y.head /\ e.repository = y.repository /\ e.passed = passed
      BY <1>11, <2>2
    <3>2. proven' = proven \cup {<<d, y.head, y.repository>>}
      BY <1>8, <3>1
    <3> QED
      BY <3>1, <3>2
  <2> QED
    BY <1>13, <2>1, <2>2
<1>17. PICK x : x = With(y, [todo |-> y.todo \ {d}])
  OBVIOUS
<1>18. run' = [run EXCEPT ![r] = x]
  BY <1>2, <1>17 DEF RecordDimension, Step
<1>19. x = [pc |-> y.pc, head |-> y.head, repository |-> y.repository, required |-> y.required,
            todo |-> y.todo \ {d}, at |-> y.at, contained |-> y.contained, read |-> y.read]
  BY <1>3, <1>17 DEF With, RunFields
<1>20. x \in RunRow
  BY <1>3, <1>19 DEF RunRow
<1>21. /\ x.pc = "tested" /\ x.head = y.head /\ x.todo \subseteq y.todo /\ x.required = y.required
       /\ x.repository = y.repository /\ x.at = y.at /\ x.contained = y.contained
  BY <1>4, <1>19
<1>22. Asked(x, history, squashed)
  BY <1>4, <1>21 DEF Asked
<1>23. RunOK(x, tasks, history, squashed)
  BY <1>4, <1>20, <1>21, <1>22 DEF RunOK
<1>24. DOMAIN run' = Runs /\ \A s \in Runs : RunOK(run'[s], tasks, history, squashed)
  BY <1>18, <1>23, RowMoves
<1>25. reports' = reports /\ UNCHANGED <<taskVars, missionVars, operator, asks>>
  BY DEF RecordDimension
<1>26. PassWasRunAtHead'
  BY <1>9, <1>25, SameReports DEF Inv
<1> QED
  BY <1>14, <1>15, <1>16, <1>24, <1>25, <1>26, EpicMoves

\* A PASS that CI verified rests on evidence that is backed, for each of its dimensions.
LEMMA JudgedPass ==
  ASSUME Backed(evidence, proven), NEW rows, NEW contained, NEW head, NEW repository, NEW report,
         report = Judged(rows, contained, head, repository), report.result = "PASS", report.trust = "CI_VERIFIED",
         NEW d \in report.required
  PROVE  <<d, head, repository>> \in proven
<1>1. PICK ms : ms = Members(rows, contained)
  OBVIOUS
<1>2. report = Report(ms, evidence, Dimensions, head, repository)
  BY <1>1 DEF Judged
<1>3. d \in Dimensions
  BY <1>2, ReportIs
<1>4. AtHead(OfRepository(evidence, repository), d, head) # {}
  BY <1>2, PassMeans
<1>5. PICK e \in AtHead(OfRepository(evidence, repository), d, head) : TRUE
  BY <1>4
<1>6. e.source = "TRUSTED_CI"
  BY <1>2, <1>3, <1>5, ReportIs
<1>7. e \in evidence /\ e.repository = repository /\ e.dimension = d /\ e.commit = head /\ e.passed
  BY <1>5 DEF AtHead, OfRepository
<1> QED
  BY <1>6, <1>7 DEF Backed

\* A report is persisted, a run's or an operator's.
LEMMA PersistMoves ==
  ASSUME Inv, NEW rows, NEW contained, NEW head \in DOMAIN history, NEW repository \in Repositories,
         NEW by \in Runs \cup {"operator"}, Persist(Judged(rows, contained, head, repository), by),
         proven' = proven
  PROVE  reports' \subseteq ReportRow /\ PassWasRunAtHead'
<1>1. PICK report : report = Judged(rows, contained, head, repository)
  OBVIOUS
<1>2. /\ report.head = head /\ report.repository = repository
      /\ report.result \in {"PASS", "BLOCKED"}
      /\ report.required \subseteq Dimensions
      /\ report.trust \in {"CI_VERIFIED", "OPERATOR_ASSERTED", "MIXED", "NONE"}
  BY <1>1, ReportIs DEF Judged
<1>3. PICK p : p = [by |-> by, head |-> report.head, repository |-> report.repository,
                    result |-> report.result, trust |-> report.trust, required |-> report.required]
  OBVIOUS
<1>4. reports' = reports \cup {p}
  BY <1>1, <1>3 DEF Persist
<1>5. p \in ReportRow
  BY <1>2, <1>3 DEF ReportRow
<1>6. reports \subseteq ReportRow /\ PassWasRunAtHead /\ Backed(evidence, proven)
  BY DEF Inv, EpicSound
<1>7. ASSUME p.result = "PASS", p.trust = "CI_VERIFIED", NEW d \in p.required
      PROVE  <<d, p.head, p.repository>> \in proven
  <2>1. report.result = "PASS" /\ report.trust = "CI_VERIFIED" /\ d \in report.required
        /\ p.head = head /\ p.repository = repository
    BY <1>2, <1>3, <1>7
  <2> QED
    BY <1>1, <1>6, <2>1, JudgedPass
<1>8. PassWasRunAtHead'
  BY <1>4, <1>6, <1>7 DEF PassWasRunAtHead
<1> QED
  BY <1>4, <1>5, <1>6, <1>8

\* A run persists its report.
LEMMA PersistKeeps ==
  ASSUME Inv, NEW r \in Runs, PersistReport(r)
  PROVE  Inv'
<1>1. run[r].head \in DOMAIN history /\ run[r].repository \in Repositories
  BY DEF Inv, EpicSound, RunOK, PersistReport
<1>2. Persist(Judged(run[r].read, run[r].contained, run[r].head, run[r].repository), r)
  BY DEF PersistReport
<1>3. PICK rows, contained, head, repository :
        rows = run[r].read /\ contained = run[r].contained /\ head = run[r].head /\ repository = run[r].repository
  OBVIOUS
<1>4. Persist(Judged(rows, contained, head, repository), r)
  BY <1>2, <1>3
<1>5. proven' = proven /\ evidence' = evidence
  BY DEF PersistReport
<1>6. reports' \subseteq ReportRow /\ PassWasRunAtHead'
  BY <1>1, <1>3, <1>4, <1>5, PersistMoves
<1>7. PICK x : x = [IdleRun EXCEPT !.pc = "over"]
  OBVIOUS
<1>8. RunOK(x, tasks, history, squashed)
  BY <1>7, IdleRuns DEF Inv
<1>9. run' = [run EXCEPT ![r] = x]
  BY <1>7 DEF PersistReport
<1>10. DOMAIN run' = Runs /\ \A s \in Runs : RunOK(run'[s], tasks, history, squashed)
  BY <1>8, <1>9, RowMoves
<1>11. evidence' \subseteq EvidenceRow /\ Backed(evidence', proven')
  BY <1>5 DEF Inv, EpicSound
<1> QED
  BY <1>6, <1>10, <1>11, EpicMoves DEF PersistReport

\* An operator records evidence.
LEMMA OperatorRecordsKeeps ==
  ASSUME Inv, OperatorRecords
  PROVE  Inv'
<1>1. PICK d \in Dimensions, c \in 1..main, passed \in BOOLEAN, repository \in Repositories :
        Record(d, c, passed, repository, "operator")
  BY DEF OperatorRecords
<1>2. PICK row : row = Row(d, c, passed, repository, "operator")
  OBVIOUS
<1>3. row = [dimension |-> d, commit |-> c, passed |-> passed, repository |-> repository,
             actor |-> "operator", source |-> "OPERATOR"]
  BY <1>2, DeliveryAssumption DEF Row
<1>4. c \in DOMAIN history
  BY DEF Inv, Repository
<1>5. row \in EvidenceRow /\ row.source # "TRUSTED_CI"
  BY <1>3, <1>4 DEF EvidenceRow, SourceTypes
<1>6. evidence' \subseteq evidence \cup {row}
  BY <1>1, <1>2 DEF Record
<1>7. proven' = proven /\ reports' = reports /\ run' = run
  BY DEF OperatorRecords
<1>8. EpicSound
  BY DEF Inv
<1>9. evidence' \subseteq EvidenceRow /\ Backed(evidence', proven')
  BY <1>5, <1>6, <1>7, <1>8 DEF EpicSound, Backed
<1>10. DOMAIN run' = Runs /\ \A s \in Runs : RunOK(run'[s], tasks, history, squashed)
  BY <1>7, <1>8 DEF EpicSound
<1>11. reports' \subseteq ReportRow
  BY <1>7, <1>8 DEF EpicSound
<1>12. PassWasRunAtHead'
  BY <1>7, SameReports DEF Inv
<1> QED
  BY <1>9, <1>10, <1>11, <1>12, EpicMoves DEF OperatorRecords

\* An operator asks for the verdict.
LEMMA OperatorVerifiesKeeps ==
  ASSUME Inv, OperatorVerifies
  PROVE  Inv'
<1>1. PICK repository \in Repositories : Persist(Judged(tasks, <<>>, main, repository), "operator")
  BY DEF OperatorVerifies
<1>2. PICK rows, contained, head : rows = tasks /\ contained = <<>> /\ head = main
  OBVIOUS
<1>3. head \in DOMAIN history
  BY <1>2 DEF Inv, Repository
<1>4. Persist(Judged(rows, contained, head, repository), "operator")
  BY <1>1, <1>2
<1>5. proven' = proven /\ evidence' = evidence /\ run' = run
  BY DEF OperatorVerifies
<1>6. reports' \subseteq ReportRow /\ PassWasRunAtHead'
  BY <1>3, <1>4, <1>5, PersistMoves
<1>7. EpicSound
  BY DEF Inv
<1>8. evidence' \subseteq EvidenceRow /\ Backed(evidence', proven')
  BY <1>5, <1>7 DEF EpicSound
<1>9. DOMAIN run' = Runs /\ \A s \in Runs : RunOK(run'[s], tasks, history, squashed)
  BY <1>5, <1>7 DEF EpicSound
<1> QED
  BY <1>6, <1>8, <1>9, EpicMoves DEF OperatorVerifies
-----------------------------------------------------------------------------
\* What a step on the mission may do: the tasks and the epic stay.
LEMMA MissionMoves ==
  ASSUME Inv, UNCHANGED <<tasks, history, main, squashed, epicVars, asks>>,
         MissionOK(mission', DOMAIN tasks), Compared(comparisons'), place' \in Places, DOMAIN update' = Updates,
         \A u \in Updates : UpdateOK(update'[u], DOMAIN tasks, comparisons')
  PROVE  Inv'
<1>1. Repository /\ EpicSound /\ PassWasRunAtHead /\ MissionSound
  BY DEF Inv
<1>2. /\ tasks' = tasks /\ history' = history /\ main' = main /\ squashed' = squashed
      /\ evidence' = evidence /\ proven' = proven /\ reports' = reports /\ run' = run /\ asks' = asks
  BY DEF epicVars
<1>3. Repository'
  BY <1>1, <1>2 DEF Repository
<1>4. EvidenceRow' = EvidenceRow /\ ReportRow' = ReportRow
  BY <1>2 DEF EvidenceRow, ReportRow
<1>5. EpicSound'
  BY <1>1, <1>2, <1>4 DEF EpicSound
<1>6. PassWasRunAtHead'
  BY <1>1, <1>2 DEF PassWasRunAtHead
<1>7. MissionSound'
  BY <1>1, <1>2 DEF MissionSound
<1> QED
  BY <1>3, <1>5, <1>6, <1>7 DEF Inv

\* What a request found stays found while the comparisons that are PROVEN stay.
LEMMA UpdateStays ==
  ASSUME NEW x, NEW ts, NEW cs, NEW ds, UpdateOK(x, ts, cs),
         \A j \in DOMAIN cs : cs[j].verdict = "PROVEN" => j \in DOMAIN ds /\ ds[j] = cs[j]
  PROVE  UpdateOK(x, ts, ds)
<1>1. \A parity, pin : Found(parity, pin, cs) => Found(parity, pin, ds)
  BY DEF Found
<1> QED
  BY <1>1 DEF UpdateOK

\* What a step of one request may do to the request's row alone.
LEMMA RequestMoves ==
  ASSUME Inv, NEW u \in Updates, NEW x, update' = [update EXCEPT ![u] = x],
         UpdateOK(x, DOMAIN tasks, comparisons), comparisons' = comparisons,
         UNCHANGED <<tasks, history, main, squashed, epicVars, asks>>, place' = place,
         MissionOK(mission', DOMAIN tasks)
  PROVE  Inv'
<1>1. MissionSound
  BY DEF Inv
<1>2. DOMAIN update' = Updates /\ \A v \in Updates : update'[v] = IF v = u THEN x ELSE update[v]
  BY <1>1 DEF MissionSound
<1>3. \A v \in Updates : UpdateOK(update'[v], DOMAIN tasks, comparisons')
  BY <1>1, <1>2 DEF MissionSound
<1>4. Compared(comparisons') /\ place' \in Places
  BY <1>1 DEF MissionSound
<1> QED
  BY <1>2, <1>3, <1>4, MissionMoves

\* A comparison is queued.
LEMMA CompareKeeps ==
  ASSUME Inv, Compare
  PROVE  Inv'
<1>1. Repository /\ MissionSound
  BY DEF Inv
<1>2. Compared(comparisons) /\ MissionOK(mission, DOMAIN tasks) /\ place \in Places
  BY <1>1 DEF MissionSound
<1>3. PICK c : c = [commit |-> main, pin |-> mission.pin, status |-> "QUEUED", verdict |-> "none", reference |-> FALSE]
  OBVIOUS
<1>4. comparisons' = Append(comparisons, c)
  BY <1>3 DEF Compare
<1>5. main \in Nat /\ mission.pin \in Pins
  BY <1>1, <1>2 DEF Repository, MissionOK, MissionRows
<1>6. c \in Comparison /\ c.verdict # "PROVEN"
  BY <1>3, <1>5 DEF Comparison
<1>7. comparisons \in Seq(Comparison)
  BY <1>2 DEF Compared
<1>8. /\ comparisons' \in Seq(Comparison) /\ DOMAIN comparisons = 1..Len(comparisons) /\ Len(comparisons) \in Nat
      /\ DOMAIN comparisons' = 1..(Len(comparisons) + 1)
      /\ comparisons'[Len(comparisons) + 1] = c
      /\ \A j \in 1..Len(comparisons) : comparisons'[j] = comparisons[j]
  BY <1>4, <1>6, <1>7
<1>9. \A j \in DOMAIN comparisons' : j \in DOMAIN comparisons \/ j = Len(comparisons) + 1
  BY <1>8
<1>10. Compared(comparisons')
  BY <1>2, <1>6, <1>8, <1>9 DEF Compared
<1>11. \A j \in DOMAIN comparisons : j \in DOMAIN comparisons' /\ comparisons'[j] = comparisons[j]
  BY <1>8
<1>12. UNCHANGED <<tasks, history, main, squashed, epicVars, asks>> /\ mission' = mission /\ place' = place /\ update' = update
  BY DEF Compare, taskVars
<1>13. DOMAIN update' = Updates /\ \A u \in Updates : UpdateOK(update'[u], DOMAIN tasks, comparisons')
  <2>1. DOMAIN update = Updates /\ \A u \in Updates : UpdateOK(update[u], DOMAIN tasks, comparisons)
    BY <1>1 DEF MissionSound
  <2>2. ASSUME NEW u \in Updates PROVE UpdateOK(update'[u], DOMAIN tasks, comparisons')
    <3>1. PICK x : x = update[u] /\ UpdateOK(x, DOMAIN tasks, comparisons)
      BY <2>1
    <3>2. UpdateOK(x, DOMAIN tasks, comparisons')
      BY <1>11, <3>1, UpdateStays
    <3> QED
      BY <1>12, <3>1, <3>2
  <2> QED
    BY <1>12, <2>1, <2>2
<1> QED
  BY <1>2, <1>10, <1>12, <1>13, MissionMoves

\* A comparison ends: one that was PROVEN is another.
LEMMA CompareEndsKeeps ==
  ASSUME Inv, CompareEnds
  PROVE  Inv'
<1>1. Repository /\ MissionSound
  BY DEF Inv
<1>2. Compared(comparisons) /\ MissionOK(mission, DOMAIN tasks) /\ place \in Places
  BY <1>1 DEF MissionSound
<1>3. PICK i \in DOMAIN comparisons, v \in {"PROVEN", "NOT_PROVEN", "none"}, ref \in BOOLEAN :
           /\ comparisons[i].status = "QUEUED"
           /\ v # "NOT_PROVEN" => ~ref
           /\ comparisons' = [comparisons EXCEPT ![i].status = IF v = "PROVEN" THEN "COMPLETED" ELSE "FAILED",
                                                 ![i].verdict = v, ![i].reference = ref]
  BY DEF CompareEnds
<1>4. PICK c : c = [comparisons[i] EXCEPT !.status = IF v = "PROVEN" THEN "COMPLETED" ELSE "FAILED",
                                         !.verdict = v, !.reference = ref]
  OBVIOUS
<1>5. comparisons' = [comparisons EXCEPT ![i] = c]
  BY <1>3, <1>4
<1>6. comparisons \in Seq(Comparison) /\ comparisons[i] \in Comparison /\ comparisons[i].verdict # "PROVEN"
  BY <1>2, <1>3 DEF Compared
<1>7. c \in Comparison /\ (c.verdict = "PROVEN" => c.status # "QUEUED")
  BY <1>4, <1>6 DEF Comparison
<1>8. /\ comparisons' \in Seq(Comparison) /\ DOMAIN comparisons' = DOMAIN comparisons
      /\ comparisons'[i] = c /\ \A j \in DOMAIN comparisons : j # i => comparisons'[j] = comparisons[j]
  BY <1>3, <1>5, <1>6, <1>7
<1>9. Compared(comparisons')
  BY <1>2, <1>7, <1>8 DEF Compared
<1>10. \A j \in DOMAIN comparisons : comparisons[j].verdict = "PROVEN" =>
                                       j \in DOMAIN comparisons' /\ comparisons'[j] = comparisons[j]
  BY <1>6, <1>8
<1>11. UNCHANGED <<tasks, history, main, squashed, epicVars, asks>> /\ mission' = mission /\ place' = place /\ update' = update
  BY DEF CompareEnds, taskVars
<1>12. DOMAIN update' = Updates /\ \A u \in Updates : UpdateOK(update'[u], DOMAIN tasks, comparisons')
  <2>1. DOMAIN update = Updates /\ \A u \in Updates : UpdateOK(update[u], DOMAIN tasks, comparisons)
    BY <1>1 DEF MissionSound
  <2>2. ASSUME NEW u \in Updates PROVE UpdateOK(update'[u], DOMAIN tasks, comparisons')
    <3>1. PICK x : x = update[u] /\ UpdateOK(x, DOMAIN tasks, comparisons)
      BY <2>1
    <3>2. UpdateOK(x, DOMAIN tasks, comparisons')
      BY <1>10, <3>1, UpdateStays
    <3> QED
      BY <1>11, <3>1, <3>2
  <2> QED
    BY <1>11, <2>1, <2>2
<1> QED
  BY <1>2, <1>9, <1>11, <1>12, MissionMoves

\* A repository is disabled or put back.
LEMMA DisableKeeps ==
  ASSUME Inv, Disable
  PROVE  Inv'
<1>1. MissionSound
  BY DEF Inv
<1>2. place \in Places
  BY <1>1 DEF MissionSound
<1>3. PICK which \in DOMAIN place : place' = [place EXCEPT ![which].active = ~@]
  BY DEF Disable
<1>4. place[which] \in Place
  BY <1>2, <1>3 DEF Places
<1>5. PICK p : p = [place[which] EXCEPT !.active = ~@]
  OBVIOUS
<1>6. p \in Place
  BY <1>4, <1>5 DEF Place
<1>7. place' = [place EXCEPT ![which] = p]
  BY <1>3, <1>5
<1>8. place' \in Places
  BY <1>2, <1>6, <1>7 DEF Places
<1>9. /\ UNCHANGED <<tasks, history, main, squashed, epicVars, asks>>
      /\ mission' = mission /\ comparisons' = comparisons /\ update' = update
  BY DEF Disable
<1>10. DOMAIN update' = Updates /\ \A u \in Updates : UpdateOK(update'[u], DOMAIN tasks, comparisons')
  BY <1>1, <1>9 DEF MissionSound
<1>11. MissionOK(mission', DOMAIN tasks) /\ Compared(comparisons')
  BY <1>1, <1>9 DEF MissionSound
<1> QED
  BY <1>8, <1>9, <1>10, <1>11, MissionMoves
-----------------------------------------------------------------------------
\* The row a request makes of a mission is a mission.
LEMMA ChangedIs ==
  ASSUME NEW ts, NEW m, MissionOK(m, ts), NEW ask, Request(ask, ts), ask.pin \in Pins => m.kind = "PARITY"
  PROVE  MissionOK(Changed(m, ask), ts)
<1>1. PICK s : s = Unique(Without(m.tasks, ask.remove) \o ask.add)
  OBVIOUS
<1>2. PICK pin : pin = IF ask.pin \in Pins THEN ask.pin ELSE m.pin
  OBVIOUS
<1>3. m \in [kind: {"DELIVERY", "PARITY"}, tasks: Seq(ts), pin: Pins, status: Statuses] /\ MissionRow(m)
  BY DEF MissionOK, MissionRows
<1>4. s \in Seq(ts) /\ Distinct(s)
  <2>1. PICK a : a = Without(m.tasks, ask.remove) /\ a \in Seq(ts)
    BY <1>3, WithoutIs
  <2>2. PICK b : b = ask.add /\ b \in Seq(ts)
    BY DEF Request
  <2>3. a \o b \in Seq(ts)
    BY <2>1, <2>2
  <2>4. PICK c : c = a \o b /\ c \in Seq(ts)
    BY <2>3
  <2>5. Unique(c) \in Seq(ts) /\ Distinct(Unique(c))
    BY <2>4, UniqueIs
  <2> QED
    BY <1>1, <2>1, <2>2, <2>4, <2>5
<1>5. PICK n : n = Changed(m, ask)
  OBVIOUS
<1>6. n = [m EXCEPT !.tasks = s, !.pin = pin]
  BY <1>1, <1>2, <1>5 DEF Changed
<1>7. pin \in Pins /\ (m.kind = "DELIVERY" => pin = "none")
  BY <1>2, <1>3 DEF MissionRow
<1>8. n \in [kind: {"DELIVERY", "PARITY"}, tasks: Seq(ts), pin: Pins, status: Statuses]
      /\ n.kind = m.kind /\ n.pin = pin /\ n.tasks = s
  <2>1. PICK T : T = Seq(ts)
    OBVIOUS
  <2>2. m \in [kind: {"DELIVERY", "PARITY"}, tasks: T, pin: Pins, status: Statuses] /\ s \in T
    BY <1>3, <1>4, <2>1
  <2>3. n \in [kind: {"DELIVERY", "PARITY"}, tasks: T, pin: Pins, status: Statuses]
        /\ n.kind = m.kind /\ n.pin = pin /\ n.tasks = s
    BY <1>6, <1>7, <2>2
  <2> QED
    BY <2>1, <2>3
<1>9. MissionRow(n)
  BY <1>4, <1>7, <1>8 DEF MissionRow
<1> QED
  BY <1>5, <1>8, <1>9 DEF MissionOK, MissionRows

\* A mission of another status is a mission.
LEMMA StatusIs ==
  ASSUME NEW ts, NEW m, MissionOK(m, ts), NEW status \in Statuses
  PROVE  MissionOK([m EXCEPT !.status = status], ts) /\ [m EXCEPT !.status = status].kind = m.kind
         /\ [m EXCEPT !.status = status].tasks = m.tasks /\ [m EXCEPT !.status = status].pin = m.pin
<1>1. PICK T : T = Seq(ts)
  OBVIOUS
<1>2. m \in [kind: {"DELIVERY", "PARITY"}, tasks: T, pin: Pins, status: Statuses] /\ MissionRow(m)
  BY <1>1 DEF MissionOK, MissionRows
<1>3. PICK n : n = [m EXCEPT !.status = status]
  OBVIOUS
<1>4. n \in [kind: {"DELIVERY", "PARITY"}, tasks: T, pin: Pins, status: Statuses]
      /\ n.kind = m.kind /\ n.pin = m.pin /\ n.tasks = m.tasks
  BY <1>2, <1>3
<1>5. MissionRow(n)
  BY <1>2, <1>4 DEF MissionRow
<1> QED
  BY <1>1, <1>3, <1>4, <1>5 DEF MissionOK, MissionRows

\* A request that has not begun, or is over, found nothing.
LEMMA IdleRequest ==
  ASSUME NEW ts, NEW cs, NEW pc \in {"idle", "over"}
  PROVE  UpdateOK([IdleUpdate EXCEPT !.pc = pc], ts, cs)
<1>1. PICK x : x = [IdleUpdate EXCEPT !.pc = pc]
  OBVIOUS
<1>2. DOMAIN x = UpdateFields /\ x.pc = pc /\ x.tasks = <<>>
  BY <1>1 DEF IdleUpdate, UpdateFields
<1>3. x.pc \in {"idle", "over"} /\ x.pc \notin {"loaded", "listed", "compared", "judged"} /\ x.pc \in UpdatePhases
  BY <1>2 DEF UpdatePhases
<1>4. UpdateOK(x, ts, cs)
  BY <1>2, <1>3 DEF UpdateOK
<1> QED
  BY <1>1, <1>4

\* A request makes its row of the mission.
LEMMA LoadsKeeps ==
  ASSUME Inv, NEW u \in Updates, UpdateLoads(u)
  PROVE  Inv'
<1>1. MissionSound
  BY DEF Inv
<1>2. PICK y : y = update[u]
  OBVIOUS
<1>3. UpdateOK(y, DOMAIN tasks, comparisons) /\ y.pc = "idle"
  BY <1>1, <1>2 DEF MissionSound, UpdateLoads
<1>4. DOMAIN y = UpdateFields /\ y.tasks = <<>>
  BY <1>3 DEF UpdateOK
<1>5. PICK ask \in asks :
           /\ ask.pin \in Pins => mission.kind = "PARITY"
           /\ IF ask.status = "ACHIEVED" /\ mission.status # "ACHIEVED"
              THEN To(u, [pc |-> "loaded", row |-> Changed(mission, ask)])
              ELSE To(u, [pc |-> "judged",
                          row |-> [Changed(mission, ask) EXCEPT
                                       !.status = IF ask.status = "same" THEN @ ELSE ask.status]])
  BY DEF UpdateLoads
<1>6. PICK m : m = Changed(mission, ask)
  OBVIOUS
<1>7. MissionOK(m, DOMAIN tasks)
  BY <1>1, <1>5, <1>6, ChangedIs DEF MissionSound
<1>8. PICK status : status = IF ask.status = "same" THEN m.status ELSE ask.status
  OBVIOUS
<1>9. status \in Statuses
  BY <1>1, <1>5, <1>7, <1>8 DEF MissionSound, Request, MissionOK, MissionRows
<1>10. PICK n : n = [m EXCEPT !.status = status]
  OBVIOUS
<1>11. MissionOK(n, DOMAIN tasks)
  BY <1>7, <1>9, <1>10, StatusIs
<1>12. PICK pc, row : /\ pc \in {"loaded", "judged"} /\ MissionOK(row, DOMAIN tasks)
                      /\ To(u, [pc |-> pc, row |-> row])
  <2>1. CASE ask.status = "ACHIEVED" /\ mission.status # "ACHIEVED"
    BY <1>5, <1>6, <1>7, <2>1
  <2>2. CASE ~(ask.status = "ACHIEVED" /\ mission.status # "ACHIEVED")
    <3>1. To(u, [pc |-> "judged", row |-> n])
      BY <1>5, <1>6, <1>8, <1>10, <2>2
    <3> QED
      BY <1>11, <3>1
  <2> QED
    BY <2>1, <2>2
<1>13. PICK x : x = With(y, [pc |-> pc, row |-> row])
  OBVIOUS
<1>14. update' = [update EXCEPT ![u] = x]
  BY <1>2, <1>12, <1>13 DEF To
<1>15. DOMAIN x = UpdateFields /\ x.pc = pc /\ x.row = row /\ x.tasks = <<>>
  BY <1>4, <1>13 DEF With, UpdateFields
<1>16. x.pc \in UpdatePhases /\ x.pc \notin {"listed", "compared"}
  BY <1>12, <1>15 DEF UpdatePhases
<1>17. UpdateOK(x, DOMAIN tasks, comparisons)
  BY <1>12, <1>15, <1>16 DEF UpdateOK
<1>18. UNCHANGED <<tasks, history, main, squashed, epicVars, asks>> /\ mission' = mission /\ place' = place
       /\ comparisons' = comparisons
  BY DEF UpdateLoads, taskVars
<1>19. MissionOK(mission', DOMAIN tasks)
  BY <1>1, <1>18 DEF MissionSound
<1> QED
  BY <1>14, <1>17, <1>18, <1>19, RequestMoves

\* A request lists the tasks of its row.
LEMMA ListsKeeps ==
  ASSUME Inv, NEW u \in Updates, UpdateLists(u)
  PROVE  Inv'
<1>1. MissionSound /\ TasksOK(tasks, Len(history))
  BY DEF Inv, Repository
<1>2. PICK y : y = update[u]
  OBVIOUS
<1>3. UpdateOK(y, DOMAIN tasks, comparisons) /\ y.pc = "loaded"
  BY <1>1, <1>2 DEF MissionSound, UpdateLists
<1>4. DOMAIN y = UpdateFields /\ MissionOK(y.row, DOMAIN tasks)
  BY <1>3 DEF UpdateOK
<1>5. PICK s : s = y.row.tasks /\ s \in Seq(DOMAIN tasks)
  BY <1>4 DEF MissionOK, MissionRows
<1>6. PICK seen : seen = [i \in DOMAIN s |-> [state |-> tasks[s[i]].state, busy |-> tasks[s[i]].busy]]
  OBVIOUS
<1>7. PICK x : x = With(y, [pc |-> "listed", place |-> place, tasks |-> seen])
  OBVIOUS
<1>8. update' = [update EXCEPT ![u] = x]
  BY <1>2, <1>5, <1>6, <1>7 DEF To, UpdateLists
<1>9. DOMAIN x = UpdateFields /\ x.pc = "listed" /\ x.row = y.row /\ x.tasks = seen
  BY <1>4, <1>7 DEF With, UpdateFields
<1>10. seen \in Seq(TaskView) /\ DOMAIN seen = DOMAIN s
  <2>1. DOMAIN s = 1..Len(s) /\ Len(s) \in Nat /\ \A i \in DOMAIN s : s[i] \in DOMAIN tasks
    BY <1>5
  <2>2. \A t \in DOMAIN tasks : tasks[t] \in TaskRow
    BY <1>1 DEF TasksOK
  <2>3. \A t \in DOMAIN tasks : [state |-> tasks[t].state, busy |-> tasks[t].busy] \in TaskView
    BY <2>2 DEF TaskRow, TaskView
  <2>4. \A i \in DOMAIN s : seen[i] \in TaskView
    BY <1>6, <2>1, <2>3
  <2>5. PICK n \in Nat : n = Len(s) /\ DOMAIN s = 1..n
    BY <2>1
  <2>6. seen \in [1..n -> TaskView]
    BY <1>6, <2>4, <2>5
  <2> QED
    BY <1>6, <2>6
<1>11. Listed(x)
  BY <1>5, <1>9, <1>10 DEF Listed
<1>12. UpdateOK(x, DOMAIN tasks, comparisons)
  BY <1>4, <1>9, <1>11 DEF UpdateOK, UpdatePhases
<1>13. UNCHANGED <<tasks, history, main, squashed, epicVars, asks>> /\ mission' = mission /\ place' = place
       /\ comparisons' = comparisons
  BY DEF UpdateLists, taskVars
<1>14. MissionOK(mission', DOMAIN tasks)
  BY <1>1, <1>13 DEF MissionSound
<1> QED
  BY <1>8, <1>12, <1>13, <1>14, RequestMoves

\* The newest comparison of a pin, when it is PROVEN, is one of the comparisons of the pin.
LEMMA NewestIs ==
  ASSUME Compared(comparisons), NEW pin
  PROVE  Found(Newest(pin), pin, comparisons)
<1>1. PICK N : N = Len(comparisons) /\ N \in Nat /\ DOMAIN comparisons = 1..N
  BY DEF Compared
<1>2. PICK of : of = {i \in DOMAIN comparisons : pin \in {"none", comparisons[i].pin}}
  OBVIOUS
<1>3. CASE of = {}
  BY <1>2, <1>3 DEF Newest, Found, NoComparison
<1>4. CASE of # {}
  <2> DEFINE S == {n \in 0..N : (\E i \in of : i <= n) => \E i \in of : i <= n /\ \A k \in of : k <= n => k <= i}
  <2>1. 0 \in S
    BY <1>1, <1>2
  <2>2. ASSUME NEW n \in 1..N, n - 1 \in S PROVE n \in S
    <3>1. CASE n \in of
      BY <1>1, <1>2, <3>1
    <3>2. CASE n \notin of
      <4>1. \A k \in of : k <= n <=> k <= n - 1
        BY <1>1, <1>2, <3>2
      <4> QED
        BY <1>1, <2>2, <4>1
    <3> QED
      BY <3>1, <3>2
  <2> HIDE DEF S
  <2>8. N \in Nat /\ N \in 0..N
    BY <1>1
  <2>9. 0..N \subseteq S
    BY <2>1, <2>2, <2>8, Climb
  <2>3. N \in S
    BY <2>8, <2>9
  <2>4. \A k \in of : k <= N
    BY <1>1, <1>2
  <2>5. \E i \in of : \A k \in of : k <= i
    BY <1>4, <2>3, <2>4 DEF S
  <2>6. PICK i : i = (CHOOSE n \in of : \A k \in of : k <= n) /\ i \in of
    BY <2>5
  <2>7. Newest(pin).verdict = comparisons[i].verdict /\ Newest(pin).commit = comparisons[i].commit
    BY <1>2, <1>4, <2>6 DEF Newest
  <2>10. i \in DOMAIN comparisons /\ pin \in {"none", comparisons[i].pin}
    BY <1>2, <2>6
  <2>11. PICK parity : parity = Newest(pin)
    OBVIOUS
  <2>12. Found(parity, pin, comparisons)
    BY <2>7, <2>10, <2>11 DEF Found
  <2> QED
    BY <2>11, <2>12
<1> QED
  BY <1>3, <1>4

\* A request finds the newest comparison of its pin.
LEMMA ComparesKeeps ==
  ASSUME Inv, NEW u \in Updates, UpdateCompares(u)
  PROVE  Inv'
<1>1. MissionSound
  BY DEF Inv
<1>2. PICK y : y = update[u]
  OBVIOUS
<1>3. UpdateOK(y, DOMAIN tasks, comparisons) /\ y.pc = "listed"
  BY <1>1, <1>2 DEF MissionSound, UpdateCompares
<1>4. DOMAIN y = UpdateFields /\ MissionOK(y.row, DOMAIN tasks) /\ Listed(y)
  BY <1>3 DEF UpdateOK
<1>5. PICK parity : parity = Newest(y.row.pin)
  OBVIOUS
<1>6. Found(parity, y.row.pin, comparisons)
  BY <1>1, <1>5, NewestIs DEF MissionSound
<1>7. PICK x : x = With(y, [pc |-> "compared", parity |-> parity])
  OBVIOUS
<1>8. update' = [update EXCEPT ![u] = x]
  BY <1>2, <1>5, <1>7 DEF To, UpdateCompares
<1>9. DOMAIN x = UpdateFields /\ x.pc = "compared" /\ x.row = y.row /\ x.tasks = y.tasks /\ x.parity = parity
  BY <1>4, <1>7 DEF With, UpdateFields
<1>10. Listed(x)
  BY <1>4, <1>9 DEF Listed
<1>11. UpdateOK(x, DOMAIN tasks, comparisons)
  BY <1>4, <1>6, <1>9, <1>10 DEF UpdateOK, UpdatePhases
<1>12. UNCHANGED <<tasks, history, main, squashed, epicVars, asks>> /\ mission' = mission /\ place' = place
       /\ comparisons' = comparisons
  BY DEF UpdateCompares, taskVars
<1>13. MissionOK(mission', DOMAIN tasks)
  BY <1>1, <1>12 DEF MissionSound
<1> QED
  BY <1>8, <1>11, <1>12, <1>13, RequestMoves

\* Whether a mission is complete depends on its kind and the evidence alone.
LEMMA CompleteOfKind ==
  ASSUME NEW m, NEW n, NEW e, m.kind = n.kind, Complete(m, e)
  PROVE  Complete(n, e)
<1>1. RepositoriesStep(m, e) = RepositoriesStep(n, e)
  BY DEF RepositoriesStep
<1>2. Steps(m, e) = Steps(n, e)
  BY <1>1 DEF Steps
<1> QED
  BY <1>2 DEF Complete

\* A request judges its row, or is refused.
LEMMA JudgesKeeps ==
  ASSUME Inv, NEW u \in Updates, UpdateJudges(u)
  PROVE  Inv'
<1>1. MissionSound
  BY DEF Inv
<1>2. PICK y : y = update[u]
  OBVIOUS
<1>3. UpdateOK(y, DOMAIN tasks, comparisons) /\ y.pc = "compared"
  BY <1>1, <1>2 DEF MissionSound, UpdateJudges
<1>4. /\ DOMAIN y = UpdateFields /\ MissionOK(y.row, DOMAIN tasks) /\ Listed(y)
      /\ Found(y.parity, y.row.pin, comparisons)
  BY <1>3 DEF UpdateOK
<1>5. UNCHANGED <<tasks, history, main, squashed, epicVars, asks>> /\ mission' = mission /\ place' = place
       /\ comparisons' = comparisons
  BY DEF UpdateJudges, taskVars
<1>6. MissionOK(mission', DOMAIN tasks)
  BY <1>1, <1>5 DEF MissionSound
<1>7. PICK head : IF Complete(update[u].row, SeenBy(u, head))
           THEN To(u, [pc |-> "judged", head |-> head, row |-> [update[u].row EXCEPT !.status = "ACHIEVED"]])
           ELSE update' = [update EXCEPT ![u] = [IdleUpdate EXCEPT !.pc = "over"]]
  BY DEF UpdateJudges
<1>8. SeenBy(u, head) = Seen(y, head)
  BY <1>2 DEF SeenBy, Seen
<1>9. CASE ~Complete(y.row, Seen(y, head))
  <2>1. PICK x : x = [IdleUpdate EXCEPT !.pc = "over"]
    OBVIOUS
  <2>2. update' = [update EXCEPT ![u] = x]
    BY <1>2, <1>7, <1>8, <1>9, <2>1
  <2>3. UpdateOK(x, DOMAIN tasks, comparisons)
    BY <2>1, IdleRequest
  <2> QED
    BY <1>5, <1>6, <2>2, <2>3, RequestMoves
<1>10. CASE Complete(y.row, Seen(y, head))
  <2>1. PICK row : row = [y.row EXCEPT !.status = "ACHIEVED"]
    OBVIOUS
  <2>2. MissionOK(row, DOMAIN tasks) /\ row.kind = y.row.kind /\ row.tasks = y.row.tasks /\ row.pin = y.row.pin
    BY <1>4, <2>1, StatusIs DEF Statuses
  <2>3. PICK x : x = With(y, [pc |-> "judged", head |-> head, row |-> row])
    OBVIOUS
  <2>4. update' = [update EXCEPT ![u] = x]
    BY <1>2, <1>7, <1>8, <1>10, <2>1, <2>3 DEF To
  <2>5. DOMAIN x = UpdateFields /\ x.pc = "judged" /\ x.row = row /\ x.tasks = y.tasks /\ x.parity = y.parity
        /\ x.head = head /\ x.place = y.place
    BY <1>4, <2>3 DEF With, UpdateFields
  <2>6. Listed(x)
    BY <1>4, <2>2, <2>5 DEF Listed
  <2>7. Seen(x, x.head) = Seen(y, head)
    BY <2>5 DEF Seen
  <2>8. Complete(x.row, Seen(x, x.head))
    BY <1>10, <2>2, <2>5, <2>7, CompleteOfKind
  <2>9. Found(x.parity, x.row.pin, comparisons)
    BY <1>4, <2>2, <2>5
  <2>10. UpdateOK(x, DOMAIN tasks, comparisons)
    BY <2>2, <2>5, <2>6, <2>8, <2>9 DEF UpdateOK, UpdatePhases
  <2> QED
    BY <1>5, <1>6, <2>4, <2>10, RequestMoves
<1> QED
  BY <1>9, <1>10

\* A request stores its row, whatever was stored since.
LEMMA StoresKeeps ==
  ASSUME Inv, NEW u \in Updates, UpdateStores(u)
  PROVE  Inv'
<1>1. MissionSound
  BY DEF Inv
<1>2. UpdateOK(update[u], DOMAIN tasks, comparisons) /\ update[u].pc = "judged"
  BY <1>1 DEF MissionSound, UpdateStores
<1>3. mission' = update[u].row
  BY DEF UpdateStores
<1>4. MissionOK(mission', DOMAIN tasks)
  BY <1>2, <1>3 DEF UpdateOK
<1>5. PICK x : x = [IdleUpdate EXCEPT !.pc = "over"]
  OBVIOUS
<1>6. update' = [update EXCEPT ![u] = x]
  BY <1>5 DEF UpdateStores
<1>7. UpdateOK(x, DOMAIN tasks, comparisons)
  BY <1>5, IdleRequest
<1>8. UNCHANGED <<tasks, history, main, squashed, epicVars, asks>> /\ place' = place /\ comparisons' = comparisons
  BY DEF UpdateStores, taskVars
<1> QED
  BY <1>4, <1>6, <1>7, <1>8, RequestMoves
-----------------------------------------------------------------------------
\* Inv holds of every scenario.
LEMMA InitInv == Init => Inv
<1> SUFFICES ASSUME Init PROVE Inv
  OBVIOUS
<1>1. PICK s \in Scenarios :
        /\ tasks = s.tasks /\ mission = s.mission /\ asks = s.asks
        /\ run = [r \in Runs |-> IF r \in s.runs THEN IdleRun ELSE [IdleRun EXCEPT !.pc = "over"]]
  BY DEF Init
<1>2. /\ history = <<{1}>> /\ main = 1 /\ squashed = {}
      /\ evidence = {} /\ proven = {} /\ reports = {} /\ comparisons = <<>>
      /\ place = [target |-> [registered |-> TRUE, active |-> TRUE, write |-> TRUE],
                  reference |-> [registered |-> TRUE, active |-> TRUE, write |-> FALSE]]
      /\ update = [u \in Updates |-> IdleUpdate]
  BY DEF Init
<1>3. /\ DOMAIN tasks \subseteq Tasks /\ tasks \in [DOMAIN tasks -> TaskRow]
      /\ \A t \in DOMAIN tasks : tasks[t].verified \in 0..1 /\ (tasks[t].busy => tasks[t].state # "READY")
      /\ MissionOK(mission, DOMAIN tasks)
      /\ \A ask \in asks : Request(ask, DOMAIN tasks)
  BY <1>1, DeliveryAssumption DEF DeliveryAssumption, MissionOK
<1>4. history \in Seq(SUBSET Nat) /\ Len(history) = 1 /\ DOMAIN history = 1..1
  <2>3. {1} \in SUBSET Nat
    OBVIOUS
  <2>1. PICK a \in SUBSET Nat : a = {1}
    BY <2>3
  <2>2. history = <<a>>
    BY <1>2, <2>1
  <2> QED
    BY <2>1, <2>2
<1>5. TasksOK(tasks, Len(history))
  BY <1>3, <1>4 DEF TasksOK
<1>6. Repository
  BY <1>2, <1>4, <1>5 DEF Repository
<1>7. ASSUME NEW r \in Runs PROVE RunOK(run[r], tasks, history, squashed)
  <2>1. IdleRun = [IdleRun EXCEPT !.pc = "idle"]
    BY DEF IdleRun
  <2>2. PICK pc \in {"idle", "over"} : run[r] = [IdleRun EXCEPT !.pc = pc]
    BY <1>1, <2>1
  <2> QED
    BY <1>6, <2>2, IdleRuns
<1>8. DOMAIN run = Runs
  BY <1>1
<1>9. EpicSound
  BY <1>2, <1>7, <1>8 DEF EpicSound, Backed
<1>10. PassWasRunAtHead
  BY <1>2 DEF PassWasRunAtHead
<1>11. Compared(comparisons)
  BY <1>2 DEF Compared
<1>12. place \in Places
  BY <1>2 DEF Places, Place
<1>13. ASSUME NEW u \in Updates PROVE UpdateOK(update[u], DOMAIN tasks, comparisons)
  <2>1. IdleUpdate = [IdleUpdate EXCEPT !.pc = "idle"]
    BY DEF IdleUpdate
  <2>2. update[u] = [IdleUpdate EXCEPT !.pc = "idle"]
    BY <1>2, <2>1
  <2>3. PICK ts : ts = DOMAIN tasks
    OBVIOUS
  <2>4. UpdateOK([IdleUpdate EXCEPT !.pc = "idle"], ts, comparisons)
    BY IdleRequest
  <2> QED
    BY <2>2, <2>3, <2>4
<1>14. MissionSound
  BY <1>2, <1>3, <1>11, <1>12, <1>13 DEF MissionSound
<1> QED
  BY <1>6, <1>9, <1>10, <1>14 DEF Inv

\* No step breaks Inv.
LEMMA NextInv == Inv /\ [Next]_vars => Inv'
<1> SUFFICES ASSUME Inv, [Next]_vars PROVE Inv'
  OBVIOUS
<1>1. CASE UNCHANGED vars
  <2>1. /\ tasks' = tasks /\ history' = history /\ main' = main /\ squashed' = squashed
        /\ evidence' = evidence /\ proven' = proven /\ reports' = reports /\ run' = run
        /\ mission' = mission /\ comparisons' = comparisons /\ place' = place /\ update' = update
        /\ asks' = asks
    BY <1>1 DEF vars
  <2>2. Repository'
    BY <2>1 DEF Inv, Repository
  <2>3. Grows(history, history')
    BY <2>1 DEF Inv, Repository, Grows
  <2> QED
    BY <2>1, <2>2, <2>3, RepositoryMoves
<1>2. ASSUME NEW t \in DOMAIN tasks, Finish(t) \/ Reopen(t) \/ Land(t) PROVE Inv'
  BY <1>2, FinishKeeps, ReopenKeeps, LandKeeps
<1>3. ASSUME NEW r \in Runs,
             \/ Preflight(r) \/ CommitContainment(r) \/ ReadMembers(r) \/ PersistReport(r) \/ RunDies(r)
             \/ \E d \in Dimensions : RecordDimension(r, d)
      PROVE  Inv'
  BY <1>3, PreflightKeeps, ContainmentKeeps, ReadKeeps, PersistKeeps, DiesKeeps, DimensionKeeps
<1>4. CASE OperatorRecords \/ OperatorVerifies
  BY <1>4, OperatorRecordsKeeps, OperatorVerifiesKeeps
<1>5. CASE Compare \/ CompareEnds \/ Disable
  BY <1>5, CompareKeeps, CompareEndsKeeps, DisableKeeps
<1>6. ASSUME NEW u \in Updates,
             UpdateLoads(u) \/ UpdateLists(u) \/ UpdateCompares(u) \/ UpdateJudges(u) \/ UpdateStores(u)
      PROVE  Inv'
  BY <1>6, LoadsKeeps, ListsKeeps, ComparesKeeps, JudgesKeeps, StoresKeeps
<1> QED
  BY <1>1, <1>2, <1>3, <1>4, <1>5, <1>6 DEF Next

\* Inv is an invariant: of every project, run and request, in every
\* interleaving.
THEOREM AlwaysInv == Spec => []Inv
  BY InitInv, NextInv, PTL DEF Spec
-----------------------------------------------------------------------------
\* Inv says what TypeOK says.
LEMMA InvIsTyped == Inv => TypeOK
<1> SUFFICES ASSUME Inv PROVE TypeOK
  OBVIOUS
<1>1. Repository /\ EpicSound /\ MissionSound
  BY DEF Inv
<1>2. ASSUME NEW t \in DOMAIN tasks
      PROVE  /\ tasks[t].state \in TaskStates /\ tasks[t].busy \in BOOLEAN
             /\ tasks[t].plan \in Plans \cup {NoPlan}
             /\ tasks[t].verified \in 0..Len(history)
             /\ tasks[t].busy => tasks[t].state # "READY"
  <2>1. tasks[t] \in TaskRow
    BY <1>1 DEF Repository, TasksOK
  <2>2. tasks[t].state \in TaskStates /\ tasks[t].busy \in BOOLEAN /\ tasks[t].plan \in Plans \cup {NoPlan}
    BY <2>1 DEF TaskRow
  <2> QED
    BY <1>1, <2>2 DEF Repository, TasksOK
<1>3. main \in DOMAIN history /\ squashed \subseteq DOMAIN history
  BY <1>1 DEF Repository
<1>4. ASSUME NEW r \in Runs
      PROVE  /\ run[r].pc \in RunPhases /\ run[r].head \in 0..Len(history)
             /\ run[r].todo \subseteq run[r].required
             /\ \A t \in DOMAIN run[r].contained : run[r].contained[t] \in Containment
  <2>1. RunOK(run[r], tasks, history, squashed)
    BY <1>1 DEF EpicSound
  <2>2. run[r] \in RunRow /\ run[r].head \in 0..Len(history) /\ run[r].todo \subseteq run[r].required
    BY <2>1 DEF RunOK
  <2>3. run[r].pc \in RunPhases /\ run[r].contained \in Partial(Tasks, Containment)
    BY <2>2, RunRowIs
  <2>4. \A t \in DOMAIN run[r].contained : run[r].contained[t] \in Containment
    BY <2>3, PartialIs
  <2> QED
    BY <2>2, <2>3, <2>4
<1>5. evidence \subseteq EvidenceRow /\ reports \subseteq ReportRow
  BY <1>1 DEF EpicSound
<1>6. \A u \in Updates : update[u].pc \in UpdatePhases
  BY <1>1 DEF MissionSound, UpdateOK
<1>7. mission \in MissionRows(DOMAIN tasks) /\ MissionRow(mission)
  BY <1>1 DEF MissionSound, MissionOK
<1> QED
  BY <1>2, <1>3, <1>4, <1>5, <1>6, <1>7 DEF TypeOK

\* Every variable holds what the code can put in it.
THEOREM TypeCorrect == Spec => []TypeOK
  BY AlwaysInv, InvIsTyped, PTL

\* A PASS that says CI verified it rests, for every dimension it requires, on
\* a suite that succeeded at that commit of that repository: whatever was
\* recorded, by whom, and however many runs there are (buildEpicVerification,
\* run-epic-verification.ts).
THEOREM PassesWereRunAtHead == Spec => []PassWasRunAtHead
<1>1. Inv => PassWasRunAtHead
  BY DEF Inv
<1> QED
  BY <1>1, AlwaysInv, PTL

\* When to compare, of one state.
LEMMA InvComparesLate == Inv => ComparisonWaitsForTask
<1> SUFFICES ASSUME Inv, mission.kind = "PARITY", NextCall(mission, Brief).tool = "compare"
             PROVE  mission.tasks # <<>> /\ ~tasks[mission.tasks[1]].busy
  BY DEF ComparisonWaitsForTask
<1>1. TasksOK(tasks, Len(history)) /\ MissionOK(mission, DOMAIN tasks)
  BY DEF Inv, Repository, MissionSound
<1>2. PICK s : s = mission.tasks /\ s \in Seq(DOMAIN tasks)
  BY <1>1 DEF MissionOK, MissionRows
<1>3. PICK e : e = Brief
  OBVIOUS
<1>4. PICK seen : seen = [i \in DOMAIN s |-> [state |-> tasks[s[i]].state, busy |-> tasks[s[i]].busy]]
  OBVIOUS
<1>5. e.missing = FALSE /\ e.tasks = seen
  BY <1>2, <1>3, <1>4 DEF Brief, Evidence
<1>6. DOMAIN s = 1..Len(s) /\ Len(s) \in Nat /\ \A i \in DOMAIN s : s[i] \in DOMAIN tasks
  BY <1>2
<1>7. seen \in Seq(TaskView) /\ DOMAIN seen = DOMAIN s
  <2>2. \A t \in DOMAIN tasks : tasks[t] \in TaskRow
    BY <1>1 DEF TasksOK
  <2>3. \A t \in DOMAIN tasks : [state |-> tasks[t].state, busy |-> tasks[t].busy] \in TaskView
    BY <2>2 DEF TaskRow, TaskView
  <2>4. \A i \in DOMAIN s : seen[i] \in TaskView
    BY <1>4, <1>6, <2>3
  <2>5. PICK n \in Nat : n = Len(s) /\ DOMAIN s = 1..n
    BY <1>6
  <2>6. seen \in [1..n -> TaskView]
    BY <1>4, <2>4, <2>5
  <2> QED
    BY <1>4, <2>6
<1>8. Views(e)
  BY <1>5, <1>7 DEF Views
<1>9. seen # <<>> /\ (Open(e) = {} \/ ~seen[FirstOpen(e)].busy)
  BY <1>3, <1>5, <1>8, CompareWhen
<1>10. s # <<>> /\ 1 \in DOMAIN s
  BY <1>6, <1>7, <1>9
<1>11. seen[1].state = tasks[s[1]].state /\ seen[1].busy = tasks[s[1]].busy
  BY <1>4, <1>10
<1>12. CASE 1 \notin Open(e)
  <2>1. seen[1].state = "READY"
    BY <1>5, <1>7, <1>10, <1>12 DEF Open
  <2> QED
    BY <1>1, <1>2, <1>6, <1>10, <1>11, <2>1 DEF TasksOK
<1>13. CASE 1 \in Open(e)
  <2>1. FirstOpen(e) \in Open(e) /\ FirstOpen(e) <= 1
    BY <1>8, <1>13, FirstOpenIs
  <2>2. FirstOpen(e) \in DOMAIN s
    BY <1>5, <1>7, <2>1 DEF Open
  <2>3. FirstOpen(e) = 1
    BY <1>6, <2>1, <2>2
  <2> QED
    BY <1>2, <1>9, <1>10, <1>11, <1>13, <2>3
<1> QED
  BY <1>12, <1>13

\* A session is never told to compare while the task that carries the
\* comparison is in flight, nor before there is one (missionNextCall).
THEOREM ComparisonsWaitForTasks == Spec => []ComparisonWaitsForTask
  BY AlwaysInv, InvComparesLate, PTL
-----------------------------------------------------------------------------
\* Steps that persist a report: a run's, of what it read, or an operator's, of what is there.
LEMMA ReportedBy ==
  ASSUME Inv, [Next]_vars, NEW p \in reports' \ reports
  PROVE  \/ \E r \in Runs : /\ PersistReport(r) /\ p.by = r
                            /\ LET report == Judged(run[r].read, run[r].contained, run[r].head, run[r].repository) IN
                               p.result = report.result /\ p.head = report.head
         \/ /\ p.by = "operator" /\ taskVars' = taskVars
            /\ \E repository \in Repositories : p.result = Judged(tasks, <<>>, main, repository).result
<1>1. reports' # reports
  OBVIOUS
<1>2. \/ \E r \in Runs : PersistReport(r)
      \/ OperatorVerifies
  <2>1. ~UNCHANGED vars
    BY <1>1 DEF vars
  <2>2. ASSUME NEW t \in DOMAIN tasks, Finish(t) \/ Reopen(t) \/ Land(t) PROVE FALSE
    BY <1>1, <2>2 DEF Finish, Reopen, Land, epicVars
  <2>3. ASSUME NEW r \in Runs,
               \/ Preflight(r) \/ CommitContainment(r) \/ ReadMembers(r) \/ RunDies(r)
               \/ \E d \in Dimensions : RecordDimension(r, d)
        PROVE  FALSE
    BY <1>1, <2>3 DEF Preflight, CommitContainment, ReadMembers, RunDies, RecordDimension
  <2>4. ~OperatorRecords
    BY <1>1 DEF OperatorRecords
  <2>5. ~Compare /\ ~CompareEnds /\ ~Disable
    BY <1>1 DEF Compare, CompareEnds, Disable, epicVars
  <2>6. ASSUME NEW u \in Updates,
               UpdateLoads(u) \/ UpdateLists(u) \/ UpdateCompares(u) \/ UpdateJudges(u) \/ UpdateStores(u)
        PROVE  FALSE
    BY <1>1, <2>6 DEF UpdateLoads, UpdateLists, UpdateCompares, UpdateJudges, UpdateStores,
       epicVars
  <2> QED
    BY <2>1, <2>2, <2>3, <2>4, <2>5, <2>6 DEF Next
<1>3. ASSUME NEW rows, NEW contained, NEW head, NEW repository, NEW by,
             Persist(Judged(rows, contained, head, repository), by)
      PROVE  /\ p.by = by /\ p.result = Judged(rows, contained, head, repository).result
             /\ p.head = Judged(rows, contained, head, repository).head
  <2>1. PICK report : report = Judged(rows, contained, head, repository)
    OBVIOUS
  <2>2. p = [by |-> by, head |-> report.head, repository |-> report.repository,
             result |-> report.result, trust |-> report.trust, required |-> report.required]
    BY <1>3, <2>1 DEF Persist
  <2> QED
    BY <2>1, <2>2
<1>4. ASSUME NEW r \in Runs, PersistReport(r)
      PROVE  /\ PersistReport(r) /\ p.by = r
             /\ LET report == Judged(run[r].read, run[r].contained, run[r].head, run[r].repository) IN
                p.result = report.result /\ p.head = report.head
  <2>1. Persist(Judged(run[r].read, run[r].contained, run[r].head, run[r].repository), r)
    BY <1>4 DEF PersistReport
  <2>2. PICK rows, contained, head, repository :
          rows = run[r].read /\ contained = run[r].contained /\ head = run[r].head /\ repository = run[r].repository
    OBVIOUS
  <2>3. Persist(Judged(rows, contained, head, repository), r)
    BY <2>1, <2>2
  <2>4. p.by = r /\ p.result = Judged(rows, contained, head, repository).result
        /\ p.head = Judged(rows, contained, head, repository).head
    BY <1>3, <2>3
  <2> QED
    BY <1>4, <2>2, <2>4
<1>5. ASSUME OperatorVerifies
      PROVE  /\ p.by = "operator" /\ taskVars' = taskVars
             /\ \E repository \in Repositories : p.result = Judged(tasks, <<>>, main, repository).result
  <2>1. PICK repository \in Repositories : Persist(Judged(tasks, <<>>, main, repository), "operator")
    BY <1>5 DEF OperatorVerifies
  <2>2. PICK rows, contained, head : rows = tasks /\ contained = <<>> /\ head = main
    OBVIOUS
  <2>3. Persist(Judged(rows, contained, head, repository), "operator")
    BY <2>1, <2>2
  <2>4. p.by = "operator" /\ p.result = Judged(rows, contained, head, repository).result
    BY <1>3, <2>3
  <2> QED
    BY <1>5, <2>2, <2>4 DEF OperatorVerifies
<1> QED
  BY <1>2, <1>4, <1>5

\* What a report reads of the members.
LEMMA MembersAre ==
  ASSUME NEW rows, NEW contained
  PROVE  /\ DOMAIN Members(rows, contained) = DOMAIN rows
         /\ \A t \in DOMAIN rows :
               /\ Members(rows, contained)[t].state = rows[t].state
               /\ Members(rows, contained)[t].supersedes = rows[t].supersedes
               /\ t \in DOMAIN contained => Members(rows, contained)[t].contained = contained[t]
  BY DEF Members

\* There are finitely many tasks.
LEMMA TasksFinite ==
  ASSUME TasksOK(tasks, Len(history))
  PROVE  IsFiniteSet(DOMAIN tasks)
  BY DeliveryAssumption, FS_Subset DEF DeliveryAssumption, TasksOK

\* Whoever a PASS does not find READY has a READY stand-in.
LEMMA StandInPasses ==
  ASSUME TasksOK(tasks, Len(history)), NEW rows, DOMAIN rows = DOMAIN tasks,
         \A t \in DOMAIN tasks : rows[t].supersedes = tasks[t].supersedes,
         NEW contained, NEW head, NEW repository, Judged(rows, contained, head, repository).result = "PASS",
         NEW t \in DOMAIN tasks, rows[t].state # "READY"
  PROVE  \E s \in DOMAIN tasks : rows[s].state = "READY" /\ Stands(s, t)
<1>1. PICK ms : ms = Members(rows, contained)
  OBVIOUS
<1>2. PICK D : D = DOMAIN tasks /\ D = DOMAIN ms /\ IsFiniteSet(D) /\ t \in D
  BY <1>1, MembersAre, TasksFinite
<1>3. PICK sup : sup = [u \in D |-> tasks[u].supersedes]
  OBVIOUS
<1>4. \A u \in D : ms[u].supersedes = sup[u] /\ ms[u].state = rows[u].state
  BY <1>1, <1>2, <1>3, MembersAre
<1>5. Report(ms, evidence, Dimensions, head, repository).result = "PASS"
  BY <1>1 DEF Judged
<1>6. \A u \in Effective(ms) : ms[u].state = "READY"
  BY <1>5, PassMeans
<1>7. t \notin Effective(ms)
  BY <1>2, <1>4, <1>6
<1>8. PICK w : w = Walk(ms, t)
  OBVIOUS
<1>9. w.end = "terminal" /\ w.at # t
  BY <1>2, <1>7, <1>8 DEF Effective, StandIn
<1>10. PICK C : C = Cardinality(D) /\ C \in Nat
  BY <1>2, FS_CardinalityType
<1>11. PICK s : s = w.at
  OBVIOUS
<1>12. s \in D /\ \E k \in 0..C : Path(sup, D, t, s, k)
  BY <1>2, <1>4, <1>8, <1>10, <1>11, WalkReaches
<1>13. Competing(ms, s) = {}
  BY <1>2, <1>8, <1>9, <1>11, TerminalIs
<1>14. s \in Effective(ms)
  BY <1>2, <1>12, <1>13, TerminalStands
<1>15. rows[s].state = "READY"
  BY <1>4, <1>6, <1>12, <1>14
<1>16. PICK k \in 0..C : Path(sup, D, t, s, k)
  BY <1>12
<1>17. PICK p \in [1..(k + 1) -> D] : /\ p[1] = t /\ p[k + 1] = s
                                      /\ \A i \in 1..k : p[i] \in sup[p[i + 1]]
  BY <1>16 DEF Path
<1>18. k # 0
  BY <1>9, <1>11, <1>17
<1>19. k \in 1..C
  BY <1>10, <1>18
<1>20. ASSUME NEW i \in 1..k PROVE p[i] \in tasks[p[i + 1]].supersedes
  <2>1. i + 1 \in 1..(k + 1)
    OBVIOUS
  <2>2. p[i + 1] \in D
    BY <1>17, <2>1
  <2> QED
    BY <1>3, <1>17, <2>2
<1>21. Stands(s, t)
  BY <1>2, <1>9, <1>10, <1>11, <1>17, <1>19, <1>20 DEF Stands
<1> QED
  BY <1>2, <1>12, <1>15, <1>21

HaveStandIn == \A p \in reports' \ reports : p.result = "PASS" =>
    \A t \in DOMAIN tasks :
        LET rows == IF p.by \in Runs THEN run[p.by].read ELSE tasks IN
        \/ rows[t].state = "READY"
        \/ \E s \in DOMAIN tasks : rows[s].state = "READY" /\ Stands(s, t)

\* A PASS counts every member: one that is not READY has a READY member in
\* its place, reached along SUPERSEDES relationships, for any number of
\* members and however they chain, fork or loop (resolveSupersession).
THEOREM SupersededHaveStandIns == Spec => SupersededHasStandIn
<1>1. ASSUME Inv, [Next]_vars PROVE HaveStandIn
  <2> SUFFICES ASSUME NEW p \in reports' \ reports, p.result = "PASS", NEW t \in DOMAIN tasks, NEW rows,
                      rows = IF p.by \in Runs THEN run[p.by].read ELSE tasks, rows[t].state # "READY"
               PROVE  \E s \in DOMAIN tasks : rows[s].state = "READY" /\ Stands(s, t)
    BY DEF HaveStandIn
  <2>1. TasksOK(tasks, Len(history))
    BY <1>1 DEF Inv, Repository
  <2>2. CASE \E r \in Runs : /\ PersistReport(r) /\ p.by = r
                             /\ LET report == Judged(run[r].read, run[r].contained, run[r].head, run[r].repository) IN
                                p.result = report.result /\ p.head = report.head
    <3>1. PICK r \in Runs : /\ PersistReport(r) /\ p.by = r
                            /\ Judged(run[r].read, run[r].contained, run[r].head, run[r].repository).result = "PASS"
      BY <2>2
    <3>2. run[r].pc = "read" /\ rows = run[r].read
      BY <3>1 DEF PersistReport
    <3>3. ReadOf(run[r], tasks)
      BY <1>1, <3>2 DEF Inv, EpicSound, RunOK
    <3>4. DOMAIN rows = DOMAIN tasks /\ \A u \in DOMAIN tasks : rows[u].supersedes = tasks[u].supersedes
      BY <3>2, <3>3 DEF ReadOf
    <3>5. PICK contained, head, repository : Judged(rows, contained, head, repository).result = "PASS"
      BY <3>1, <3>2
    <3> QED
      BY <2>1, <3>4, <3>5, StandInPasses
  <2>3. CASE p.by = "operator" /\ \E repository \in Repositories : p.result = Judged(tasks, <<>>, main, repository).result
    <3>1. rows = tasks
      BY <2>3, DeliveryAssumption DEF DeliveryAssumption
    <3>2. PICK contained, head, repository : Judged(rows, contained, head, repository).result = "PASS"
      BY <2>3, <3>1
    <3> QED
      BY <2>1, <3>1, <3>2, StandInPasses
  <2> QED
    BY <1>1, <2>2, <2>3, ReportedBy
<1>2. ASSUME Inv, [Next]_vars PROVE [HaveStandIn]_vars
  BY <1>1, <1>2
<1>3. Spec => [][HaveStandIn]_vars
  BY <1>2, AlwaysInv, PTL DEF Spec
<1> QED
  BY <1>3 DEF SupersededHasStandIn, HaveStandIn
-----------------------------------------------------------------------------
MembersInHead == \A p \in reports' \ reports : p.result = "PASS" /\ p.by \in Runs =>
    \A t \in Effective(Members(run[p.by].read, <<>>)) :
        /\ t \in DOMAIN run[p.by].at
        /\ run[p.by].at[t] = tasks[t].verified
        => tasks[t].verified \in history[p.head] \cup squashed

\* When a runner's report passes, each member it counts whose commit it asked
\* git about, and that was not verified anew, is in the head, or was unknown
\* to the clone (runEpicVerification).
THEOREM CheckedMembersAreInHead == Spec => CheckedMembersInHead
<1>1. ASSUME Inv, [Next]_vars PROVE MembersInHead
  <2> SUFFICES ASSUME NEW p \in reports' \ reports, p.result = "PASS", p.by \in Runs,
                      NEW t \in Effective(Members(run[p.by].read, <<>>)),
                      t \in DOMAIN run[p.by].at, run[p.by].at[t] = tasks[t].verified
               PROVE  tasks[t].verified \in history[p.head] \cup squashed
    BY DEF MembersInHead
  <2>1. TasksOK(tasks, Len(history))
    BY <1>1 DEF Inv, Repository
  <2>2. p.by # "operator"
    BY DeliveryAssumption DEF DeliveryAssumption
  <2>3. PICK r \in Runs : /\ PersistReport(r) /\ p.by = r
                          /\ LET report == Judged(run[r].read, run[r].contained, run[r].head, run[r].repository) IN
                             p.result = report.result /\ p.head = report.head
    BY <1>1, <2>2, ReportedBy
  <2>4. PICK x : x = run[r]
    OBVIOUS
  <2>5. RunOK(x, tasks, history, squashed) /\ x.pc = "read"
    BY <1>1, <2>3, <2>4 DEF Inv, EpicSound, PersistReport
  <2>6. ReadOf(x, tasks) /\ Asked(x, history, squashed)
    BY <2>5 DEF RunOK
  <2>7. PICK ms : ms = Members(x.read, x.contained)
    OBVIOUS
  <2>8. Report(ms, evidence, Dimensions, x.head, x.repository).result = "PASS"
        /\ p.head = Report(ms, evidence, Dimensions, x.head, x.repository).head
    BY <2>3, <2>4, <2>7 DEF Judged
  <2>9. p.head = x.head
    BY <2>8, ReportIs
  <2>10. PICK ns : ns = Members(x.read, <<>>)
    OBVIOUS
  <2>11. SameGraph(ns, ms) /\ DOMAIN ns = DOMAIN tasks
    BY <2>6, <2>7, <2>10, MembersAre DEF SameGraph, ReadOf
  <2>12. Effective(ns) = Effective(ms)
    BY <2>1, <2>11, SameEffective, TasksFinite
  <2>13. t \in Effective(ms)
    BY <2>3, <2>4, <2>10, <2>12
  <2>14. ms[t].contained # "no"
    BY <2>8, <2>13, PassMeans
  <2>15. t \in DOMAIN x.read
    BY <2>7, <2>13, MembersAre DEF Effective
  <2>16. t \in DOMAIN x.at /\ x.at[t] = tasks[t].verified
    BY <2>3, <2>4
  <2>17. CASE t \in DOMAIN x.contained
    <3>1. x.contained[t] # "no"
      BY <2>7, <2>14, <2>15, <2>17, MembersAre
    <3> QED
      BY <2>6, <2>9, <2>16, <2>17, <3>1 DEF Asked
  <2>18. CASE t \notin DOMAIN x.contained
    BY <2>6, <2>16, <2>18 DEF Asked
  <2> QED
    BY <2>17, <2>18
<1>2. ASSUME Inv, [Next]_vars PROVE [MembersInHead]_vars
  BY <1>1, <1>2
<1>3. Spec => [][MembersInHead]_vars
  BY <1>2, AlwaysInv, PTL DEF Spec
<1> QED
  BY <1>3 DEF CheckedMembersInHead, MembersInHead
-----------------------------------------------------------------------------
\* A request that was judged is done only by storing its row.
LEMMA OnlyStores ==
  ASSUME Inv, [Next]_vars, NEW u \in Updates, update[u].pc = "judged", update'[u].pc = "over"
  PROVE  UpdateStores(u)
<1>1. DOMAIN update = Updates
  BY DEF Inv, MissionSound
<1>2. update' # update
  OBVIOUS
<1>3. ASSUME NEW v \in Updates, UpdateLoads(v) \/ UpdateLists(v) \/ UpdateCompares(v) \/ UpdateJudges(v)
      PROVE  FALSE
  <2>1. v # u
    BY <1>3 DEF UpdateLoads, UpdateLists, UpdateCompares, UpdateJudges
  <2>2. \E x : update' = [update EXCEPT ![v] = x]
    BY <1>3 DEF UpdateLoads, UpdateLists, UpdateCompares, UpdateJudges, To
  <2>3. update'[u] = update[u]
    BY <1>1, <2>1, <2>2
  <2> QED
    BY <2>3
<1>4. ASSUME NEW v \in Updates, UpdateStores(v) PROVE UpdateStores(u)
  <2>1. CASE v = u
    BY <1>4, <2>1
  <2>2. CASE v # u
    <3>1. \E x : update' = [update EXCEPT ![v] = x]
      BY <1>4 DEF UpdateStores
    <3>2. update'[u] = update[u]
      BY <1>1, <2>2, <3>1
    <3> QED
      BY <3>2
  <2> QED
    BY <2>1, <2>2
<1>5. ~UNCHANGED vars
  BY <1>2 DEF vars
<1>6. ASSUME NEW t \in DOMAIN tasks, Finish(t) \/ Reopen(t) \/ Land(t) PROVE FALSE
  BY <1>2, <1>6 DEF Finish, Reopen, Land, missionVars
<1>7. ASSUME NEW r \in Runs,
             \/ Preflight(r) \/ CommitContainment(r) \/ ReadMembers(r) \/ PersistReport(r) \/ RunDies(r)
             \/ \E d \in Dimensions : RecordDimension(r, d)
      PROVE  FALSE
  BY <1>2, <1>7 DEF Preflight, CommitContainment, ReadMembers, PersistReport, RunDies,
     RecordDimension, missionVars
<1>8. ~OperatorRecords /\ ~OperatorVerifies
  BY <1>2 DEF OperatorRecords, OperatorVerifies, missionVars
<1>9. ~Compare /\ ~CompareEnds /\ ~Disable
  BY <1>2 DEF Compare, CompareEnds, Disable
<1> QED
  BY <1>3, <1>4, <1>5, <1>6, <1>7, <1>8, <1>9 DEF Next

Judging == \A u \in Updates :
    update[u].pc = "judged" /\ update'[u].pc = "over" /\ update[u].tasks # <<>>
    /\ mission'.status = "ACHIEVED" =>
        /\ Len(mission'.tasks) = Len(update[u].tasks)
        /\ \A i \in DOMAIN update[u].tasks : update[u].tasks[i].state = "READY"
        /\ update[u].place.target.active
        /\ mission'.kind = "PARITY" =>
               \E j \in DOMAIN comparisons :
                   /\ comparisons[j].verdict = "PROVEN"
                   /\ mission'.pin \in {"none", comparisons[j].pin}
                   /\ comparisons[j].commit = update[u].parity.commit
                   /\ update[u].head \in {0, comparisons[j].commit}

\* A request that makes a mission ACHIEVED found its tasks READY, its target
\* active and, for PARITY, a PROVEN comparison of its pin at the head it read
\* (missionUpdate).
THEOREM AchievedIsAsJudged == Spec => AchievedAsJudged
<1>1. ASSUME Inv, [Next]_vars PROVE Judging
  <2> SUFFICES ASSUME NEW u \in Updates, update[u].pc = "judged", update'[u].pc = "over", update[u].tasks # <<>>
               PROVE  /\ Len(mission'.tasks) = Len(update[u].tasks)
                      /\ \A i \in DOMAIN update[u].tasks : update[u].tasks[i].state = "READY"
                      /\ update[u].place.target.active
                      /\ mission'.kind = "PARITY" =>
                             \E j \in DOMAIN comparisons :
                                 /\ comparisons[j].verdict = "PROVEN"
                                 /\ mission'.pin \in {"none", comparisons[j].pin}
                                 /\ comparisons[j].commit = update[u].parity.commit
                                 /\ update[u].head \in {0, comparisons[j].commit}
    BY DEF Judging
  <2>1. PICK x : x = update[u]
    OBVIOUS
  <2>2. mission' = x.row
    BY <1>1, <2>1, OnlyStores DEF UpdateStores
  <2>3. UpdateOK(x, DOMAIN tasks, comparisons) /\ x.pc = "judged" /\ x.tasks # <<>>
    BY <1>1, <2>1 DEF Inv, MissionSound
  <2>4. Listed(x) /\ Found(x.parity, x.row.pin, comparisons) /\ Complete(x.row, Seen(x, x.head))
        /\ MissionOK(x.row, DOMAIN tasks)
    BY <2>3 DEF UpdateOK
  <2>5. PICK e : e = Seen(x, x.head)
    OBVIOUS
  <2>6. e.target = x.place.target /\ e.tasks = x.tasks /\ e.missing = FALSE /\ e.parity = x.parity /\ e.head = x.head
    BY <2>5 DEF Seen
  <2>7. Views(e)
    BY <2>4, <2>6 DEF Views, Listed
  <2>8. /\ x.place.target.active
        /\ \A i \in DOMAIN x.tasks : x.tasks[i].state = "READY"
        /\ x.row.kind = "PARITY" => Covers(x.parity, x.head)
    BY <2>4, <2>5, <2>6, <2>7, CompleteMeans
  <2>9. Len(x.row.tasks) = Len(x.tasks)
    <3>1. PICK s : s = x.row.tasks /\ s \in Seq(DOMAIN tasks)
      BY <2>4 DEF MissionOK, MissionRows
    <3>2. PICK q : q = x.tasks /\ q \in Seq(TaskView) /\ DOMAIN q = DOMAIN s
      BY <2>4, <3>1 DEF Listed
    <3>3. Len(s) \in Nat /\ Len(q) \in Nat /\ 1..Len(s) = 1..Len(q)
      BY <3>1, <3>2
    <3> QED
      BY <3>1, <3>2, <3>3
  <2>10. x.row.kind = "PARITY" =>
            \E j \in DOMAIN comparisons :
                /\ comparisons[j].verdict = "PROVEN"
                /\ x.row.pin \in {"none", comparisons[j].pin}
                /\ comparisons[j].commit = x.parity.commit
                /\ x.head \in {0, comparisons[j].commit}
    BY <2>4, <2>8 DEF Covers, Found
  <2> QED
    BY <2>1, <2>2, <2>8, <2>9, <2>10
<1>2. ASSUME Inv, [Next]_vars PROVE [Judging]_vars
  BY <1>1, <1>2
<1>3. Spec => [][Judging]_vars
  BY <1>2, AlwaysInv, PTL DEF Spec
<1> QED
  BY <1>3 DEF AchievedAsJudged, Judging
=============================================================================
