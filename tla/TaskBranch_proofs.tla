-------------------------- MODULE TaskBranch_proofs --------------------------
(***************************************************************************)
(* The branches of a task, for any paths, payloads, number of jobs and     *)
(* amount of trouble.                                                      *)
(*                                                                         *)
(* Inv has five parts.  Graph: descent is an order, and outside the past   *)
(* of the default branch the past of a commit is a line, so two commits    *)
(* have one merge base.  Published: what origin has had on a branch fits   *)
(* it, and the task branch's head is behind nothing origin has had there.  *)
(* Typed: the rows.  Rows: what each job, run and runner may claim about   *)
(* the commits it names, the runner step by step.  Secrets: a commit that  *)
(* waits for its push to the task branch is seen by nobody, which is why a *)
(* branch found diverged was really rewritten.                             *)
(*                                                                         *)
(* The repository's lemmas come first, then those that carry a sound row   *)
(* to the next state, then one lemma per action, then the theorems.        *)
(***************************************************************************)
EXTENDS TaskBranch, WellFoundedInduction, TLAPS

Branches == Seq(Nat)
Commits == [parent : Nat, past : SUBSET Nat, tree : [Paths -> Contents]]
TransferErrors == {"NOT_MERGED", "UNREACHABLE", "NO_COMMITS", "CONFLICTS", "RESOLUTIONS", "REVERTED"}
Errors == {"none", "DIVERGED", "BASE_MOVED", "UNCLEAN", "NO_DIFF", "PUSH_FAILED", "GATE", "STEP"}
          \cup TransferErrors
JobRows == [kind : {"IMPLEMENTATION", "REBASE"},
            status : InFlight \cup {"SUCCEEDED", "FAILED", "BLOCKED", "CANCELLED"},
            branch : Branches, prefix : Branches, commit : Nat, source : Nat, original : Nat,
            wanted : SUBSET Paths, pinned : Nat, error : Errors]
RunRows == [status : {"RUNNING", "SUCCEEDED", "FAILED", "BLOCKED"}, base : Nat,
            branch : Branches, commit : Nat]
Steps == {"checkout", "work", "record", "push", "publish", "run", "gate", "finish", "exited"}
RunnerRows == [step : Steps, branch : Branches, commit : Nat, at : Nat, known : SUBSET Nat,
               clones : Nat, base : Nat, made : Nat, on : Branches, seen : Nat,
               way : {"PUSH", "LEASE", "INTEGRATED"}]

Past(c) == commits[c].past
Parent(c) == commits[c].parent

\* Outside the past of the default branch, one of the two descends from the other.
Comparable(a, b) == a \in Past(b) \/ b \in Past(a) \/ (a \in Past(main) /\ b \in Past(main))
HasTop(c, d) == \E t \in Past(c) \cap Past(d) : Past(c) \cap Past(d) \subseteq Past(t)

\* Every commit descends from its parent, and descent is transitive.  Outside
\* the past of the default branch any two commits that one commit descends from
\* descend from each other, so git finds one merge base of any two commits.
Graph ==
    /\ commits \in Seq(Commits) /\ main \in Ids
    /\ \A c \in Ids : /\ Past(c) \subseteq 1..c /\ c \in Past(c)
                      /\ Parent(c) \in 0..(c - 1) /\ (Parent(c) # 0 => Parent(c) \in Past(c))
    /\ \A c \in Ids : \A a \in Past(c) : Past(a) \subseteq Past(c)
    /\ \A c \in Ids : \A a, b \in Past(c) : Comparable(a, b)
    /\ \A c, d \in Ids : HasTop(c, d)

\* A commit that may be on branch b: it adds one commit to its parent; on a
\* transfer's branch it descends properly from the base the branch is named for.
Fits(b, c) ==
    /\ b \in Branches /\ c \in Ids /\ Parent(c) \in Ids /\ Past(c) = Past(Parent(c)) \cup {c}
    /\ b # TaskBranchName => Last(b) \in Past(main) /\ Last(b) \in Past(Parent(c))

\* The head of the task branch is never behind anything origin has had there.
Published ==
    /\ \A b \in DOMAIN origin : <<b, origin[b]>> \in carried
    /\ \A x \in carried : x = <<x[1], x[2]>> /\ Fits(x[1], x[2])
    /\ TaskBranchName \in DOMAIN origin =>
          \A c \in Ids : (<<TaskBranchName, c>> \in carried /\ c # origin[TaskBranchName])
                            => origin[TaskBranchName] \notin Past(c)

\* What CommitWasPublished says of a branch and a commit, and what more is true
\* of the ones later jobs start from: on a transfer's branch, the base itself or
\* one commit on top of it.
WasPublished(b, c) ==
    c # 0 => /\ c \in Ids
             /\ <<b, c>> \in carried
                \/ (b # TaskBranchName /\ c = Last(b) /\ c \in Past(main))
OneAbove(b, c) ==
    (c # 0 /\ b # TaskBranchName) =>
        Last(b) \in Ids /\ (c = Last(b) \/ Past(c) = Past(Last(b)) \cup {c})
Rewritten(b) ==
    \E c, d \in Ids : /\ <<b, c>> \in carried /\ <<b, d>> \in carried
                      /\ ~IsAncestor(commits, c, d) /\ ~IsAncestor(commits, d, c)

\* What TransferKeepsBothSides says of a branch and a commit of a job.
KeepsBothSides(job, b, c) ==
    (b # job.prefix /\ c # 0) =>
        LET base == Last(b)
            fork == MergeBase(commits, base, job.source)
            Tree(d) == commits[d].tree
        IN  /\ base \in Ids /\ job.source \in Ids /\ c \in Ids
            /\ \A path \in Paths :
                  /\ Tree(job.source)[path] = Tree(fork)[path] => Tree(c)[path] = Tree(base)[path]
                  /\ Tree(base)[path] = Tree(fork)[path] => Tree(c)[path] = Tree(job.source)[path]
                  /\ Tree(c)[path] \notin {Tree(base)[path], Tree(job.source)[path]}
                       => Tree(c)[path] = "resolved" /\ path \in job.wanted

JobSound(job) ==
    /\ job.kind = "IMPLEMENTATION" => job.prefix = TaskBranchName
    /\ job.kind = "REBASE" => job.source \in Ids
    /\ job.status = "QUEUED" => job.branch = job.prefix /\ OneAbove(job.branch, job.commit)
    /\ WasPublished(job.branch, job.commit)
    /\ KeepsBothSides(job, job.branch, job.commit)
    /\ job.error = "DIVERGED" => Rewritten(job.branch)

RunSound(run) ==
    /\ run.base \in Ids \cup {0} /\ run.commit \in Ids \cup {0}
    /\ run.status = "SUCCEEDED" =>
          WasPublished(run.branch, run.commit) /\ OneAbove(run.branch, run.commit)

Unpushed == {"record", "push"}
Pushed == {"publish", "run", "gate", "finish"}

RunnerSound(job, r) ==
    /\ WasPublished(r.branch, r.commit) /\ OneAbove(r.branch, r.commit)
    /\ KeepsBothSides(job, r.branch, r.commit)
    /\ r.known \subseteq Ids
    /\ r.step \in {"checkout", "work"} => r.way = "PUSH"
    /\ (r.step \in {"work", "record"} \/ (r.step = "checkout" /\ r.clones > 0)) => r.branch = job.prefix
    /\ r.step = "work" => r.at \in Ids
    /\ r.step \in Unpushed \cup Pushed =>
          /\ r.made \in Ids /\ r.base \in Ids
          /\ IF job.kind = "IMPLEMENTATION" THEN r.on = TaskBranchName /\ r.way = "PUSH"
             ELSE r.on # TaskBranchName /\ r.on # job.prefix
          /\ OneAbove(r.on, r.made) /\ KeepsBothSides(job, r.on, r.made)
    /\ r.step \in Unpushed =>
          IF r.way = "INTEGRATED" THEN r.made = Last(r.on) /\ r.made \in Past(main)
          ELSE Fits(r.on, r.made)
    /\ (r.step \in Unpushed /\ r.way = "LEASE") =>
          r.seen \in Ids /\ ~SameTransfer(commits[r.seen], commits[r.made])
    /\ r.step \in {"push"} \cup Pushed => r.branch = r.on
    /\ r.step \in Pushed => WasPublished(r.on, r.made)

\* Runner j holds a commit of the task branch that nobody else has seen.
Holds(j) == runners[j].step \in Unpushed /\ runners[j].on = TaskBranchName
Unseen(c) ==
    /\ c # main
    /\ \A b \in DOMAIN origin : origin[b] # c
    /\ \A x \in carried : x[2] # c
    /\ \A d \in Ids \ {c} : c \notin Past(d) /\ Parent(d) # c
Secret(j) ==
    LET c == runners[j].made
    IN  /\ Unseen(c)
        /\ \A k \in DOMAIN jobs \ {j} : /\ runners[k].step = "work" => runners[k].at # c
                                        /\ runners[k].step \in Unpushed => runners[k].made # c

Typed ==
    /\ task \in {"PLANNED", "IMPLEMENTING", "READY", "BLOCKED"}
    /\ manifest \in Ids \cup {0}
    /\ jobs \in Seq(JobRows) /\ runs \in Seq(RunRows) /\ runners \in Seq(RunnerRows)
    /\ Len(runs) = Len(jobs) /\ Len(runners) = Len(jobs)
    /\ outside \in Nat

Rows == \A j \in DOMAIN jobs : JobSound(jobs[j]) /\ RunSound(runs[j]) /\ RunnerSound(jobs[j], runners[j])
Secrets == \A j \in DOMAIN jobs : Holds(j) => Secret(j)

Inv == Graph /\ Published /\ Typed /\ Rows /\ Secrets
-----------------------------------------------------------------------------
\* A set of numbers up to n has a greatest one (its complement in n a least).
LEMMA Greatest ==
  ASSUME NEW n \in Nat, NEW S \in SUBSET (0..n), S # {}
  PROVE  Max(S) \in S /\ \A x \in S : x <= Max(S)
<1> DEFINE T == {n - x : x \in S}
<1>1. \A x \in S : x \in Nat /\ x <= n /\ n - x \in Nat
  OBVIOUS
<1>2. T \subseteq Nat /\ T # {}
  BY <1>1
<1>3. PICK m \in T : \A y \in T : <<y, m>> \notin OpToRel(<, Nat)
  BY <1>2, WFMin, NatLessThanWellFounded
<1>4. PICK x \in S : m = n - x
  OBVIOUS
<1>5. ASSUME NEW y \in S PROVE x >= y
  <2>1. n - y \in T /\ ~(n - y < n - x)
    BY <1>2, <1>3, <1>4 DEF OpToRel
  <2> QED
    BY <1>1, <2>1
<1> QED
  BY <1>1, <1>5 DEF Max

\* What SelectLastInSeq returns: 0, or an index where the test holds.
LEMMA Selected ==
  ASSUME NEW seq, Len(seq) \in Nat, NEW I \in SUBSET (1..Len(seq))
  PROVE  LET last == IF I # {} THEN Max(I) ELSE 0
         IN  last = 0 \/ last \in I
<1>1. I \in SUBSET (0..Len(seq))
  OBVIOUS
<1>2. I # {} => Max(I) \in I
  BY <1>1, Greatest
<1> QED
  BY <1>2

-----------------------------------------------------------------------------
\* A commit appended is the last one; the others keep their numbers.
LEMMA Appended ==
  ASSUME Graph, NEW row \in Commits, commits' = Append(commits, row)
  PROVE  /\ Ids = 1..Len(commits) /\ Len(commits) \in Nat /\ NextId = Len(commits) + 1
         /\ Ids' = 1..NextId /\ commits' \in Seq(Commits)
         /\ commits'[NextId] = row /\ \A c \in Ids : commits'[c] = commits[c]
  BY DEF Graph, Ids, NextId

\* Commits are numbered from 1 on, and descend from commits.
LEMMA PastIsBelow ==
  ASSUME Graph
  PROVE  /\ NextId \in Nat /\ NextId # 0 /\ Ids = 1..Len(commits) /\ NextId \notin Ids /\ 0 \notin Ids
         /\ \A c \in Ids : c \in Nat /\ c # 0 /\ Past(c) \subseteq Nat /\ Past(c) \subseteq Ids
<1>1. Len(commits) \in Nat /\ Ids = 1..Len(commits)
  BY DEF Graph, Ids
<1>2. \A c \in Ids : Past(c) \subseteq 1..c
  BY DEF Graph
<1> QED
  BY <1>1, <1>2 DEF NextId

\* What a commit holds.
LEMMA TreeOf ==
  ASSUME Graph, NEW c \in Ids
  PROVE  commits[c].tree \in [Paths -> Contents]
<1>1. commits[c] \in Commits
  BY DEF Graph, Ids
<1> QED
  BY <1>1 DEF Commits

\* A commit on top of one parent (git commit).
LEMMA CommitOn ==
  ASSUME Graph, NEW q \in Ids, NEW tree \in [Paths -> Contents]
  PROVE  /\ Commit(q, {}, tree) = [parent |-> q, tree |-> tree, past |-> Past(q) \cup {NextId}]
         /\ Commit(q, {}, tree) \in Commits
<1>1. Commit(q, {}, tree) = [parent |-> q, tree |-> tree, past |-> Past(q) \cup {NextId}]
  <2>1. UNION {commits[c].past : c \in {q} \cup {}} = Past(q)
    BY DEF Past
  <2> QED
    BY <2>1 DEF Commit
<1> QED
  BY <1>1, PastIsBelow DEF Commits

\* A commit of two parents (git merge --no-ff).
LEMMA CommitOnBoth ==
  ASSUME Graph, NEW q \in Ids, NEW o \in Ids, NEW tree \in [Paths -> Contents]
  PROVE  /\ Commit(q, {o}, tree) = [parent |-> q, tree |-> tree, past |-> (Past(q) \cup Past(o)) \cup {NextId}]
         /\ Commit(q, {o}, tree) \in Commits
<1>1. Commit(q, {o}, tree) = [parent |-> q, tree |-> tree, past |-> (Past(q) \cup Past(o)) \cup {NextId}]
  <2>1. UNION {commits[c].past : c \in {q} \cup {o}} = Past(q) \cup Past(o)
    BY DEF Past
  <2> QED
    BY <2>1 DEF Commit
<1>2. (Past(q) \cup Past(o)) \cup {NextId} \in SUBSET Nat /\ q \in Nat
  BY PastIsBelow
<1>3. ASSUME NEW past \in SUBSET Nat PROVE [parent |-> q, tree |-> tree, past |-> past] \in Commits
  BY <1>2 DEF Commits
<1> QED
  BY <1>1, <1>2, <1>3

\* A commit on top of one commit, which the default branch may move to.
LEMMA GraphLinear ==
  ASSUME Graph, NEW q \in Ids, NEW tree \in [Paths -> Contents],
         commits' = Append(commits, Commit(q, {}, tree)),
         main' = main \/ (main' = NextId /\ q = main)
  PROVE  /\ Graph' /\ Past(main) \subseteq Past(main)'
         /\ Ids' = Ids \cup {NextId} /\ NextId \notin Ids /\ \A c \in Ids : commits'[c] = commits[c]
         /\ commits'[NextId].past = Past(q) \cup {NextId} /\ commits'[NextId].parent = q
         /\ commits'[NextId].tree = tree
<1>0. PICK n : n = NextId
  OBVIOUS
<1>1. /\ Ids = 1..Len(commits) /\ Len(commits) \in Nat /\ n = Len(commits) + 1
      /\ Ids' = 1..n /\ commits' \in Seq(Commits) /\ \A c \in Ids : commits'[c] = commits[c]
      /\ commits'[n] = [parent |-> q, tree |-> tree, past |-> Past(q) \cup {n}]
  BY <1>0, CommitOn, Appended
<1>2. /\ Ids' = Ids \cup {n} /\ n \notin Ids /\ n \in Nat
  BY <1>1
<1>3. \A c \in Ids : Past(c)' = Past(c) /\ Parent(c)' = Parent(c)
  BY <1>1 DEF Past, Parent
<1>4. Past(n)' = Past(q) \cup {n} /\ Parent(n)' = q
  BY <1>1 DEF Past, Parent
<1>5. main' \in Ids' /\ Past(main) \subseteq Past(main)' /\ Past(main)' \subseteq Past(main) \cup {n}
  <2>1. main \in Ids
    BY DEF Graph
  <2>2. CASE main' = main
    BY <1>2, <1>3, <2>1, <2>2 DEF Past
  <2>3. CASE main' = NextId /\ q = main
    BY <1>2, <1>4, <2>1, <2>3, <1>0 DEF Past
  <2> QED
    BY <2>2, <2>3
<1>6. \A c \in Ids : \A a \in Past(c) : a \in Ids
  BY <1>1 DEF Graph
<1>7. \A c \in Ids' : /\ Past(c)' \subseteq 1..c /\ c \in Past(c)'
                      /\ Parent(c)' \in 0..(c - 1) /\ (Parent(c)' # 0 => Parent(c)' \in Past(c)')
  <2>1. \A c \in Ids : /\ Past(c) \subseteq 1..c /\ c \in Past(c)
                       /\ Parent(c) \in 0..(c - 1) /\ (Parent(c) # 0 => Parent(c) \in Past(c))
    BY DEF Graph
  <2>2. Past(n)' \subseteq 1..n /\ n \in Past(n)' /\ Parent(n)' \in 0..(n - 1) /\ Parent(n)' \in Past(n)'
    BY <1>1, <1>4, <2>1
  <2> QED
    BY <1>2, <1>3, <2>1, <2>2
<1>8. \A c \in Ids' : \A a \in Past(c)' : Past(a)' \subseteq Past(c)'
  <2>1. \A c \in Ids : \A a \in Past(c) : Past(a) \subseteq Past(c)
    BY DEF Graph
  <2> QED
    BY <1>2, <1>3, <1>4, <1>6, <2>1
<1>9. \A c \in Ids' : \A a, b \in Past(c)' : Comparable(a, b)'
  <2>1. \A c \in Ids : \A a, b \in Past(c) : Comparable(a, b)
    BY DEF Graph
  <2>2. \A c \in Ids : \A a, b \in Past(c)' : Comparable(a, b)'
    BY <1>3, <1>5, <1>6, <2>1 DEF Comparable
  <2>3. \A a, b \in Past(n)' : Comparable(a, b)'
    BY <1>3, <1>4, <1>5, <1>6, <2>1 DEF Comparable
  <2> QED
    BY <1>2, <2>2, <2>3
<1>10. \A c, d \in Ids' : HasTop(c, d)'
  <2>1. \A c, d \in Ids : HasTop(c, d)
    BY DEF Graph, HasTop
  <2>2. ASSUME NEW c \in Ids, NEW d \in Ids PROVE HasTop(c, d)'
    BY <1>3, <1>6, <2>1 DEF HasTop
  <2>3. ASSUME NEW c \in Ids PROVE HasTop(c, n)' /\ HasTop(n, c)'
    <3>1. n \notin Past(c)
      BY <1>2, <1>6
    <3>2. PICK t \in Past(c) \cap Past(q) : Past(c) \cap Past(q) \subseteq Past(t)
      BY <2>1 DEF HasTop
    <3>3. Past(c)' \cap Past(n)' = Past(c) \cap Past(q) /\ Past(t)' = Past(t)
      BY <1>3, <1>4, <1>6, <3>1, <3>2
    <3> QED
      BY <3>2, <3>3 DEF HasTop
  <2>4. HasTop(n, n)'
    BY <1>4 DEF HasTop
  <2> QED
    BY <1>2, <2>2, <2>3, <2>4
<1>11. Graph'
  BY <1>1, <1>5, <1>7, <1>8, <1>9, <1>10 DEF Graph, HasTop
<1> QED
  BY <1>0, <1>1, <1>2, <1>5, <1>11

\* A merge of commit o into the default branch.
LEMMA GraphMerge ==
  ASSUME Graph, NEW o \in Ids, NEW tree \in [Paths -> Contents],
         commits' = Append(commits, Commit(main, {o}, tree)), main' = NextId
  PROVE  /\ Graph' /\ Past(main) \subseteq Past(main)'
         /\ Ids' = Ids \cup {NextId} /\ NextId \notin Ids /\ \A c \in Ids : commits'[c] = commits[c]
         /\ commits'[NextId].past = (Past(main) \cup Past(o)) \cup {NextId}
         /\ commits'[NextId].parent = main
<1>0. PICK n, m : n = NextId /\ m = main /\ m \in Ids
  BY DEF Graph
<1>1. /\ Ids = 1..Len(commits) /\ Len(commits) \in Nat /\ n = Len(commits) + 1
      /\ Ids' = 1..n /\ commits' \in Seq(Commits) /\ \A c \in Ids : commits'[c] = commits[c]
      /\ commits'[n] = [parent |-> m, tree |-> tree, past |-> (Past(m) \cup Past(o)) \cup {n}]
  <2>1. /\ Commit(m, {o}, tree) = [parent |-> m, tree |-> tree, past |-> (Past(m) \cup Past(o)) \cup {n}]
        /\ Commit(m, {o}, tree) \in Commits
    BY <1>0, CommitOnBoth
  <2> QED
    BY <1>0, <2>1, Appended
<1>2. /\ Ids' = Ids \cup {n} /\ n \notin Ids /\ n \in Nat
  BY <1>1
<1>3. \A c \in Ids : Past(c)' = Past(c) /\ Parent(c)' = Parent(c)
  BY <1>1 DEF Past, Parent
<1>4. Past(n)' = (Past(m) \cup Past(o)) \cup {n} /\ Parent(n)' = m
  BY <1>1 DEF Past, Parent
<1>5. main' = n /\ n \in Ids' /\ Past(main)' = Past(n)' /\ Past(main) = Past(m)
  BY <1>0, <1>2 DEF Past
<1>6. \A c \in Ids : \A a \in Past(c) : a \in Ids
  BY PastIsBelow
<1>7. \A c \in Ids' : /\ Past(c)' \subseteq 1..c /\ c \in Past(c)'
                      /\ Parent(c)' \in 0..(c - 1) /\ (Parent(c)' # 0 => Parent(c)' \in Past(c)')
  <2>1. \A c \in Ids : /\ Past(c) \subseteq 1..c /\ c \in Past(c)
                       /\ Parent(c) \in 0..(c - 1) /\ (Parent(c) # 0 => Parent(c) \in Past(c))
    BY DEF Graph
  <2>2. Past(n)' \subseteq 1..n /\ n \in Past(n)' /\ Parent(n)' \in 0..(n - 1) /\ Parent(n)' \in Past(n)'
    BY <1>0, <1>1, <1>4, <2>1
  <2> QED
    BY <1>2, <1>3, <2>1, <2>2
<1>8. \A c \in Ids' : \A a \in Past(c)' : Past(a)' \subseteq Past(c)'
  <2>1. \A c \in Ids : \A a \in Past(c) : Past(a) \subseteq Past(c)
    BY DEF Graph
  <2> QED
    BY <1>0, <1>2, <1>3, <1>4, <1>6, <2>1
<1>9. \A c \in Ids' : \A a, b \in Past(c)' : Comparable(a, b)'
  <2>1. \A c \in Ids : \A a, b \in Past(c) : a \in Past(b) \/ b \in Past(a) \/ (a \in Past(m) /\ b \in Past(m))
    BY <1>5 DEF Graph, Comparable
  <2>2. \A c \in Ids : \A a, b \in Past(c)' : a \in Past(b)' \/ b \in Past(a)' \/ (a \in Past(n)' /\ b \in Past(n)')
    BY <1>3, <1>4, <1>6, <2>1
  <2> QED
    BY <1>2, <1>5, <2>2 DEF Comparable
<1>10. \A c, d \in Ids' : HasTop(c, d)'
  <2>1. \A c, d \in Ids : HasTop(c, d)
    BY DEF Graph, HasTop
  <2>2. ASSUME NEW c \in Ids, NEW d \in Ids PROVE HasTop(c, d)'
    BY <1>3, <1>6, <2>1 DEF HasTop
  <2>3. ASSUME NEW c \in Ids PROVE HasTop(c, n)' /\ HasTop(n, c)'
    <3>1. n \notin Past(c)
      BY <1>2, <1>6
    <3>2. PICK s \in Past(c) \cap Past(m) : Past(c) \cap Past(m) \subseteq Past(s)
      BY <1>0, <2>1 DEF HasTop
    <3>3. PICK t \in Past(c) \cap Past(o) : Past(c) \cap Past(o) \subseteq Past(t)
      BY <2>1 DEF HasTop
    <3>4. s \in Ids /\ t \in Ids /\ Past(s)' = Past(s) /\ Past(t)' = Past(t)
      BY <1>3, <1>6, <3>2, <3>3
    <3>5. Past(c)' \cap Past(n)' = (Past(c) \cap Past(m)) \cup (Past(c) \cap Past(o))
      BY <1>3, <1>4, <3>1
    <3>6. \/ t \in Past(s) \/ s \in Past(t) \/ (s \in Past(m) /\ t \in Past(m))
      BY <1>0, <3>2, <3>3 DEF Graph, Comparable
    <3>7. (t \in Past(s) => Past(t) \subseteq Past(s)) /\ (s \in Past(t) => Past(s) \subseteq Past(t))
      BY <3>4 DEF Graph
    <3>8. CASE t \in Past(s)
      BY <3>2, <3>3, <3>4, <3>5, <3>7, <3>8 DEF HasTop
    <3>9. CASE s \in Past(t)
      BY <3>2, <3>3, <3>4, <3>5, <3>7, <3>9 DEF HasTop
    <3>10. CASE t \in Past(m)
      <4>1. t \in Past(s)
        BY <3>2, <3>3, <3>10
      <4> QED
        BY <4>1, <3>8
    <3> QED
      BY <3>6, <3>8, <3>9, <3>10
  <2>4. HasTop(n, n)'
    BY <1>4 DEF HasTop
  <2> QED
    BY <1>2, <2>2, <2>3, <2>4
<1>11. Graph'
  BY <1>1, <1>5, <1>7, <1>8, <1>9, <1>10 DEF Graph, HasTop
<1> QED
  BY <1>0, <1>1, <1>2, <1>4, <1>5, <1>11

\* git finds a merge base of any two commits.
LEMMA MergeBaseExists ==
  ASSUME Graph, NEW a \in Ids, NEW c \in Ids
  PROVE  /\ MergeBase(commits, a, c) \in Ids
         /\ MergeBase(commits, a, c) \in Past(a) \cap Past(c)
         /\ Past(a) \cap Past(c) \subseteq Past(MergeBase(commits, a, c))
<1>1. PICK t \in Past(a) \cap Past(c) : Past(a) \cap Past(c) \subseteq Past(t)
  BY DEF Graph, HasTop
<1>2. /\ MergeBase(commits, a, c) \in Past(a) \cap Past(c)
      /\ Past(a) \cap Past(c) \subseteq Past(MergeBase(commits, a, c))
  BY <1>1 DEF MergeBase, Past
<1> QED
  BY <1>2, PastIsBelow

\* A new commit changes no merge base of two others.
LEMMA MergeBaseStays ==
  ASSUME Graph, Ids \subseteq Ids', \A c \in Ids : commits'[c] = commits[c],
         NEW a \in Ids, NEW c \in Ids
  PROVE  MergeBase(commits', a, c) = MergeBase(commits, a, c)
<1> DEFINE Common == Past(a) \cap Past(c)
<1>1. \A m \in Common : commits'[m] = commits[m]
  BY PastIsBelow
<1>2. commits[a].past \cap commits[c].past = Common /\ commits'[a].past \cap commits'[c].past = Common
  BY DEF Past
<1>3. \A m : (m \in Common /\ Common \subseteq commits[m].past) <=> (m \in Common /\ Common \subseteq commits'[m].past)
  BY <1>1
<1> QED
  BY <1>2, <1>3 DEF MergeBase
-----------------------------------------------------------------------------
Grows == /\ Ids \subseteq Ids' /\ \A c \in Ids : commits'[c] = commits[c]
         /\ carried \subseteq carried' /\ Past(main) \subseteq Past(main)'

\* What may be on a branch may be there later: the default branch only
\* advances.
LEMMA FitsStays ==
  ASSUME Graph, Grows, NEW b, NEW c, Fits(b, c)
  PROVE  Fits(b, c)'
<1>1. c \in Ids /\ Parent(c) \in Ids /\ Parent(c)' = Parent(c)
  BY DEF Fits, Grows, Parent
<1>2. Past(c)' = Past(c) /\ Past(Parent(c)') = Past(Parent(c)) /\ commits'[Parent(c)] = commits[Parent(c)]
  BY <1>1 DEF Grows, Past
<1> QED
  BY <1>1, <1>2 DEF Fits, Grows, Past, Parent

\* What was published stays so.
LEMMA WasPublishedStays ==
  ASSUME Grows, NEW b, NEW c, WasPublished(b, c)
  PROVE  WasPublished(b, c)'
  BY DEF Grows, WasPublished

\* What is one commit above its base stays so.
LEMMA OneAboveStays ==
  ASSUME Grows, NEW b, NEW c, c \in Ids \cup {0}, OneAbove(b, c)
  PROVE  OneAbove(b, c)'
  BY DEF Grows, OneAbove, Past

\* A rewritten branch stays one.
LEMMA RewrittenStays ==
  ASSUME Grows, NEW b, Rewritten(b)
  PROVE  Rewritten(b)'
<1>1. PICK c \in Ids, d \in Ids : /\ <<b, c>> \in carried /\ <<b, d>> \in carried
                       /\ ~IsAncestor(commits, c, d) /\ ~IsAncestor(commits, d, c)
  BY DEF Rewritten
<1>2. c \in Ids' /\ d \in Ids' /\ <<b, c>> \in carried' /\ <<b, d>> \in carried'
      /\ ~IsAncestor(commits', c, d) /\ ~IsAncestor(commits', d, c)
  BY <1>1 DEF Grows, IsAncestor
<1> QED
  BY <1>2 DEF Rewritten

\* A transfer that kept both sides still does.
LEMMA KeepsStays ==
  ASSUME Graph, Grows, NEW job, NEW b, NEW c, KeepsBothSides(job, b, c)
  PROVE  KeepsBothSides(job, b, c)'
<1> SUFFICES ASSUME b # job.prefix, c # 0
             PROVE  KeepsBothSides(job, b, c)'
  BY DEF KeepsBothSides
<1> DEFINE base == Last(b)
           fork == MergeBase(commits, base, job.source)
<1>1. base \in Ids /\ job.source \in Ids /\ c \in Ids
  BY DEF KeepsBothSides
<1>2. MergeBase(commits', base, job.source) = fork /\ fork \in Ids
  BY <1>1, MergeBaseExists, MergeBaseStays DEF Grows
<1>3. /\ commits'[base] = commits[base] /\ commits'[job.source] = commits[job.source]
      /\ commits'[c] = commits[c] /\ commits'[fork] = commits[fork]
      /\ base \in Ids' /\ job.source \in Ids' /\ c \in Ids'
  BY <1>1, <1>2 DEF Grows
<1> QED
  BY <1>2, <1>3 DEF KeepsBothSides

\* A sound job row stays sound as the repository grows.
LEMMA JobStays ==
  ASSUME Graph, Grows, NEW job, JobSound(job)
  PROVE  JobSound(job)'
<1>1. job.commit \in Ids \cup {0}
  BY DEF JobSound, WasPublished
<1>2. job.kind = "REBASE" => job.source \in Ids'
  BY DEF JobSound, Grows
<1> QED
  BY <1>1, <1>2, WasPublishedStays, OneAboveStays, KeepsStays, RewrittenStays DEF JobSound

\* A sound run row stays sound as the repository grows.
LEMMA RunStays ==
  ASSUME Graph, Grows, NEW run, RunSound(run)
  PROVE  RunSound(run)'
<1>1. run.base \in Ids' \cup {0} /\ run.commit \in Ids' \cup {0} /\ run.commit \in Ids \cup {0}
  BY DEF RunSound, Grows
<1> QED
  BY <1>1, WasPublishedStays, OneAboveStays DEF RunSound

\* A sound runner stays sound as the repository grows.
LEMMA RunnerStays ==
  ASSUME Graph, Grows, NEW job, NEW r, RunnerSound(job, r)
  PROVE  RunnerSound(job, r)'
<1>1. r.commit \in Ids \cup {0} /\ (r.step \in Unpushed \cup Pushed => r.made \in Ids)
  BY DEF RunnerSound, WasPublished
<1>2. /\ WasPublished(r.branch, r.commit)' /\ OneAbove(r.branch, r.commit)'
      /\ KeepsBothSides(job, r.branch, r.commit)'
  BY <1>1, WasPublishedStays, OneAboveStays, KeepsStays DEF RunnerSound
<1>3. r.known \subseteq Ids' /\ (r.step = "work" => r.at \in Ids')
  BY DEF RunnerSound, Grows
<1>4. r.step \in Unpushed \cup Pushed =>
        r.made \in Ids' /\ r.base \in Ids' /\ OneAbove(r.on, r.made)' /\ KeepsBothSides(job, r.on, r.made)'
  BY <1>1, OneAboveStays, KeepsStays DEF RunnerSound, Grows
<1>5. r.step \in Unpushed => IF r.way = "INTEGRATED" THEN r.made \in Past(main)' ELSE Fits(r.on, r.made)'
  BY FitsStays DEF RunnerSound, Grows
<1>6. (r.step \in Unpushed /\ r.way = "LEASE") =>
          r.seen \in Ids' /\ ~SameTransfer(commits'[r.seen], commits'[r.made])
  BY <1>1 DEF RunnerSound, Grows
<1>7. r.step \in Pushed => WasPublished(r.on, r.made)'
  BY WasPublishedStays DEF RunnerSound
<1> QED
  BY <1>2, <1>3, <1>4, <1>5, <1>6, <1>7 DEF RunnerSound

\* No commit is made, and the default branch does not move.
LEMMA GraphStays ==
  ASSUME Graph, UNCHANGED <<commits, main>>
  PROVE  Graph'
<1>1. /\ Ids' = Ids /\ Past(main)' = Past(main) /\ commits' = commits /\ main' = main
      /\ \A c : Past(c)' = Past(c) /\ Parent(c)' = Parent(c)
  BY DEF Ids, Past, Parent
<1>2. commits' \in Seq(Commits) /\ main' \in Ids'
  BY <1>1 DEF Graph
<1>3. \A c \in Ids' : /\ Past(c)' \subseteq 1..c /\ c \in Past(c)'
                      /\ Parent(c)' \in 0..(c - 1) /\ (Parent(c)' # 0 => Parent(c)' \in Past(c)')
  BY <1>1 DEF Graph
<1>4. \A c \in Ids' : \A a \in Past(c)' : Past(a)' \subseteq Past(c)'
  BY <1>1 DEF Graph
<1>5. \A c \in Ids' : \A a, b \in Past(c)' : Comparable(a, b)'
  BY <1>1 DEF Graph, Comparable
<1>6. \A c, d \in Ids' : HasTop(c, d)'
  <2>1. \A c, d : HasTop(c, d)' <=> HasTop(c, d)
    BY <1>1 DEF HasTop
  <2> QED
    BY <1>1, <2>1 DEF Graph
<1> QED
  BY <1>2, <1>3, <1>4, <1>5, <1>6 DEF Graph

\* The repository is left alone.
LEMMA RepositoryStays ==
  ASSUME Graph, Published, UNCHANGED repository
  PROVE  Grows /\ Graph' /\ Published' /\ Ids' = Ids /\ \A c : Unseen(c)' <=> Unseen(c)
<1>1. commits' = commits /\ main' = main /\ origin' = origin /\ carried' = carried
  BY DEF repository
<1>2. Grows
  BY <1>1 DEF Grows, Ids, Past
<1>3. Graph'
  BY <1>1, GraphStays
<1>4. \A b, c : Fits(b, c)' <=> Fits(b, c)
  BY <1>1 DEF Fits, Ids, Past, Parent
<1>5. Published'
  BY <1>1, <1>4 DEF Published, Ids, Past
<1>6. \A c : Unseen(c)' <=> Unseen(c)
  BY <1>1 DEF Unseen, Ids, Past, Parent
<1> QED
  BY <1>1, <1>2, <1>3, <1>5, <1>6 DEF Ids

\* What origin has stays; branches may disappear.
LEMMA PublishedStays ==
  ASSUME Graph, Published, Grows, carried' = carried,
         \A b \in DOMAIN origin' : b \in DOMAIN origin /\ origin'[b] = origin[b]
  PROVE  Published'
<1>1. \A b \in DOMAIN origin' : <<b, origin'[b]>> \in carried'
  BY DEF Published
<1>2. \A x \in carried' : x = <<x[1], x[2]>> /\ Fits(x[1], x[2])'
  BY FitsStays DEF Published
<1>3. ASSUME TaskBranchName \in DOMAIN origin', NEW c, <<TaskBranchName, c>> \in carried',
             c # origin'[TaskBranchName]
      PROVE  origin'[TaskBranchName] \notin Past(c)'
  <2>1. c \in Ids
    BY <1>3 DEF Published, Fits
  <2>2. Past(c)' = Past(c)
    BY <2>1 DEF Past, Grows
  <2> QED
    BY <1>3, <2>1, <2>2 DEF Published
<1> QED
  BY <1>1, <1>2, <1>3 DEF Published

\* A branch is pointed at a commit that may be on it; the task branch at one
\* that nothing else descends from.
LEMMA PublishedMoves ==
  ASSUME Graph, Published, Grows, NEW b, NEW n, Point(b, n), Fits(b, n)',
         b = TaskBranchName => \A c \in Ids \ {n} : n \notin Past(c)
  PROVE  Published'
<1>1. /\ DOMAIN origin' = DOMAIN origin \cup {b} /\ carried' = carried \cup {<<b, n>>}
      /\ \A x \in DOMAIN origin' : origin'[x] = IF x = b THEN n ELSE origin[x]
  BY DEF Point
<1>2. \A x \in DOMAIN origin' : <<x, origin'[x]>> \in carried'
  BY <1>1 DEF Published
<1>3. \A x \in carried : x = <<x[1], x[2]>> /\ Fits(x[1], x[2])'
  BY FitsStays DEF Published
<1>4. \A x \in carried' : x = <<x[1], x[2]>> /\ Fits(x[1], x[2])'
  BY <1>1, <1>3
<1>5. ASSUME TaskBranchName \in DOMAIN origin', NEW c, <<TaskBranchName, c>> \in carried',
             c # origin'[TaskBranchName]
      PROVE  origin'[TaskBranchName] \notin Past(c)'
  <2>1. <<TaskBranchName, c>> \in carried /\ c \in Ids
    <3>1. <<TaskBranchName, c>> \in carried
      BY <1>1, <1>5
    <3> QED
      BY <3>1 DEF Published, Fits
  <2>2. Past(c)' = Past(c)
    BY <2>1 DEF Past, Grows
  <2>3. CASE b = TaskBranchName
    BY <1>1, <1>5, <2>1, <2>2, <2>3
  <2>4. CASE b # TaskBranchName
    BY <1>1, <1>5, <2>1, <2>2, <2>4 DEF Published
  <2> QED
    BY <2>3, <2>4
<1> QED
  BY <1>2, <1>4, <1>5 DEF Published

-----------------------------------------------------------------------------
\* A commit on top of q, which one branch may be pointed at.
LEMMA Commits1 ==
  ASSUME Graph, Published, NEW n, n = NextId, NEW q \in Ids, NEW tree \in [Paths -> Contents],
         commits' = Append(commits, Commit(q, {}, tree)),
         main' = main \/ (main' = n /\ q = main), carried \subseteq carried'
  PROVE  /\ Grows /\ Graph' /\ n \in Ids' /\ n \notin Ids /\ n # 0 /\ Ids' = Ids \cup {n}
         /\ commits'[n].tree = tree /\ commits'[n].parent = q
         /\ Past(n)' = Past(q) \cup {n} /\ Past(q)' = Past(q) /\ q \in Past(q)
         /\ \A c \in Ids : n \notin Past(c)
         /\ \A b \in Branches : (b # TaskBranchName => Last(b) \in Past(main)' /\ Last(b) \in Past(q))
                => Fits(b, n)'
<1>1. /\ Graph' /\ Past(main) \subseteq Past(main)'
      /\ Ids' = Ids \cup {n} /\ n \notin Ids /\ \A c \in Ids : commits'[c] = commits[c]
      /\ commits'[n].past = Past(q) \cup {NextId} /\ commits'[n].parent = q
      /\ commits'[n].tree = tree
  BY GraphLinear
<1>2. Grows
  BY <1>1 DEF Grows
<1>4. Past(n)' = Past(q) \cup {n} /\ Parent(n)' = q /\ Past(q)' = Past(q)
  BY <1>1 DEF Past, Parent
<1>5. q \in Past(q) /\ n \in Nat /\ n # 0 /\ \A c \in Ids : n \notin Past(c)
  <2>1. q \in Past(q)
    BY DEF Graph
  <2>2. n \in Nat /\ n # 0
    BY PastIsBelow
  <2> QED
    BY <1>1, <2>1, <2>2, PastIsBelow
<1>6. ASSUME NEW b \in Branches, b # TaskBranchName => Last(b) \in Past(main)' /\ Last(b) \in Past(q)
      PROVE  Fits(b, n)'
  <2>1. n \in Ids' /\ q \in Ids' /\ commits'[n].parent = q /\ commits'[n].past = commits'[q].past \cup {n}
    BY <1>1, <1>4 DEF Past
  <2> QED
    BY <1>6, <2>1, <1>4 DEF Fits, Past, Parent
<1> QED
  BY <1>1, <1>2, <1>4, <1>5, <1>6

\* What nobody has seen stays unseen: the new commit does not descend from it,
\* and heads are moved to nothing else.
LEMMA UnseenStays ==
  ASSUME Graph, NEW n, Ids' = Ids \cup {n}, n \notin Ids, \A d \in Ids : commits'[d] = commits[d],
         NEW c \in Ids, Unseen(c), c \notin commits'[n].past, commits'[n].parent # c,
         main' \in {main, n},
         \A b \in DOMAIN origin' : origin'[b] = n \/ (b \in DOMAIN origin /\ origin'[b] = origin[b]),
         \A x \in carried' : x \in carried \/ x[2] = n
  PROVE  Unseen(c)'
<1>1. \A d \in Ids' \ {c} : c \notin Past(d)' /\ Parent(d)' # c
  BY DEF Unseen, Past, Parent
<1>2. main' # c /\ (\A b \in DOMAIN origin' : origin'[b] # c) /\ \A x \in carried' : x[2] # c
  BY DEF Unseen
<1> QED
  BY <1>1, <1>2 DEF Unseen

\* The newest commit, where nothing points at it yet.
LEMMA NewestIsUnseen ==
  ASSUME Graph, Published, NEW n, n = NextId, NEW q \in Ids, NEW tree \in [Paths -> Contents],
         commits' = Append(commits, Commit(q, {}, tree)), UNCHANGED <<main, origin, carried>>
  PROVE  Unseen(n)'
<1>1. n \notin Ids /\ n # 0
  BY PastIsBelow
<1>2. /\ Ids' = Ids \cup {n} /\ \A c \in Ids : commits'[c] = commits[c]
  BY <1>1, GraphLinear
<1>3. \A c \in Ids : n \notin Past(c) /\ Parent(c) # n
  <2>1. \A c \in Ids : Parent(c) = 0 \/ Parent(c) \in Past(c)
    BY DEF Graph
  <2> QED
    BY <1>1, <2>1, PastIsBelow
<1>4. \A d \in Ids' \ {n} : n \notin Past(d)' /\ Parent(d)' # n
  BY <1>2, <1>3 DEF Past, Parent
<1>5. \A x \in carried : x[2] \in Ids
  BY DEF Published, Fits
<1>6. \A b \in DOMAIN origin : origin[b] \in Ids
  BY DEF Published, Fits
<1>7. main' # n /\ (\A b \in DOMAIN origin' : origin'[b] # n) /\ \A x \in carried' : x[2] # n
  BY <1>1, <1>5, <1>6 DEF Graph
<1> QED
  BY <1>4, <1>7 DEF Unseen
-----------------------------------------------------------------------------
\* One element of a sequence is replaced.
LEMMA OneElement ==
  ASSUME NEW S, NEW s \in Seq(S), NEW j \in DOMAIN s, NEW e \in S, NEW t, t = [s EXCEPT ![j] = e]
  PROVE  t \in Seq(S) /\ Len(t) = Len(s) /\ t[j] = e /\ \A k \in DOMAIN s \ {j} : t[k] = s[k]
  OBVIOUS

\* What the invariant says of job j, its run and its runner.
LEMMA RowsOf ==
  ASSUME Typed, Rows, NEW j \in DOMAIN jobs
  PROVE  /\ jobs[j] \in JobRows /\ runs[j] \in RunRows /\ runners[j] \in RunnerRows
         /\ JobSound(jobs[j]) /\ RunSound(runs[j]) /\ RunnerSound(jobs[j], runners[j])
         /\ j \in DOMAIN runs /\ j \in DOMAIN runners
  BY DEF Typed, Rows

\* Job j, its run and its runner move; the other rows stay.
OnlyRow(j, job, run, r) ==
    /\ jobs' \in Seq(JobRows) /\ runs' \in Seq(RunRows) /\ runners' \in Seq(RunnerRows)
    /\ Len(jobs') = Len(jobs) /\ Len(runs') = Len(jobs) /\ Len(runners') = Len(jobs)
    /\ jobs'[j] = job /\ runs'[j] = run /\ runners'[j] = r
    /\ \A k \in DOMAIN jobs \ {j} : jobs'[k] = jobs[k] /\ runs'[k] = runs[k] /\ runners'[k] = runners[k]
TaskStays ==
    task' \in {"PLANNED", "IMPLEMENTING", "READY", "BLOCKED"} /\ manifest' \in Ids' \cup {0} /\ outside' \in Nat

\* Job j, its run and its runner move, in a repository that grows; nobody
\* else's unpushed commit shows.
LEMMA RowsMove ==
  ASSUME Typed, Graph, Rows, Secrets, Grows, NEW j \in DOMAIN jobs, NEW job, NEW run, NEW r,
         OnlyRow(j, job, run, r), TaskStays,
         JobSound(job)', RunSound(run)', RunnerSound(job, r)',
         \A k \in DOMAIN jobs \ {j} : \A c : (Holds(k) /\ c = runners[k].made) =>
            /\ Unseen(c)'
            /\ r.step = "work" => r.at # c
            /\ r.step \in Unpushed => r.made # c,
         (r.step \in Unpushed /\ r.on = TaskBranchName) =>
            /\ Unseen(r.made)'
            /\ \A k \in DOMAIN jobs \ {j} : /\ runners[k].step = "work" => runners[k].at # r.made
                                            /\ runners[k].step \in Unpushed => runners[k].made # r.made
  PROVE  Typed' /\ Rows' /\ Secrets'
<1>1. DOMAIN jobs' = DOMAIN jobs /\ DOMAIN jobs = 1..Len(jobs)
  BY DEF OnlyRow, Typed
<1>2. Typed'
  BY DEF OnlyRow, Typed, TaskStays
<1>3. Rows'
  <2> SUFFICES ASSUME NEW k \in DOMAIN jobs
               PROVE  (JobSound(jobs[k]) /\ RunSound(runs[k]) /\ RunnerSound(jobs[k], runners[k]))'
    BY <1>1 DEF Rows
  <2>1. CASE k = j
    BY <2>1 DEF OnlyRow
  <2>2. CASE k # j
    <3>1. PICK job1, run1, r1 : job1 = jobs[k] /\ run1 = runs[k] /\ r1 = runners[k]
      OBVIOUS
    <3>2. JobSound(job1)' /\ RunSound(run1)' /\ RunnerSound(job1, r1)'
      BY <3>1, RowsOf, JobStays, RunStays, RunnerStays
    <3>3. jobs'[k] = job1 /\ runs'[k] = run1 /\ runners'[k] = r1
      BY <2>2, <3>1 DEF OnlyRow
    <3> QED
      BY <3>2, <3>3
  <2> QED
    BY <2>1, <2>2
<1>4. Secrets'
  <2> SUFFICES ASSUME NEW k \in DOMAIN jobs, Holds(k)'
               PROVE  Secret(k)'
    BY <1>1 DEF Secrets
  <2>1. CASE k = j
    <3>1. runners'[k] = r /\ r.step \in Unpushed /\ r.on = TaskBranchName
      BY <2>1 DEF Holds, OnlyRow
    <3>2. Unseen(r.made)'
      BY <3>1
    <3>3. \A i \in DOMAIN jobs \ {j} : runners'[i] = runners[i]
      BY DEF OnlyRow
    <3> QED
      BY <1>1, <2>1, <3>1, <3>2, <3>3 DEF Secret
  <2>2. CASE k # j
    <3>1. PICK c : c = runners[k].made /\ runners'[k] = runners[k] /\ Holds(k)
      BY <2>2 DEF OnlyRow, Holds
    <3>2. Unseen(c)' /\ (r.step = "work" => r.at # c) /\ (r.step \in Unpushed => r.made # c)
      BY <2>2, <3>1
    <3>3. \A i \in DOMAIN jobs \ {k} : /\ runners[i].step = "work" => runners[i].at # c
                                       /\ runners[i].step \in Unpushed => runners[i].made # c
      BY <3>1 DEF Secrets, Secret
    <3>4. \A i \in DOMAIN jobs : runners'[i] = IF i = j THEN r ELSE runners[i]
      BY DEF OnlyRow
    <3> QED
      BY <1>1, <3>1, <3>2, <3>3, <3>4 DEF Secret
  <2> QED
    BY <2>1, <2>2
<1> QED
  BY <1>2, <1>3, <1>4

\* The same where the repository is left alone.
LEMMA RowsMoveAlone ==
  ASSUME Inv, UNCHANGED repository, NEW j \in DOMAIN jobs, NEW job, NEW run, NEW r,
         OnlyRow(j, job, run, r), TaskStays,
         JobSound(job)', RunSound(run)', RunnerSound(job, r)',
         \A k \in DOMAIN jobs \ {j} : Holds(k) =>
            /\ r.step = "work" => r.at # runners[k].made
            /\ r.step \in Unpushed => r.made # runners[k].made,
         (r.step \in Unpushed /\ r.on = TaskBranchName) =>
            Holds(j) /\ r.made = runners[j].made
  PROVE  Inv'
<1>1. Grows /\ Graph' /\ Published' /\ \A c : Unseen(c)' <=> Unseen(c)
  BY RepositoryStays DEF Inv
<1>2. \A k \in DOMAIN jobs : \A c : (Holds(k) /\ c = runners[k].made) => Unseen(c)'
  BY <1>1 DEF Inv, Secrets, Secret
<1>3. (r.step \in Unpushed /\ r.on = TaskBranchName) =>
            /\ Unseen(r.made)'
            /\ \A k \in DOMAIN jobs \ {j} : /\ runners[k].step = "work" => runners[k].at # r.made
                                            /\ runners[k].step \in Unpushed => runners[k].made # r.made
  BY <1>2 DEF Inv, Secrets, Secret
<1>4. Typed' /\ Rows' /\ Secrets'
  <2>1. \A k \in DOMAIN jobs \ {j} : \A c : (Holds(k) /\ c = runners[k].made) =>
            /\ Unseen(c)'
            /\ r.step = "work" => r.at # c
            /\ r.step \in Unpushed => r.made # c
    BY <1>2
  <2> QED
    BY <1>1, <1>3, <2>1, RowsMove DEF Inv
<1> QED
  BY <1>1, <1>4 DEF Inv

\* A whole-row write changes four fields of one row.
Rewrites(old, new, status, branch, commit, error) ==
    /\ new.status = status /\ new.branch = branch /\ new.commit = commit /\ new.error = error
    /\ new.kind = old.kind /\ new.prefix = old.prefix /\ new.source = old.source
    /\ new.wanted = old.wanted

\* What a whole-row write of a job row leaves (saveExecutionJob).
LEMMA Written ==
  ASSUME Typed, NEW j \in DOMAIN jobs,
         NEW status \in InFlight \cup {"SUCCEEDED", "FAILED", "BLOCKED", "CANCELLED"},
         NEW branch \in Branches, NEW commit \in Nat, NEW error \in Errors,
         WriteJob(j, status, branch, commit, error)
  PROVE  /\ jobs' \in Seq(JobRows) /\ Len(jobs') = Len(jobs)
         /\ \A k \in DOMAIN jobs \ {j} : jobs'[k] = jobs[k]
         /\ Rewrites(jobs[j], jobs'[j], status, branch, commit, error)
<1>1. PICK old : old = jobs[j] /\ old \in JobRows
  BY DEF Typed
<1> DEFINE new == [old EXCEPT !.status = status, !.branch = branch, !.commit = commit, !.error = error]
<1>2. new \in JobRows
  BY <1>1 DEF JobRows
<1>3. Rewrites(old, new, status, branch, commit, error)
  BY <1>1 DEF Rewrites, JobRows
<1>4. jobs' = [jobs EXCEPT ![j] = new]
  BY <1>1 DEF WriteJob
<1> HIDE DEF new
<1>5. /\ jobs' \in Seq(JobRows) /\ Len(jobs') = Len(jobs) /\ jobs'[j] = new
      /\ \A k \in DOMAIN jobs \ {j} : jobs'[k] = jobs[k]
  BY <1>2, <1>4, OneElement DEF Typed
<1> QED
  BY <1>1, <1>3, <1>5

\* The facts about a copy (branch, commit) that a row may be written from.
Copy(job, branch, commit) ==
    /\ branch \in Branches /\ commit \in Nat
    /\ WasPublished(branch, commit) /\ KeepsBothSides(job, branch, commit)

\* A row written from a sound copy is sound.
LEMMA JobWritten ==
  ASSUME NEW old \in JobRows, JobSound(old), NEW new, NEW status, NEW branch, NEW commit, NEW error,
         Rewrites(old, new, status, branch, commit, error),
         status # "QUEUED", Copy(old, branch, commit), error = "DIVERGED" => Rewritten(branch)
  PROVE  JobSound(new) /\ \A b, c : KeepsBothSides(new, b, c) <=> KeepsBothSides(old, b, c)
<1>1. \A b, c : KeepsBothSides(new, b, c) <=> KeepsBothSides(old, b, c)
  BY DEF KeepsBothSides, Rewrites
<1> QED
  BY <1>1 DEF JobSound, Copy, Rewrites

\* A runner that is gone claims nothing.
LEMMA Exited ==
  ASSUME NEW job
  PROVE  Runner("exited") \in RunnerRows /\ RunnerSound(job, Runner("exited")) /\ Runner("exited").step = "exited"
<1>1. <<>> \in Branches /\ {} \in SUBSET Nat /\ 0 \in Nat
  BY DEF Branches
<1> QED
  BY <1>1 DEF Runner, RunnerRows, Steps, TaskBranchName, RunnerSound, WasPublished, OneAbove,
     KeepsBothSides,
     Unpushed, Pushed

\* The catch block.
LEMMA AbortStep ==
  ASSUME Inv, UNCHANGED repository, NEW j \in DOMAIN jobs, NEW held, NEW error \in Errors, NEW state,
         Abort(j, held, error, state), state \in {"PLANNED", "IMPLEMENTING", "READY", "BLOCKED"},
         Copy(jobs[j], held.branch, held.commit), error = "DIVERGED" => Rewritten(held.branch),
         outside' \in Nat
  PROVE  Inv'
<1> DEFINE status == JobEndsAs(state)
<1>1. status \in {"BLOCKED", "FAILED"}
  BY DEF JobEndsAs
<1>2. /\ jobs[j] \in JobRows /\ runs[j] \in RunRows /\ runners[j] \in RunnerRows
      /\ JobSound(jobs[j]) /\ RunSound(runs[j])
  BY RowsOf DEF Inv
<1>3. held.branch \in Branches /\ held.commit \in Nat /\ WasPublished(held.branch, held.commit)
  BY DEF Copy
<1>4. Grows
  BY RepositoryStays DEF Inv
<1>5. PICK job, run, r : job = jobs'[j] /\ run = runs'[j] /\ r = runners'[j]
  OBVIOUS
<1>6. /\ jobs' \in Seq(JobRows) /\ Len(jobs') = Len(jobs)
      /\ \A k \in DOMAIN jobs \ {j} : jobs'[k] = jobs[k]
      /\ Rewrites(jobs[j], job, status, held.branch, held.commit, error)
  <2>1. WriteJob(j, status, held.branch, held.commit, error)
    BY DEF Abort
  <2>2. status \in InFlight \cup {"SUCCEEDED", "FAILED", "BLOCKED", "CANCELLED"}
    BY <1>1
  <2> HIDE DEF status
  <2> QED
    BY <1>3, <1>5, <2>1, <2>2, Written DEF Inv
<1>7. /\ runs' \in Seq(RunRows) /\ Len(runs') = Len(jobs) /\ \A k \in DOMAIN jobs \ {j} : runs'[k] = runs[k]
      /\ run = runs[j] \/ (run.status = status /\ run.base = runs[j].base /\ run.commit \in {held.commit, runs[j].commit})
  <2>1. CASE runs[j].status = "RUNNING"
    <3>1. PICK old : old = runs[j] /\ old \in RunRows
      BY <1>2
    <3> DEFINE new == [old EXCEPT !.status = status, !.branch = held.branch,
                                  !.commit = IF held.commit # 0 THEN held.commit ELSE @]
    <3>2. new \in RunRows /\ new.status = status /\ new.base = old.base /\ new.commit \in {held.commit, old.commit}
      BY <1>1, <1>3, <3>1 DEF RunRows
    <3>3. runs' = [runs EXCEPT ![j] = new]
      BY <2>1, <3>1 DEF Abort
    <3> HIDE DEF new
    <3>4. runs' \in Seq(RunRows) /\ Len(runs') = Len(runs) /\ runs'[j] = new
          /\ \A k \in DOMAIN runs \ {j} : runs'[k] = runs[k]
      BY <3>2, <3>3, OneElement, RowsOf DEF Inv, Typed
    <3> QED
      BY <1>5, <3>1, <3>2, <3>4 DEF Inv, Typed
  <2>2. CASE runs[j].status # "RUNNING"
    BY <1>5, <2>2 DEF Abort, Inv, Typed
  <2> QED
    BY <2>1, <2>2
<1>8. /\ runners' \in Seq(RunnerRows) /\ Len(runners') = Len(jobs)
      /\ \A k \in DOMAIN jobs \ {j} : runners'[k] = runners[k]
      /\ r = Runner("exited") /\ r.step = "exited"
  <2>1. runners' = [runners EXCEPT ![j] = Runner("exited")]
    BY DEF Abort
  <2>2. PICK e : e = Runner("exited") /\ e \in RunnerRows
    BY Exited
  <2>3. j \in DOMAIN runners /\ runners \in Seq(RunnerRows) /\ runners' = [runners EXCEPT ![j] = e]
    BY <2>1, <2>2, RowsOf DEF Inv, Typed
  <2>4. /\ runners' \in Seq(RunnerRows) /\ Len(runners') = Len(runners) /\ runners'[j] = e
        /\ \A k \in DOMAIN runners \ {j} : runners'[k] = runners[k]
    BY <2>2, <2>3, OneElement
  <2> QED
    BY <1>5, <2>2, <2>4, Exited DEF Inv, Typed
<1>9. OnlyRow(j, job, run, r) /\ TaskStays
  <2>1. manifest' \in Ids' \cup {0}
    BY <1>4 DEF Abort, Inv, Typed, Grows
  <2> QED
    BY <1>5, <1>6, <1>7, <1>8, <2>1 DEF OnlyRow, TaskStays, Abort
<1>10. JobSound(job)'
  BY <1>1, <1>2, <1>4, <1>6, JobWritten, JobStays DEF Inv
<1>11. RunSound(run)'
  <2>1. RunSound(run)
    BY <1>1, <1>2, <1>3, <1>7 DEF RunSound, WasPublished
  <2> QED
    BY <1>4, <2>1, RunStays DEF Inv
<1>12. RunnerSound(job, r)'
  BY <1>4, <1>8, Exited, RunnerStays DEF Inv
<1> QED
  BY <1>8, <1>9, <1>10, <1>11, <1>12, RowsMoveAlone DEF Unpushed
-----------------------------------------------------------------------------
\* One runner moves.
LEMMA RunnersSet ==
  ASSUME Typed, NEW j \in DOMAIN jobs, NEW e \in RunnerRows, runners' = [runners EXCEPT ![j] = e]
  PROVE  /\ runners' \in Seq(RunnerRows) /\ Len(runners') = Len(jobs) /\ runners'[j] = e
         /\ \A k \in DOMAIN jobs \ {j} : runners'[k] = runners[k]
<1>1. runners \in Seq(RunnerRows) /\ j \in DOMAIN runners /\ DOMAIN runners = DOMAIN jobs /\ Len(runners) = Len(jobs)
  BY DEF Typed
<1> QED
  BY <1>1, OneElement

\* One run row is written.
LEMMA RunsSet ==
  ASSUME Typed, NEW j \in DOMAIN jobs, NEW e \in RunRows, runs' = [runs EXCEPT ![j] = e]
  PROVE  /\ runs' \in Seq(RunRows) /\ Len(runs') = Len(jobs) /\ runs'[j] = e
         /\ \A k \in DOMAIN jobs \ {j} : runs'[k] = runs[k]
<1>1. runs \in Seq(RunRows) /\ j \in DOMAIN runs /\ DOMAIN runs = DOMAIN jobs /\ Len(runs) = Len(jobs)
  BY DEF Typed
<1> QED
  BY <1>1, OneElement

\* A runner is sound for a job whatever the job's row says of its progress.
LEMMA SoundForRow ==
  ASSUME NEW old, NEW new, NEW r, RunnerSound(old, r), new.kind = old.kind, new.prefix = old.prefix,
         new.source = old.source, new.wanted = old.wanted
  PROVE  RunnerSound(new, r)
<1>1. \A b, c : KeepsBothSides(new, b, c) <=> KeepsBothSides(old, b, c)
  BY DEF KeepsBothSides
<1> QED
  BY <1>1 DEF RunnerSound

\* What a runner holds may be written to its job's row.
LEMMA RunnersCopy ==
  ASSUME Inv, NEW j \in DOMAIN jobs
  PROVE  Copy(jobs[j], runners[j].branch, runners[j].commit)
  BY RowsOf DEF Inv, Copy, RunnerSound, RunnerRows

\* A gate fails: the catch block.
LEMMA GateFailsStep ==
  ASSUME Inv, NEW j \in DOMAIN jobs, GateFails(j)
  PROVE  Inv'
<1>1. Abort(j, runners[j], "GATE", task) /\ UNCHANGED repository /\ outside' = outside
  BY DEF GateFails, others
<1>2. task \in {"PLANNED", "IMPLEMENTING", "READY", "BLOCKED"} /\ outside' \in Nat /\ {"GATE", "STEP"} \subseteq Errors
  BY <1>1 DEF Inv, Typed, Errors
<1> QED
  BY <1>1, <1>2, RunnersCopy, AbortStep

\* A step throws: the catch block.
LEMMA StepFailsStep ==
  ASSUME Inv, NEW j \in DOMAIN jobs, StepFails(j)
  PROVE  Inv'
<1>1. Abort(j, runners[j], "STEP", task) /\ UNCHANGED repository /\ outside' = outside
  BY DEF StepFails
<1>2. task \in {"PLANNED", "IMPLEMENTING", "READY", "BLOCKED"} /\ outside' \in Nat /\ {"GATE", "STEP"} \subseteq Errors
  BY <1>1 DEF Inv, Typed, Errors
<1> QED
  BY <1>1, <1>2, RunnersCopy, AbortStep

\* A runner dies between two steps.
LEMMA RunnerDiesStep ==
  ASSUME Inv, NEW j \in DOMAIN jobs, RunnerDies(j)
  PROVE  Inv'
<1>1. UNCHANGED <<repository, task, manifest, jobs, runs, outside>> /\ runners' = [runners EXCEPT ![j] = Runner("exited")]
  BY DEF RunnerDies, records
<1>2. PICK r : r = Runner("exited") /\ r \in RunnerRows /\ RunnerSound(jobs[j], r) /\ r.step = "exited"
  BY Exited
<1>3. Grows /\ Ids' = Ids
  BY <1>1, RepositoryStays DEF Inv
<1>4. OnlyRow(j, jobs[j], runs[j], r)
  BY <1>1, <1>2, RunnersSet DEF OnlyRow, Inv, Typed
<1>5. TaskStays
  BY <1>1, <1>3 DEF TaskStays, Inv, Typed
<1>6. PICK job, run : job = jobs[j] /\ run = runs[j]
  OBVIOUS
<1>7. JobSound(job)' /\ RunSound(run)' /\ RunnerSound(job, r)'
  BY <1>2, <1>3, <1>6, RowsOf, JobStays, RunStays, RunnerStays DEF Inv
<1> QED
  BY <1>1, <1>2, <1>4, <1>5, <1>6, <1>7, RowsMoveAlone DEF Unpushed

\* The attempted commit is recorded before its push.
LEMMA RecordStep ==
  ASSUME Inv, NEW j \in DOMAIN jobs, Record(j)
  PROVE  Inv'
<1> DEFINE still == IF runners[j].branch = runners[j].on THEN runners[j].commit ELSE 0
<1>1. PICK old, job, run, r0, c : old = jobs[j] /\ job = jobs'[j] /\ run = runs[j] /\ r0 = runners[j] /\ c = still
  OBVIOUS
<1>2. /\ old \in JobRows /\ run \in RunRows /\ r0 \in RunnerRows
      /\ JobSound(old) /\ RunSound(run) /\ RunnerSound(old, r0)
  BY <1>1, RowsOf DEF Inv
<1>3. /\ r0.step = "record" /\ WriteJob(j, "RUNNING", r0.on, c, "none")
      /\ runners' = [runners EXCEPT ![j].step = "push", ![j].branch = r0.on, ![j].commit = c]
      /\ UNCHANGED <<repository, task, manifest, runs, outside>>
  BY <1>1 DEF Record, At, others
<1>4. (c = r0.commit /\ r0.branch = r0.on) \/ c = 0
  BY <1>1
<1>5. Copy(old, r0.on, c) /\ OneAbove(r0.on, c)
  <2>1. /\ WasPublished(r0.branch, r0.commit) /\ OneAbove(r0.branch, r0.commit)
        /\ KeepsBothSides(old, r0.branch, r0.commit)
        /\ r0.on \in Branches /\ r0.commit \in Nat
    BY <1>2 DEF RunnerSound, RunnerRows
  <2>2. WasPublished(r0.on, 0) /\ OneAbove(r0.on, 0) /\ KeepsBothSides(old, r0.on, 0) /\ 0 \in Nat
    BY DEF WasPublished, OneAbove, KeepsBothSides
  <2> QED
    BY <1>4, <2>1, <2>2 DEF Copy
<1> HIDE DEF still
<1>6. /\ jobs' \in Seq(JobRows) /\ Len(jobs') = Len(jobs)
      /\ \A k \in DOMAIN jobs \ {j} : jobs'[k] = jobs[k]
      /\ Rewrites(old, job, "RUNNING", r0.on, c, "none")
  <2>1. Typed /\ r0.on \in Branches /\ c \in Nat /\ "RUNNING" \in InFlight /\ "none" \in Errors
    BY <1>2, <1>5 DEF Inv, Copy, InFlight, Errors
  <2> QED
    BY <1>1, <1>3, <2>1, Written
<1> DEFINE new == [r0 EXCEPT !.step = "push", !.branch = r0.on, !.commit = c]
<1>7. runners' = [runners EXCEPT ![j] = new]
  BY <1>1, <1>3
<1>8. PICK r : r = new /\ r \in RunnerRows
  <2>1. r0.on \in Branches /\ c \in Nat
    BY <1>5 DEF Copy
  <2>2. new \in RunnerRows
    BY <1>2, <2>1 DEF RunnerRows, Steps
  <2> QED
    BY <2>2
<1>9. /\ r.step = "push" /\ r.branch = r0.on /\ r.commit = c /\ r.on = r0.on /\ r.made = r0.made
      /\ r.base = r0.base /\ r.way = r0.way /\ r.known = r0.known /\ r.seen = r0.seen
  BY <1>2, <1>8 DEF RunnerRows
<1>10. RunnerSound(old, r)
  BY <1>2, <1>3, <1>5, <1>9 DEF RunnerSound, Copy, Unpushed, Pushed
<1>11. JobSound(job) /\ RunnerSound(job, r)
  <2>1. JobSound(job)
    BY <1>2, <1>5, <1>6, JobWritten
  <2> QED
    BY <1>6, <1>10, <2>1, SoundForRow DEF Rewrites
<1>12. Grows /\ Ids' = Ids
  BY <1>3, RepositoryStays DEF Inv
<1>13. JobSound(job)' /\ RunSound(run)' /\ RunnerSound(job, r)'
  BY <1>2, <1>11, <1>12, JobStays, RunStays, RunnerStays DEF Inv
<1>14. OnlyRow(j, job, run, r) /\ TaskStays
  <2>1. TaskStays
    BY <1>3, <1>12 DEF TaskStays, Inv, Typed
  <2> QED
    BY <1>1, <1>3, <1>6, <1>7, <1>8, <2>1, RunnersSet DEF OnlyRow, Inv, Typed
<1>15. \A k \in DOMAIN jobs \ {j} : Holds(k) => r.made # runners[k].made
  BY <1>1, <1>3, <1>9 DEF Inv, Secrets, Secret, Unpushed
<1>16. r.on = TaskBranchName => Holds(j) /\ r.made = runners[j].made
  BY <1>1, <1>3, <1>9 DEF Holds, Unpushed
<1> QED
  BY <1>3, <1>9, <1>13, <1>14, <1>15, <1>16, RowsMoveAlone

\* The row of a runner whose commit origin has may say so.
LEMMA MadeCopy ==
  ASSUME NEW job, NEW r \in RunnerRows, RunnerSound(job, r), r.step \in Pushed
  PROVE  /\ Copy(job, r.on, r.made) /\ OneAbove(r.on, r.made) /\ r.made \in Ids /\ r.base \in Ids
         /\ r.branch = r.on
  BY DEF Copy, RunnerRows, RunnerSound

\* A runner that only goes on to its next step.
LEMMA GoesOn ==
  ASSUME NEW r0 \in RunnerRows, NEW step \in Steps, NEW r, r = [r0 EXCEPT !.step = step]
  PROVE  /\ r \in RunnerRows /\ r.step = step
         /\ r.branch = r0.branch /\ r.commit = r0.commit /\ r.on = r0.on /\ r.made = r0.made
         /\ r.base = r0.base /\ r.way = r0.way /\ r.known = r0.known /\ r.seen = r0.seen
  BY DEF RunnerRows

\* A runner goes on after its push: nothing of it is secret any more.
LEMMA PushedGoesOn ==
  ASSUME NEW job, NEW r0 \in RunnerRows, RunnerSound(job, r0), r0.step \in Pushed,
         NEW step \in Pushed, NEW r, r = [r0 EXCEPT !.step = step]
  PROVE  r \in RunnerRows /\ RunnerSound(job, r) /\ r.step \notin Unpushed /\ r.step # "work"
<1>1. step \in Steps /\ step \notin Unpushed /\ step \notin {"work", "checkout", "record", "push"}
  BY DEF Pushed, Unpushed, Steps
<1> QED
  BY <1>1, GoesOn DEF RunnerSound, Unpushed

\* The published commit is recorded.
LEMMA RecordPublishedStep ==
  ASSUME Inv, NEW j \in DOMAIN jobs, RecordPublished(j)
  PROVE  Inv'
<1>1. PICK old, job, run, r0 : old = jobs[j] /\ job = jobs'[j] /\ run = runs[j] /\ r0 = runners[j]
  OBVIOUS
<1>2. /\ old \in JobRows /\ run \in RunRows /\ r0 \in RunnerRows
      /\ JobSound(old) /\ RunSound(run) /\ RunnerSound(old, r0)
  BY <1>1, RowsOf DEF Inv
<1>3. /\ r0.step = "publish" /\ WriteJob(j, "RUNNING", r0.on, r0.made, "none")
      /\ runners' = [runners EXCEPT ![j].step = "run", ![j].commit = r0.made]
      /\ UNCHANGED <<repository, task, manifest, runs, outside>>
  BY <1>1 DEF RecordPublished, At, others
<1>4. /\ Copy(old, r0.on, r0.made) /\ OneAbove(r0.on, r0.made) /\ r0.branch = r0.on
  BY <1>2, <1>3, MadeCopy DEF Pushed
<1>5. /\ jobs' \in Seq(JobRows) /\ Len(jobs') = Len(jobs)
      /\ \A k \in DOMAIN jobs \ {j} : jobs'[k] = jobs[k]
      /\ Rewrites(old, job, "RUNNING", r0.on, r0.made, "none")
  <2>1. Typed /\ r0.on \in Branches /\ r0.made \in Nat /\ "RUNNING" \in InFlight /\ "none" \in Errors
    BY <1>4 DEF Inv, Copy, InFlight, Errors
  <2> QED
    BY <1>1, <1>3, <2>1, Written
<1> DEFINE new == [r0 EXCEPT !.step = "run", !.commit = r0.made]
<1>6. runners' = [runners EXCEPT ![j] = new]
  BY <1>1, <1>3
<1>7. PICK r : r = new /\ r \in RunnerRows
  <2>1. new \in RunnerRows
    BY <1>2 DEF RunnerRows, Steps
  <2> QED
    BY <2>1
<1>8. /\ r.step = "run" /\ r.branch = r0.on /\ r.commit = r0.made /\ r.on = r0.on /\ r.made = r0.made
      /\ r.base = r0.base /\ r.way = r0.way /\ r.known = r0.known /\ r.seen = r0.seen
  BY <1>2, <1>4, <1>7 DEF RunnerRows
<1>9. RunnerSound(old, r)
  BY <1>2, <1>3, <1>4, <1>8 DEF RunnerSound, Copy, Unpushed, Pushed
<1>10. JobSound(job) /\ RunnerSound(job, r)
  <2>1. JobSound(job)
    BY <1>2, <1>4, <1>5, JobWritten
  <2> QED
    BY <1>5, <1>9, <2>1, SoundForRow DEF Rewrites
<1>11. Grows /\ Ids' = Ids
  BY <1>3, RepositoryStays DEF Inv
<1>12. JobSound(job)' /\ RunSound(run)' /\ RunnerSound(job, r)'
  BY <1>2, <1>10, <1>11, JobStays, RunStays, RunnerStays DEF Inv
<1>13. OnlyRow(j, job, run, r) /\ TaskStays
  <2>1. TaskStays
    BY <1>3, <1>11 DEF TaskStays, Inv, Typed
  <2> QED
    BY <1>1, <1>3, <1>5, <1>6, <1>7, <2>1, RunnersSet DEF OnlyRow, Inv, Typed
<1> QED
  BY <1>3, <1>8, <1>12, <1>13, RowsMoveAlone DEF Unpushed

\* The run row takes the published commit.
LEMMA RecordRunStep ==
  ASSUME Inv, NEW j \in DOMAIN jobs, RecordRun(j)
  PROVE  Inv'
<1>1. PICK job, old, r0 : job = jobs[j] /\ old = runs[j] /\ r0 = runners[j]
  OBVIOUS
<1>2. /\ job \in JobRows /\ old \in RunRows /\ r0 \in RunnerRows
      /\ JobSound(job) /\ RunSound(old) /\ RunnerSound(job, r0)
  BY <1>1, RowsOf DEF Inv
<1>3. /\ r0.step = "run"
      /\ runs' = [runs EXCEPT ![j].base = r0.base, ![j].branch = r0.on, ![j].commit = r0.made]
      /\ runners' = [runners EXCEPT ![j].step = "gate"]
      /\ UNCHANGED <<repository, task, manifest, jobs, outside>>
  BY <1>1 DEF RecordRun, At, others
<1>4. /\ Copy(job, r0.on, r0.made) /\ OneAbove(r0.on, r0.made) /\ r0.made \in Ids /\ r0.base \in Ids
  BY <1>2, <1>3, MadeCopy DEF Pushed
<1> DEFINE newRun == [old EXCEPT !.base = r0.base, !.branch = r0.on, !.commit = r0.made]
           new == [r0 EXCEPT !.step = "gate"]
<1>5. PICK run : run = newRun /\ run \in RunRows /\ runs' = [runs EXCEPT ![j] = run]
  <2>1. newRun \in RunRows
    BY <1>2, <1>4 DEF RunRows, Copy, RunnerRows
  <2>2. runs' = [runs EXCEPT ![j] = newRun]
    BY <1>1, <1>3
  <2> QED
    BY <2>1, <2>2
<1>6. run.base = r0.base /\ run.branch = r0.on /\ run.commit = r0.made
  BY <1>2, <1>5 DEF RunRows
<1>7. RunSound(run)
  BY <1>4, <1>6 DEF RunSound, Copy
<1>8. PICK r : r = new /\ runners' = [runners EXCEPT ![j] = r]
  BY <1>1, <1>3
<1>9. r \in RunnerRows /\ RunnerSound(job, r) /\ r.step \notin Unpushed /\ r.step # "work"
  BY <1>2, <1>3, <1>8, PushedGoesOn DEF Pushed
<1> HIDE DEF newRun, new
<1>10. Grows /\ Ids' = Ids
  BY <1>3, RepositoryStays DEF Inv
<1>11. JobSound(job)' /\ RunSound(run)' /\ RunnerSound(job, r)'
  BY <1>2, <1>7, <1>9, <1>10, JobStays, RunStays, RunnerStays DEF Inv
<1>12. OnlyRow(j, job, run, r)
  <2>1. Typed /\ jobs \in Seq(JobRows)
    BY DEF Inv, Typed
  <2>2. /\ runners' \in Seq(RunnerRows) /\ Len(runners') = Len(jobs) /\ runners'[j] = r
        /\ \A k \in DOMAIN jobs \ {j} : runners'[k] = runners[k]
    BY <1>8, <1>9, <2>1, RunnersSet
  <2>3. /\ runs' \in Seq(RunRows) /\ Len(runs') = Len(jobs) /\ runs'[j] = run
        /\ \A k \in DOMAIN jobs \ {j} : runs'[k] = runs[k]
    BY <1>5, <2>1, RunsSet
  <2> QED
    BY <1>1, <1>3, <2>1, <2>2, <2>3 DEF OnlyRow
<1>13. TaskStays
  BY <1>3, <1>10 DEF TaskStays, Inv, Typed
<1> QED
  BY <1>3, <1>9, <1>11, <1>12, <1>13, RowsMoveAlone

\* The gate passes and the task is READY.
LEMMA GatePassesStep ==
  ASSUME Inv, NEW j \in DOMAIN jobs, GatePasses(j)
  PROVE  Inv'
<1>1. PICK job, run, r0 : job = jobs[j] /\ run = runs[j] /\ r0 = runners[j]
  OBVIOUS
<1>2. /\ r0 \in RunnerRows /\ JobSound(job) /\ RunSound(run) /\ RunnerSound(job, r0)
  BY <1>1, RowsOf DEF Inv
<1>3. /\ r0.step = "gate" /\ task' = "READY" /\ manifest' = r0.made
      /\ runners' = [runners EXCEPT ![j].step = "finish"]
      /\ UNCHANGED <<repository, jobs, runs, outside>>
  BY <1>1 DEF GatePasses, At, others
<1>4. r0.made \in Ids
  BY <1>2, <1>3, MadeCopy DEF Pushed
<1> DEFINE new == [r0 EXCEPT !.step = "finish"]
<1>5. PICK r : r = new /\ runners' = [runners EXCEPT ![j] = r]
  BY <1>1, <1>3
<1>6. r \in RunnerRows /\ RunnerSound(job, r) /\ r.step \notin Unpushed /\ r.step # "work"
  BY <1>2, <1>3, <1>5, PushedGoesOn DEF Pushed
<1> HIDE DEF new
<1>7. Grows /\ Ids' = Ids
  BY <1>3, RepositoryStays DEF Inv
<1>8. JobSound(job)' /\ RunSound(run)' /\ RunnerSound(job, r)'
  BY <1>2, <1>6, <1>7, JobStays, RunStays, RunnerStays DEF Inv
<1>9. OnlyRow(j, job, run, r)
  BY <1>1, <1>3, <1>5, <1>6, RunnersSet DEF OnlyRow, Inv, Typed
<1>10. TaskStays
  BY <1>3, <1>4, <1>7 DEF TaskStays, Inv, Typed
<1> QED
  BY <1>3, <1>6, <1>8, <1>9, <1>10, RowsMoveAlone

\* Run and job succeed.
LEMMA FinishStep ==
  ASSUME Inv, NEW j \in DOMAIN jobs, Finish(j)
  PROVE  Inv'
<1>1. PICK old, job, r0 : old = jobs[j] /\ job = jobs'[j] /\ r0 = runners[j]
  OBVIOUS
<1>2. /\ old \in JobRows /\ r0 \in RunnerRows /\ JobSound(old) /\ RunnerSound(old, r0)
  BY <1>1, RowsOf DEF Inv
<1>3. PICK run : run = [status |-> "SUCCEEDED", base |-> r0.base, branch |-> r0.on, commit |-> r0.made]
  OBVIOUS
<1>4. /\ r0.step = "finish" /\ WriteJob(j, "SUCCEEDED", r0.on, r0.made, "none")
      /\ runs' = [runs EXCEPT ![j] = run]
      /\ runners' = [runners EXCEPT ![j] = Runner("exited")]
      /\ UNCHANGED <<repository, task, manifest, outside>>
  BY <1>1, <1>3 DEF Finish, At, others
<1>5. /\ Copy(old, r0.on, r0.made) /\ OneAbove(r0.on, r0.made) /\ r0.made \in Ids /\ r0.base \in Ids
  BY <1>2, <1>4, MadeCopy DEF Pushed
<1>6. /\ jobs' \in Seq(JobRows) /\ Len(jobs') = Len(jobs)
      /\ \A k \in DOMAIN jobs \ {j} : jobs'[k] = jobs[k]
      /\ Rewrites(old, job, "SUCCEEDED", r0.on, r0.made, "none")
  <2>1. Typed /\ r0.on \in Branches /\ r0.made \in Nat /\ "none" \in Errors
    BY <1>5 DEF Inv, Copy, Errors
  <2> QED
    BY <1>1, <1>4, <2>1, Written
<1>7. run \in RunRows /\ RunSound(run)
  BY <1>2, <1>3, <1>5 DEF RunRows, RunSound, Copy, RunnerRows
<1>8. PICK r : r = Runner("exited") /\ r \in RunnerRows /\ RunnerSound(job, r) /\ r.step = "exited"
  BY Exited
<1>9. JobSound(job)
  BY <1>2, <1>5, <1>6, JobWritten
<1>10. Grows /\ Ids' = Ids
  BY <1>4, RepositoryStays DEF Inv
<1>11. JobSound(job)' /\ RunSound(run)' /\ RunnerSound(job, r)'
  BY <1>7, <1>8, <1>9, <1>10, JobStays, RunStays, RunnerStays DEF Inv
<1>12. OnlyRow(j, job, run, r)
  <2>1. Typed
    BY DEF Inv
  <2> QED
    BY <1>1, <1>4, <1>6, <1>7, <1>8, <2>1, RunnersSet, RunsSet DEF OnlyRow
<1>13. TaskStays
  BY <1>4, <1>10 DEF TaskStays, Inv, Typed
<1> QED
  BY <1>4, <1>8, <1>11, <1>12, <1>13, RowsMoveAlone DEF Unpushed

\* A job is cancelled; its runner goes on.
LEMMA CancelStep ==
  ASSUME Inv, NEW j \in DOMAIN jobs, Cancel(j)
  PROVE  Inv'
<1>1. PICK old, oldRun, r0 : old = jobs[j] /\ oldRun = runs[j] /\ r0 = runners[j]
  OBVIOUS
<1>2. /\ old \in JobRows /\ oldRun \in RunRows /\ r0 \in RunnerRows
      /\ JobSound(old) /\ RunSound(oldRun) /\ RunnerSound(old, r0)
  BY <1>1, RowsOf DEF Inv
<1> DEFINE newJob == [old EXCEPT !.status = "CANCELLED"]
           newRun == [oldRun EXCEPT !.status = "FAILED"]
<1>3. PICK job : job = newJob /\ job \in JobRows /\ jobs' = [jobs EXCEPT ![j] = job]
  <2>1. newJob \in JobRows
    BY <1>2 DEF JobRows
  <2>2. jobs' = [jobs EXCEPT ![j] = newJob]
    BY <1>1 DEF Cancel
  <2> QED
    BY <2>1, <2>2
<1>4. /\ job.status = "CANCELLED" /\ job.branch = old.branch /\ job.commit = old.commit
      /\ job.error = old.error /\ job.kind = old.kind /\ job.prefix = old.prefix
      /\ job.source = old.source /\ job.wanted = old.wanted
  BY <1>2, <1>3 DEF JobRows
<1>5. PICK run : run = newRun /\ run \in RunRows /\ runs' = [runs EXCEPT ![j] = run]
  <2>1. newRun \in RunRows
    BY <1>2 DEF RunRows
  <2>2. runs' = [runs EXCEPT ![j] = newRun]
    BY <1>1 DEF Cancel
  <2> QED
    BY <2>1, <2>2
<1>6. run.status = "FAILED" /\ run.base = oldRun.base /\ run.commit = oldRun.commit
  BY <1>2, <1>5 DEF RunRows
<1>7. PICK r : r \in RunnerRows /\ runners' = [runners EXCEPT ![j] = r] /\ (r = r0 \/ r = Runner("exited"))
  <2>1. CASE jobs[j].status = "QUEUED"
    BY <2>1, Exited DEF Cancel
  <2>2. CASE jobs[j].status # "QUEUED"
    <3>1. runners' = runners /\ runners \in Seq(RunnerRows)
      BY <2>2 DEF Cancel, Inv, Typed
    <3>2. runners' = [runners EXCEPT ![j] = r0]
      BY <1>1, <3>1
    <3> QED
      BY <1>2, <3>2
  <2> QED
    BY <2>1, <2>2
<1> HIDE DEF newJob, newRun
<1>8. JobSound(job) /\ RunSound(run) /\ RunnerSound(job, r)
  <2>1. \A b, c : KeepsBothSides(job, b, c) <=> KeepsBothSides(old, b, c)
    BY <1>4 DEF KeepsBothSides
  <2>2. JobSound(job)
    BY <1>2, <1>4, <2>1 DEF JobSound
  <2>3. RunSound(run)
    BY <1>2, <1>6 DEF RunSound
  <2>4. RunnerSound(job, r0)
    BY <1>2, <1>4, SoundForRow
  <2> QED
    BY <1>7, <2>2, <2>3, <2>4, Exited
<1>9. UNCHANGED <<repository, task, manifest, outside>>
  BY DEF Cancel
<1>10. Grows /\ Ids' = Ids
  BY <1>9, RepositoryStays DEF Inv
<1>11. JobSound(job)' /\ RunSound(run)' /\ RunnerSound(job, r)'
  BY <1>8, <1>10, JobStays, RunStays, RunnerStays DEF Inv
<1>12. OnlyRow(j, job, run, r)
  <2>1. Typed /\ jobs \in Seq(JobRows)
    BY DEF Inv, Typed
  <2>2. /\ jobs' \in Seq(JobRows) /\ Len(jobs') = Len(jobs) /\ jobs'[j] = job
        /\ \A k \in DOMAIN jobs \ {j} : jobs'[k] = jobs[k]
    BY <1>3, <2>1, OneElement
  <2> QED
    BY <1>5, <1>7, <2>1, <2>2, RunnersSet, RunsSet DEF OnlyRow
<1>13. TaskStays
  BY <1>9, <1>10 DEF TaskStays, Inv, Typed
<1>14. \A k \in DOMAIN jobs \ {j} : Holds(k) =>
          /\ r.step = "work" => r.at # runners[k].made
          /\ r.step \in Unpushed => r.made # runners[k].made
  BY <1>1, <1>7, Exited DEF Inv, Secrets, Secret, Unpushed
<1>15. (r.step \in Unpushed /\ r.on = TaskBranchName) => Holds(j) /\ r.made = runners[j].made
  BY <1>1, <1>7, Exited DEF Holds, Unpushed
<1> QED
  BY <1>9, <1>11, <1>12, <1>13, <1>14, <1>15, RowsMoveAlone

\* A push is accepted, refused or not needed.
LEMMA PushStep ==
  ASSUME Inv, NEW j \in DOMAIN jobs, Push(j)
  PROVE  Inv'
<1>1. PICK job, run, r0 : job = jobs[j] /\ run = runs[j] /\ r0 = runners[j]
  OBVIOUS
<1>2. /\ job \in JobRows /\ run \in RunRows /\ r0 \in RunnerRows
      /\ JobSound(job) /\ RunSound(run) /\ RunnerSound(job, r0)
  BY <1>1, RowsOf DEF Inv
<1>3. r0.step = "push" /\ UNCHANGED <<commits, main, outside>>
  BY <1>1 DEF Push, At, others
<1>4. CASE Abort(j, r0, "PUSH_FAILED", task) /\ UNCHANGED <<origin, carried>>
  <2>1. task \in {"PLANNED", "IMPLEMENTING", "READY", "BLOCKED"} /\ outside' \in Nat
        /\ "PUSH_FAILED" \in Errors /\ UNCHANGED repository
    BY <1>3, <1>4 DEF Inv, Typed, Errors, repository
  <2> QED
    BY <1>1, <1>4, <2>1, RunnersCopy, AbortStep
<1>5. CASE /\ IF r0.way = "INTEGRATED" THEN UNCHANGED <<origin, carried>> ELSE Point(r0.on, r0.made)
           /\ runners' = [runners EXCEPT ![j].step = "publish"] /\ UNCHANGED records
  <2>1. UNCHANGED <<task, manifest, jobs, runs>>
    BY <1>5 DEF records
  <2> DEFINE new == [r0 EXCEPT !.step = "publish"]
  <2>2. PICK r : r = new /\ runners' = [runners EXCEPT ![j] = r]
    BY <1>1, <1>5
  <2>3. /\ r \in RunnerRows /\ r.step = "publish"
        /\ r.branch = r0.branch /\ r.commit = r0.commit /\ r.on = r0.on /\ r.made = r0.made
        /\ r.base = r0.base /\ r.way = r0.way /\ r.known = r0.known /\ r.seen = r0.seen
    BY <1>2, <2>2, GoesOn DEF Steps
  <2> HIDE DEF new
  <2>4. r0.on \in Branches /\ r0.made \in Ids /\ (r0.way # "INTEGRATED" => Fits(r0.on, r0.made))
    BY <1>2, <1>3 DEF RunnerRows, RunnerSound, Unpushed
  <2>5. Ids' = Ids /\ Past(main)' = Past(main) /\ (\A c : Past(c)' = Past(c)) /\ \A c : Parent(c)' = Parent(c)
    BY <1>3 DEF Ids, Past, Parent
  <2>6. /\ carried \subseteq carried' /\ \A x \in carried' : x \in carried \/ (r0.way # "INTEGRATED" /\ x[2] = r0.made)
        /\ r0.way # "INTEGRATED" => <<r0.on, r0.made>> \in carried'
        /\ \A b \in DOMAIN origin' : \/ b \in DOMAIN origin /\ origin'[b] = origin[b]
                                     \/ r0.way # "INTEGRATED" /\ origin'[b] = r0.made
    BY <1>5 DEF Point
  <2>7. Grows
    BY <1>3, <2>5, <2>6 DEF Grows
  <2>8. Graph'
    <3>1. UNCHANGED <<commits, main>>
      BY <1>3
    <3> QED
      BY <3>1, GraphStays DEF Inv
  <2>9. Published'
    <3>1. CASE r0.way = "INTEGRATED"
      BY <1>5, <2>7, <3>1, PublishedStays DEF Inv
    <3>2. CASE r0.way # "INTEGRATED"
      <4>1. r0.on = TaskBranchName => \A c \in Ids \ {r0.made} : r0.made \notin Past(c)
        BY <1>1, <1>3 DEF Inv, Secrets, Secret, Holds, Unpushed, Unseen
      <4>2. Fits(r0.on, r0.made)'
        BY <2>4, <2>7, <3>2, FitsStays DEF Inv
      <4> QED
        BY <1>5, <2>7, <3>2, <4>1, <4>2, PublishedMoves DEF Inv
    <3> QED
      BY <3>1, <3>2
  <2>10. RunnerSound(job, r)'
    <3>1. RunnerSound(job, r0)'
      BY <1>2, <2>7, RunnerStays DEF Inv
    <3>2. WasPublished(r.on, r.made)'
      <4>1. r0.way = "INTEGRATED" => r0.on # TaskBranchName /\ r0.made = Last(r0.on) /\ r0.made \in Past(main)
        BY <1>2, <1>3 DEF RunnerSound, Unpushed
      <4> QED
        BY <2>3, <2>4, <2>5, <2>6, <4>1 DEF WasPublished
    <3> QED
      BY <1>3, <2>3, <3>1, <3>2 DEF RunnerSound, Unpushed, Pushed
  <2>11. JobSound(job)' /\ RunSound(run)'
    BY <1>2, <2>7, JobStays, RunStays DEF Inv
  <2>12. OnlyRow(j, job, run, r)
    <3>1. Typed /\ jobs \in Seq(JobRows) /\ runs \in Seq(RunRows) /\ Len(runs) = Len(jobs)
      BY DEF Inv, Typed
    <3> QED
      BY <1>1, <2>1, <2>2, <2>3, <3>1, RunnersSet DEF OnlyRow
  <2>13. TaskStays
    BY <1>3, <2>1, <2>5 DEF TaskStays, Inv, Typed
  <2>14. \A k \in DOMAIN jobs \ {j} : \A c : (Holds(k) /\ c = runners[k].made) => Unseen(c)'
    <3> SUFFICES ASSUME NEW k \in DOMAIN jobs \ {j}, Holds(k), NEW c, c = runners[k].made
                 PROVE  Unseen(c)'
      OBVIOUS
    <3>1. Unseen(c) /\ r0.made # c
      BY <1>1, <1>3 DEF Inv, Secrets, Secret, Unpushed
    <3> QED
      BY <1>3, <2>5, <2>6, <3>1 DEF Unseen
  <2>15. Typed' /\ Rows' /\ Secrets'
    <3>1. r.step \notin Unpushed /\ r.step # "work"
      BY <2>3 DEF Unpushed
    <3> QED
      BY <2>7, <2>10, <2>11, <2>12, <2>13, <2>14, <3>1, RowsMove DEF Inv
  <2> QED
    BY <2>8, <2>9, <2>15 DEF Inv
<1> QED
  BY <1>1, <1>4, <1>5 DEF Push

-----------------------------------------------------------------------------
\* The objects of a clone are commits, the heads among them.
LEMMA ObjectsExist ==
  ASSUME Graph, Published
  PROVE  Objects \subseteq Ids /\ \A b \in DOMAIN origin : origin[b] \in Ids /\ origin[b] # 0
<1>1. \A b \in DOMAIN origin : origin[b] \in Ids
  BY DEF Published, Fits
<1>2. Heads \subseteq Ids
  BY <1>1 DEF Heads, Graph
<1>3. Objects \subseteq Ids
  BY <1>2, PastIsBelow DEF Objects, Past
<1> QED
  BY <1>1, <1>3, PastIsBelow

\* A branch is taken for rewritten only when it was.
LEMMA DivergedIsRewritten ==
  ASSUME Graph, Published, NEW b, NEW c, b \in DOMAIN origin, WasPublished(b, c), OneAbove(b, c),
         Continuity(commits, c, origin[b], Objects) = "DIVERGED"
  PROVE  Rewritten(b)
<1>1. PICK h : h = origin[b] /\ h \in Ids /\ Fits(b, h) /\ <<b, h>> \in carried
  BY DEF Published, Fits
<1>2. c # 0 /\ c # h /\ c \notin Past(h) /\ c \in Ids
  BY <1>1 DEF Continuity, IsAncestor, Past, WasPublished
<1>3. CASE b = TaskBranchName
  <2>1. <<b, c>> \in carried /\ h \notin Past(c)
    BY <1>1, <1>2, <1>3 DEF WasPublished, Published
  <2> QED
    BY <1>1, <1>2, <2>1 DEF Rewritten, IsAncestor, Past
<1>4. CASE b # TaskBranchName
  <2>1. PICK base : base = Last(b) /\ base \in Past(Parent(h)) /\ Parent(h) \in Ids /\ base \in Ids
    BY <1>1, <1>2, <1>4, PastIsBelow DEF Fits, OneAbove
  <2>2. Past(Parent(h)) \subseteq Past(h) /\ base \in Past(h)
    BY <1>1, <2>1 DEF Fits
  <2>3. c # base /\ <<b, c>> \in carried /\ Past(c) = Past(base) \cup {c}
    BY <1>2, <1>4, <2>1, <2>2 DEF WasPublished, OneAbove
  <2>4. h \notin Past(base)
    <3>1. Past(base) \subseteq 1..base /\ Past(Parent(h)) \subseteq 1..Parent(h) /\ Parent(h) \in 0..(h - 1)
          /\ base \in Nat /\ Parent(h) \in Nat /\ h \in Nat
      BY <1>1, <2>1, PastIsBelow DEF Graph
    <3> QED
      BY <2>1, <3>1
  <2>5. h \notin Past(c)
    BY <1>2, <2>3, <2>4
  <2> QED
    BY <1>1, <1>2, <2>3, <2>5 DEF Rewritten, IsAncestor, Past
<1> QED
  BY <1>3, <1>4

\* What a runner at its checkout goes by.
LEMMA HeldCopy ==
  ASSUME Inv, NEW j \in DOMAIN jobs, At(j, "checkout"), jobs[j].status = "QUEUED" \/ Held(j).clones > 0,
         NEW held, held = Held(j)
  PROVE  /\ held \in RunnerRows /\ held.step = "checkout" /\ held.way = "PUSH" /\ held.known \subseteq Ids
         /\ held.branch = jobs[j].prefix /\ Copy(jobs[j], held.branch, held.commit)
         /\ OneAbove(held.branch, held.commit)
<1>1. PICK job, r0 : job = jobs[j] /\ r0 = runners[j]
  OBVIOUS
<1>2. /\ job \in JobRows /\ r0 \in RunnerRows /\ JobSound(job) /\ RunnerSound(job, r0) /\ r0.step = "checkout"
  BY <1>1, RowsOf DEF Inv, At
<1>3. CASE r0.clones > 0
  <2>1. held = r0
    BY <1>1, <1>3 DEF Held
  <2> QED
    BY <1>1, <1>2, <1>3, <2>1 DEF RunnerSound, Copy, RunnerRows
<1>4. CASE ~(r0.clones > 0)
  <2>1. held = [r0 EXCEPT !.branch = job.branch, !.commit = job.commit]
    BY <1>1, <1>4 DEF Held
  <2>2. /\ held \in RunnerRows /\ held.step = "checkout" /\ held.way = r0.way /\ held.known = r0.known
        /\ held.branch = job.branch /\ held.commit = job.commit /\ held.clones = r0.clones
    BY <1>2, <2>1 DEF RunnerRows, JobRows
  <2>3. job.status = "QUEUED"
    BY <1>1, <1>4, <2>2
  <2> QED
    BY <1>1, <1>2, <2>2, <2>3 DEF JobSound, RunnerSound, Copy, JobRows
<1> QED
  BY <1>3, <1>4

\* A checkout: claimed, refused, quarantined or healed.
LEMMA CheckoutStep ==
  ASSUME Inv, NEW j \in DOMAIN jobs, NEW clean \in BOOLEAN, Checkout(j, clean)
  PROVE  Inv'
<1>1. PICK old, job, run, r0, held : /\ old = jobs[j] /\ job = jobs'[j] /\ run = runs[j] /\ r0 = runners[j]
                                     /\ held = Held(j)
  OBVIOUS
<1> DEFINE b == held.branch
           h == IF On(b) # 0 THEN On(b) ELSE main
           continuity == IF On(b) # 0 THEN Continuity(commits, held.commit, h, Objects) ELSE "MATCH"
           given == IF continuity = "MATCH" THEN held.commit ELSE h
           step == IF clean THEN "work" ELSE "checkout"
           new == [held EXCEPT !.step = step, !.clones = @ + 1, !.at = h, !.known = Objects]
<1>2. /\ At(j, "checkout") /\ (jobs[j].status = "QUEUED" \/ held.clones > 0)
      /\ UNCHANGED <<repository, outside>>
      /\ \/ continuity = "DIVERGED" /\ Abort(j, held, "DIVERGED", task)
         \/ \E error \in {"BASE_MOVED", "UNCLEAN"} : Abort(j, held, error, task)
         \/ /\ continuity # "DIVERGED"
            /\ WriteJob(j, "RUNNING", b, given, "none")
            /\ runners' = [runners EXCEPT ![j] = new]
            /\ UNCHANGED <<task, manifest, runs>>
  BY <1>1 DEF Checkout
<1>3. /\ held \in RunnerRows /\ held.step = "checkout" /\ held.way = "PUSH" /\ held.known \subseteq Ids
      /\ b = old.prefix /\ Copy(old, b, held.commit) /\ OneAbove(b, held.commit)
  BY <1>1, <1>2, HeldCopy
<1>4. /\ old \in JobRows /\ run \in RunRows /\ JobSound(old) /\ RunSound(run)
  BY <1>1, RowsOf DEF Inv
<1>5. /\ On(b) # 0 <=> b \in DOMAIN origin
      /\ On(b) # 0 => h = origin[b] /\ h \in Ids /\ <<b, h>> \in carried
      /\ On(b) = 0 => h = main
      /\ h \in Ids
  BY ObjectsExist DEF On, Inv, Graph, Published
<1>6. /\ task \in {"PLANNED", "IMPLEMENTING", "READY", "BLOCKED"} /\ outside' \in Nat
      /\ {"DIVERGED", "BASE_MOVED", "UNCLEAN", "none"} \subseteq Errors
  BY <1>2 DEF Inv, Typed, Errors
<1>7. CASE continuity = "DIVERGED" /\ Abort(j, held, "DIVERGED", task)
  <2>1. b \in DOMAIN origin /\ h = origin[b] /\ continuity = Continuity(commits, held.commit, h, Objects)
    BY <1>5, <1>7
  <2>2. Rewritten(b)
    BY <1>3, <1>7, <2>1, DivergedIsRewritten DEF Inv, Copy
  <2> QED
    BY <1>1, <1>2, <1>3, <1>6, <1>7, <2>2, AbortStep
<1>8. ASSUME NEW error \in {"BASE_MOVED", "UNCLEAN"}, Abort(j, held, error, task) PROVE Inv'
  BY <1>1, <1>2, <1>3, <1>6, <1>8, AbortStep
<1>9. CASE /\ continuity # "DIVERGED"
           /\ WriteJob(j, "RUNNING", b, given, "none")
           /\ runners' = [runners EXCEPT ![j] = new]
           /\ UNCHANGED <<task, manifest, runs>>
  <2>1. given = held.commit \/ (On(b) # 0 /\ given = h)
    OBVIOUS
  <2>2. Copy(old, b, given)
    <3>1. On(b) # 0 => WasPublished(b, h) /\ KeepsBothSides(old, b, h) /\ h \in Nat
      BY <1>3, <1>5, PastIsBelow DEF WasPublished, KeepsBothSides, Inv
    <3> QED
      BY <1>3, <2>1, <3>1 DEF Copy
  <2>3. PICK r : r = new /\ runners' = [runners EXCEPT ![j] = r]
    BY <1>9
  <2>4. /\ r \in RunnerRows /\ r.step = step /\ r.branch = b /\ r.commit = held.commit
        /\ r.at = h /\ r.known = Objects /\ r.way = "PUSH"
    <3>1. step \in Steps /\ h \in Nat /\ Objects \in SUBSET Nat
      BY <1>5, ObjectsExist, PastIsBelow DEF Steps, Inv
    <3> HIDE DEF step, h
    <3>2. held.clones \in Nat /\ held.clones + 1 \in Nat
      BY <1>3 DEF RunnerRows
    <3>3. new = [held EXCEPT !.step = step, !.clones = held.clones + 1, !.at = h, !.known = Objects]
      OBVIOUS
    <3>4. new \in RunnerRows
      BY <1>3, <3>1, <3>2, <3>3 DEF RunnerRows
    <3> QED
      BY <1>3, <2>3, <3>3, <3>4 DEF RunnerRows
  <2>5. /\ jobs' \in Seq(JobRows) /\ Len(jobs') = Len(jobs)
        /\ \A k \in DOMAIN jobs \ {j} : jobs'[k] = jobs[k]
        /\ Rewrites(old, job, "RUNNING", b, given, "none")
    <3>1. Typed /\ b \in Branches /\ given \in Nat /\ "RUNNING" \in InFlight /\ "none" \in Errors
      BY <1>6, <2>2 DEF Inv, Copy, InFlight
    <3> HIDE DEF given, b
    <3> QED
      BY <1>1, <1>9, <3>1, Written
  <2> HIDE DEF b, h, continuity, given, new
  <2>6. RunnerSound(old, r)
    <3>1. Objects \subseteq Ids /\ step \in {"work", "checkout"}
      BY ObjectsExist DEF Inv
    <3> QED
      BY <1>3, <1>5, <2>4, <3>1 DEF RunnerSound, Copy, Unpushed, Pushed
  <2>7. JobSound(job) /\ RunnerSound(job, r)
    <3>1. JobSound(job)
      BY <1>4, <2>2, <2>5, JobWritten
    <3> QED
      BY <2>5, <2>6, <3>1, SoundForRow DEF Rewrites
  <2>8. Grows /\ Ids' = Ids
    BY <1>2, RepositoryStays DEF Inv
  <2>9. JobSound(job)' /\ RunSound(run)' /\ RunnerSound(job, r)'
    BY <1>4, <2>7, <2>8, JobStays, RunStays, RunnerStays DEF Inv
  <2>10. OnlyRow(j, job, run, r)
    <3>1. Typed /\ runs \in Seq(RunRows) /\ Len(runs) = Len(jobs)
      BY DEF Inv, Typed
    <3> QED
      BY <1>1, <1>9, <2>3, <2>4, <2>5, <3>1, RunnersSet DEF OnlyRow
  <2>11. TaskStays
    BY <1>2, <1>9, <2>8 DEF TaskStays, Inv, Typed
  <2>12. \A k \in DOMAIN jobs \ {j} : Holds(k) => r.at # runners[k].made
    <3> SUFFICES ASSUME NEW k \in DOMAIN jobs, Holds(k) PROVE h # runners[k].made
      BY <2>4
    <3>1. Unseen(runners[k].made)
      BY DEF Inv, Secrets, Secret
    <3> QED
      BY <1>5, <3>1 DEF Unseen
  <2>13. r.step \notin Unpushed
    BY <2>4 DEF Unpushed
  <2> QED
    BY <1>2, <2>9, <2>10, <2>11, <2>12, <2>13, RowsMoveAlone
<1> QED
  BY <1>2, <1>7, <1>8, <1>9

\* The engine's change set is committed.
LEMMA ImplementStep ==
  ASSUME Inv, NEW j \in DOMAIN jobs, Implement(j)
  PROVE  Inv'
<1>1. PICK job, run, r0 : job = jobs[j] /\ run = runs[j] /\ r0 = runners[j]
  OBVIOUS
<1>2. /\ job \in JobRows /\ run \in RunRows /\ r0 \in RunnerRows
      /\ JobSound(job) /\ RunSound(run) /\ RunnerSound(job, r0)
  BY <1>1, RowsOf DEF Inv
<1>3. PICK tree : tree = [p \in Paths |-> IF p \in job.wanted THEN "task" ELSE commits[r0.at].tree[p]]
  OBVIOUS
<1>4. /\ r0.step = "work" /\ job.kind = "IMPLEMENTATION" /\ outside' = outside
      /\ \/ Abort(j, r0, "NO_DIFF", task) /\ UNCHANGED repository
         \/ /\ commits' = Append(commits, Commit(r0.at, {}, tree))
            /\ runners' = [runners EXCEPT ![j].step = "record", ![j].made = NextId,
                                          ![j].base = r0.at, ![j].on = TaskBranchName]
            /\ UNCHANGED <<main, origin, carried, records>>
  BY <1>1, <1>3 DEF Implement, At, others
<1>5. CASE Abort(j, r0, "NO_DIFF", task) /\ UNCHANGED repository
  <2>1. task \in {"PLANNED", "IMPLEMENTING", "READY", "BLOCKED"} /\ outside' \in Nat /\ "NO_DIFF" \in Errors
    BY <1>4 DEF Inv, Typed, Errors
  <2> QED
    BY <1>1, <1>5, <2>1, RunnersCopy, AbortStep
<1>6. CASE /\ commits' = Append(commits, Commit(r0.at, {}, tree))
           /\ runners' = [runners EXCEPT ![j].step = "record", ![j].made = NextId,
                                         ![j].base = r0.at, ![j].on = TaskBranchName]
           /\ UNCHANGED <<main, origin, carried, records>>
  <2>1. PICK n, q : n = NextId /\ q = r0.at /\ q \in Ids
    BY <1>2, <1>4 DEF RunnerSound
  <2>2. tree \in [Paths -> Contents]
    <3>1. commits[q].tree \in [Paths -> Contents]
      BY <2>1, TreeOf DEF Inv
    <3> QED
      BY <1>3, <2>1, <3>1 DEF Contents
  <2>3. /\ Grows /\ Graph' /\ n \in Ids' /\ n \notin Ids /\ n # 0
        /\ Past(n)' = Past(q) \cup {n} /\ Ids' = Ids \cup {n}
        /\ \A c \in Ids : n \notin Past(c)
        /\ Fits(TaskBranchName, n)'
    <3>1. /\ Graph /\ Published /\ TaskBranchName \in Branches
          /\ commits' = Append(commits, Commit(q, {}, tree)) /\ main' = main /\ carried \subseteq carried'
      BY <1>6, <2>1 DEF Inv, Branches, TaskBranchName
    <3> QED
      BY <2>1, <2>2, <3>1, Commits1
  <2>4. Published'
    BY <1>6, <2>3, PublishedStays DEF Inv
  <2>5. UNCHANGED <<task, manifest, jobs, runs>>
    BY <1>6 DEF records
  <2> DEFINE new == [r0 EXCEPT !.step = "record", !.made = n, !.base = q, !.on = TaskBranchName]
  <2>6. PICK r : r = new /\ runners' = [runners EXCEPT ![j] = r]
    BY <1>1, <1>6, <2>1
  <2>7. /\ r \in RunnerRows /\ r.step = "record" /\ r.made = n /\ r.base = q /\ r.on = TaskBranchName
        /\ r.branch = r0.branch /\ r.commit = r0.commit /\ r.way = r0.way /\ r.known = r0.known
    <3>1. n \in Nat /\ q \in Nat /\ TaskBranchName \in Branches
      BY <2>1, PastIsBelow DEF Inv, TaskBranchName, Branches
    <3>2. new \in RunnerRows
      BY <1>2, <3>1 DEF RunnerRows, Steps
    <3> QED
      BY <1>2, <2>6, <3>2 DEF RunnerRows
  <2> HIDE DEF new
  <2>8. RunnerSound(job, r)'
    <3>1. RunnerSound(job, r0)' /\ q \in Ids'
      BY <1>2, <2>1, <2>3, RunnerStays DEF Inv
    <3>2. job.prefix = TaskBranchName
      BY <1>2, <1>4 DEF JobSound
    <3>3. OneAbove(TaskBranchName, n)' /\ KeepsBothSides(job, TaskBranchName, n)'
      BY <3>2 DEF OneAbove, KeepsBothSides
    <3> QED
      BY <1>4, <2>3, <2>7, <3>1, <3>2, <3>3 DEF RunnerSound, Unpushed, Pushed
  <2>9. JobSound(job)' /\ RunSound(run)'
    BY <1>2, <2>3, JobStays, RunStays DEF Inv
  <2>10. OnlyRow(j, job, run, r)
    <3>1. Typed /\ jobs \in Seq(JobRows) /\ runs \in Seq(RunRows) /\ Len(runs) = Len(jobs)
      BY DEF Inv, Typed
    <3> QED
      BY <1>1, <2>5, <2>6, <2>7, <3>1, RunnersSet DEF OnlyRow
  <2>11. TaskStays
    BY <1>4, <2>3, <2>5 DEF TaskStays, Inv, Typed
  <2>12. \A k \in DOMAIN jobs \ {j} : \A c : (Holds(k) /\ c = runners[k].made) => Unseen(c)' /\ n # c
    <3> SUFFICES ASSUME NEW k \in DOMAIN jobs \ {j}, Holds(k), NEW c, c = runners[k].made
                 PROVE  Unseen(c)' /\ n # c
      OBVIOUS
    <3>1. Unseen(c) /\ q # c /\ c \in Ids
      BY <1>1, <1>4, <2>1, RowsOf DEF Inv, Secrets, Secret, Holds, RunnerSound
    <3>2. /\ commits'[n].past = Past(q) \cup {n} /\ commits'[n].parent = q
          /\ \A d \in Ids : commits'[d] = commits[d]
      BY <1>6, <2>1, <2>2, GraphLinear DEF Inv
    <3>3. c \notin commits'[n].past
      BY <2>1, <2>3, <3>1, <3>2 DEF Unseen
    <3> QED
      BY <1>6, <2>3, <3>1, <3>2, <3>3, UnseenStays DEF Inv
  <2>13. /\ Unseen(n)'
         /\ \A k \in DOMAIN jobs \ {j} : /\ runners[k].step = "work" => runners[k].at # n
                                         /\ runners[k].step \in Unpushed => runners[k].made # n
    <3>1. Unseen(n)'
      BY <1>6, <2>1, <2>2, NewestIsUnseen DEF Inv
    <3>2. \A k \in DOMAIN jobs : /\ runners[k].step = "work" => runners[k].at \in Ids
                                 /\ runners[k].step \in Unpushed => runners[k].made \in Ids
      BY RowsOf DEF Inv, RunnerSound
    <3> QED
      BY <2>3, <3>1, <3>2
  <2>14. Typed' /\ Rows' /\ Secrets'
    BY <2>3, <2>7, <2>8, <2>9, <2>10, <2>11, <2>12, <2>13, RowsMove DEF Inv
  <2> QED
    BY <2>3, <2>4, <2>14 DEF Inv
<1> QED
  BY <1>4, <1>5, <1>6

\* Path by path, what a transfer takes from where.
LEMMA TransferredKeeps ==
  ASSUME Graph, NEW s \in Ids, NEW tree, tree = Transferred(commits, main, s, "resolved"),
         NEW path \in Paths, NEW fork, fork = MergeBase(commits, main, s)
  PROVE  /\ commits[s].tree[path] = commits[fork].tree[path] => tree[path] = commits[main].tree[path]
         /\ commits[main].tree[path] = commits[fork].tree[path] => tree[path] = commits[s].tree[path]
         /\ tree[path] \notin {commits[main].tree[path], commits[s].tree[path]}
              => tree[path] = "resolved" /\ path \in Conflicts(commits, main, s)
<1>1. DOMAIN commits[main].tree = Paths /\ DOMAIN commits[s].tree = Paths
  BY TreeOf DEF Graph
<1>2. path \in Conflicts(commits, main, s) <=> /\ commits[fork].tree[path] # commits[main].tree[path]
                                               /\ commits[fork].tree[path] # commits[s].tree[path]
                                               /\ commits[main].tree[path] # commits[s].tree[path]
  BY <1>1 DEF Conflicts, ChangedPaths
<1>3. Merged(commits, main, s)[path] = IF commits[fork].tree[path] # commits[s].tree[path]
                                       THEN commits[s].tree[path] ELSE commits[main].tree[path]
  BY <1>1 DEF Merged, ChangedPaths
<1>4. tree[path] = IF path \in Conflicts(commits, main, s) THEN "resolved" ELSE Merged(commits, main, s)[path]
  BY <1>1 DEF Transferred
<1> QED
  BY <1>2, <1>3, <1>4

\* The transferred tree is one.
LEMMA TransferredIsTree ==
  ASSUME Graph, NEW s \in Ids
  PROVE  Transferred(commits, main, s, "resolved") \in [Paths -> Contents]
<1>1. commits[main].tree \in [Paths -> Contents] /\ commits[s].tree \in [Paths -> Contents]
  BY TreeOf DEF Graph
<1>2. Merged(commits, main, s) \in [Paths -> Contents]
  BY <1>1 DEF Merged
<1> QED
  BY <1>1, <1>2 DEF Transferred, Contents

\* A transfer onto the default branch has got a commit to record.
Going(j, branch, m, seen, made, way) ==
    /\ runners' = [runners EXCEPT ![j].step = "record", ![j].made = made, ![j].way = way,
                                  ![j].base = m, ![j].on = branch, ![j].seen = seen]
    /\ UNCHANGED <<task, manifest, jobs, runs, outside>>
SecretsKept(made) ==
    \A k \in DOMAIN jobs : \A c : (Holds(k) /\ c = runners[k].made) => Unseen(c)' /\ made # c

\* A transfer that goes on, whichever commit it goes on with, keeps the
\* invariant.
LEMMA TransferRecorded ==
  ASSUME Inv, NEW j \in DOMAIN jobs, NEW job, job = jobs[j], job.kind = "REBASE", At(j, "work"),
         NEW m, m = main, NEW branch, branch = RebaseBranch(job.prefix, m),
         NEW made, NEW way \in {"PUSH", "LEASE", "INTEGRATED"}, NEW seen \in Nat,
         Going(j, branch, m, seen, made, way),
         Grows, Graph', Published', made \in Ids',
         OneAbove(branch, made)', KeepsBothSides(job, branch, made)',
         way = "INTEGRATED" => made = m, way # "INTEGRATED" => Fits(branch, made)',
         way = "LEASE" => seen \in Ids' /\ ~SameTransfer(commits'[seen], commits'[made]),
         SecretsKept(made)
  PROVE  Inv'
<1>1. PICK run, r0 : run = runs[j] /\ r0 = runners[j]
  OBVIOUS
<1>2. /\ job \in JobRows /\ run \in RunRows /\ r0 \in RunnerRows /\ r0.step = "work"
      /\ JobSound(job) /\ RunSound(run) /\ RunnerSound(job, r0)
  BY <1>1, RowsOf DEF Inv, At
<1>3. m \in Ids /\ m \in Nat /\ m \in Past(main)'
  BY PastIsBelow DEF Inv, Graph, Grows
<1>4. branch \in Branches /\ branch # TaskBranchName /\ branch # job.prefix /\ Last(branch) = m
  <2>1. job.prefix \in Seq(Nat) /\ branch = Append(job.prefix, m)
    BY <1>1, <1>2, <1>3 DEF JobRows, Branches, RebaseBranch
  <2>2. Len(branch) = Len(job.prefix) + 1 /\ Len(job.prefix) \in Nat
    BY <1>3, <2>1
  <2>3. branch # job.prefix /\ branch # <<>>
    BY <2>2
  <2>4. branch \in Seq(Nat) /\ branch[Len(branch)] = m
    BY <1>3, <2>1
  <2> QED
    BY <2>3, <2>4 DEF Branches, TaskBranchName, Last
<1>5. made \in Nat
  BY PastIsBelow DEF Graph, Ids
<1> DEFINE new == [r0 EXCEPT !.step = "record", !.made = made, !.way = way, !.base = m, !.on = branch, !.seen = seen]
<1>6. PICK r : r = new /\ runners' = [runners EXCEPT ![j] = r]
  <2>1. runners' = [runners EXCEPT ![j].step = "record", ![j].made = made, ![j].way = way,
                                   ![j].base = m, ![j].on = branch, ![j].seen = seen]
    BY DEF Going
  <2>2. runners' = [runners EXCEPT ![j] = [runners[j] EXCEPT !.step = "record", !.made = made, !.way = way,
                                                             !.base = m, !.on = branch, !.seen = seen]]
    BY <2>1
  <2> QED
    BY <1>1, <2>2
<1>7. /\ r \in RunnerRows /\ r.step = "record" /\ r.made = made /\ r.base = m /\ r.on = branch /\ r.way = way
      /\ r.seen = seen /\ r.branch = r0.branch /\ r.commit = r0.commit /\ r.known = r0.known
  <2>1. new \in RunnerRows
    BY <1>2, <1>3, <1>4, <1>5 DEF RunnerRows, Steps
  <2> QED
    BY <1>2, <1>6, <2>1 DEF RunnerRows
<1> HIDE DEF new
<1>8. RunnerSound(job, r)'
  <2>1. RunnerSound(job, r0)' /\ m \in Ids'
    BY <1>2, <1>3, RunnerStays DEF Inv, Grows
  <2>2. job.kind # "IMPLEMENTATION" /\ KeepsBothSides(job, branch, made)'
    BY <1>1
  <2> QED
    BY <1>2, <1>3, <1>4, <1>7, <2>1, <2>2 DEF RunnerSound, Unpushed, Pushed
<1>9. JobSound(job)' /\ RunSound(run)'
  BY <1>2, JobStays, RunStays DEF Inv
<1>10. OnlyRow(j, job, run, r)
  <2>1. Typed /\ jobs \in Seq(JobRows) /\ runs \in Seq(RunRows) /\ Len(runs) = Len(jobs)
    BY DEF Inv, Typed
  <2>2. UNCHANGED <<jobs, runs>>
    BY DEF Going
  <2> QED
    BY <1>1, <1>6, <1>7, <2>1, <2>2, RunnersSet DEF OnlyRow
<1>11. TaskStays
  BY DEF TaskStays, Inv, Typed, Grows, Going
<1>12. Typed' /\ Rows' /\ Secrets'
  <2>1. \A k \in DOMAIN jobs \ {j} : \A c : (Holds(k) /\ c = runners[k].made) => Unseen(c)' /\ made # c
    BY DEF SecretsKept
  <2> QED
  BY <2>1, <1>4, <1>7, <1>8, <1>9, <1>10, <1>11, RowsMove DEF Inv
<1> QED
  BY <1>12 DEF Inv

\* A transfer stops, finds the work integrated, adopts what is published, or
\* makes a commit.
LEMMA TransferStep ==
  ASSUME Inv, NEW j \in DOMAIN jobs, Transfer(j)
  PROVE  Inv'
<1>1. PICK job, r0, branch, seen, error, tree, m :
         /\ job = jobs[j] /\ r0 = runners[j] /\ branch = RebaseBranch(job.prefix, main) /\ seen = On(branch)
         /\ error = TransferError(job, r0.known \cup commits[main].past)
         /\ tree = Transferred(commits, main, job.source, "resolved") /\ m = main
  OBVIOUS
<1> DEFINE Go(made, way) == Going(j, branch, m, seen, made, way)
           local == [parent |-> m, tree |-> tree]
<1>2. /\ At(j, "work") /\ job.kind = "REBASE" /\ UNCHANGED <<main, origin, carried, outside>>
      /\ \/ /\ error # "none" /\ UNCHANGED commits
            /\ Abort(j, r0, error, IF error = "CONFLICTS" THEN "BLOCKED" ELSE task)
         \/ error = "none" /\ tree = commits[m].tree /\ Go(m, "INTEGRATED") /\ UNCHANGED commits
         \/ error = "none" /\ Publication(commits, seen, local) = "ADOPT" /\ Go(seen, "PUSH") /\ UNCHANGED commits
         \/ /\ error = "none" /\ Publication(commits, seen, local) # "ADOPT"
            /\ Go(NextId, IF Publication(commits, seen, local) = "REPLACE" THEN "LEASE" ELSE "PUSH")
            /\ commits' = Append(commits, Commit(m, {}, tree))
  BY <1>1 DEF Transfer, records, others, Going
<1>3. /\ job \in JobRows /\ r0 \in RunnerRows /\ JobSound(job) /\ RunnerSound(job, r0) /\ job.source \in Ids
  BY <1>1, <1>2, RowsOf DEF Inv, JobSound
<1>4. m \in Ids /\ m \in Past(m) /\ m \in Nat /\ m # 0
  BY <1>1, PastIsBelow DEF Inv, Graph
<1>5. branch \in Branches /\ branch # TaskBranchName /\ Last(branch) = m
  <2>1. job.prefix \in Seq(Nat) /\ branch = Append(job.prefix, m)
    BY <1>1, <1>3 DEF JobRows, Branches, RebaseBranch
  <2> QED
    BY <1>4, <2>1 DEF Branches, TaskBranchName, Last
<1>6. error = "none" => Conflicts(commits, main, job.source) \subseteq job.wanted
  BY <1>1 DEF TransferError
<1>7. error \in Errors
  BY <1>1 DEF TransferError, Errors, TransferErrors
<1>8. seen # 0 => seen \in Ids /\ <<branch, seen>> \in carried /\ Fits(branch, seen) /\ branch \in DOMAIN origin
                  /\ seen = origin[branch]
  BY <1>1 DEF On, Inv, Published, Fits
<1>9. seen \in Nat
  BY <1>8, PastIsBelow DEF Inv
<1>10. \A k \in DOMAIN jobs : \A c : (Holds(k) /\ c = runners[k].made) =>
          Unseen(c) /\ c \in Ids /\ c # m /\ (seen # 0 => c # seen)
  <2> SUFFICES ASSUME NEW k \in DOMAIN jobs, Holds(k), NEW c, c = runners[k].made
               PROVE  Unseen(c) /\ c \in Ids /\ c # m /\ (seen # 0 => c # seen)
    OBVIOUS
  <2>1. Unseen(c) /\ c \in Ids
    BY RowsOf DEF Inv, Secrets, Secret, Holds, RunnerSound
  <2> QED
    BY <1>1, <1>8, <2>1 DEF Unseen
<1>11. tree \in [Paths -> Contents]
  BY <1>1, <1>3, TransferredIsTree DEF Inv
\* A commit with the transferred tree keeps both sides.
<1>12. ASSUME NEW c \in Ids, commits[c].tree = tree, error = "none"
       PROVE  KeepsBothSides(job, branch, c)
  <2>1. PICK fork : fork = MergeBase(commits, m, job.source)
    OBVIOUS
  <2>2. \A path \in Paths :
            /\ commits[job.source].tree[path] = commits[fork].tree[path] => tree[path] = commits[m].tree[path]
            /\ commits[m].tree[path] = commits[fork].tree[path] => tree[path] = commits[job.source].tree[path]
            /\ tree[path] \notin {commits[m].tree[path], commits[job.source].tree[path]}
                 => tree[path] = "resolved" /\ path \in job.wanted
    BY <1>1, <1>3, <1>6, <1>12, <2>1, TransferredKeeps DEF Inv
  <2> QED
    BY <1>3, <1>4, <1>5, <1>12, <2>1, <2>2 DEF KeepsBothSides
<1>13. CASE error # "none" /\ Abort(j, r0, error, IF error = "CONFLICTS" THEN "BLOCKED" ELSE task) /\ UNCHANGED commits
  <2>1. PICK state : /\ state = IF error = "CONFLICTS" THEN "BLOCKED" ELSE task
                     /\ state \in {"PLANNED", "IMPLEMENTING", "READY", "BLOCKED"}
    BY DEF Inv, Typed
  <2>2. UNCHANGED repository /\ outside' \in Nat
    BY <1>2, <1>13 DEF repository, Inv, Typed
  <2>3. error # "DIVERGED"
    BY <1>1 DEF TransferError
  <2> QED
    BY <1>1, <1>7, <1>13, <2>1, <2>2, <2>3, RunnersCopy, AbortStep
<1>14. CASE error = "none" /\ tree = commits[m].tree /\ Go(m, "INTEGRATED") /\ UNCHANGED commits
  <2>1. UNCHANGED repository
    BY <1>2, <1>14 DEF repository
  <2>2. Grows /\ Graph' /\ Published' /\ Ids' = Ids /\ \A c : Unseen(c)' <=> Unseen(c)
    BY <2>1, RepositoryStays DEF Inv
  <2>3. OneAbove(branch, m)'
    BY <1>4, <1>5, <2>2 DEF OneAbove
  <2>4. KeepsBothSides(job, branch, m)'
    <3>1. KeepsBothSides(job, branch, m)
      BY <1>4, <1>12, <1>14
    <3> QED
      BY <2>2, <3>1, KeepsStays DEF Inv
  <2>5. SecretsKept(m)
    BY <1>10, <2>2 DEF SecretsKept
  <2>6. m \in Ids' /\ Going(j, branch, m, seen, m, "INTEGRATED")
    BY <1>4, <1>14, <2>2
  <2>7. branch = RebaseBranch(job.prefix, m) /\ job = jobs[j] /\ m = main
    BY <1>1
  <2> QED
    BY <1>2, <1>9, <2>2, <2>3, <2>4, <2>5, <2>6, <2>7, TransferRecorded
<1>15. CASE error = "none" /\ Publication(commits, seen, local) = "ADOPT" /\ Go(seen, "PUSH") /\ UNCHANGED commits
  <2>1. UNCHANGED repository
    BY <1>2, <1>15 DEF repository
  <2>2. Grows /\ Graph' /\ Published' /\ Ids' = Ids /\ \A c : Unseen(c)' <=> Unseen(c)
    BY <2>1, RepositoryStays DEF Inv
  <2>3. seen # 0 /\ commits[seen].tree = tree /\ commits[seen].parent = m
    BY <1>15 DEF Publication, SameTransfer
  <2>4. OneAbove(branch, seen) /\ Fits(branch, seen) /\ KeepsBothSides(job, branch, seen)
    BY <1>4, <1>5, <1>8, <1>12, <1>15, <2>3 DEF OneAbove, Fits, Parent
  <2>5. OneAbove(branch, seen)' /\ Fits(branch, seen)' /\ KeepsBothSides(job, branch, seen)'
    BY <1>8, <2>2, <2>3, <2>4, OneAboveStays, FitsStays, KeepsStays DEF Inv
  <2>6. SecretsKept(seen)
    BY <1>10, <2>2, <2>3 DEF SecretsKept
  <2>7. seen \in Ids' /\ Going(j, branch, m, seen, seen, "PUSH")
    BY <1>8, <1>15, <2>2, <2>3
  <2>8. branch = RebaseBranch(job.prefix, m) /\ job = jobs[j] /\ m = main
    BY <1>1
  <2> QED
    BY <1>2, <1>9, <2>2, <2>5, <2>6, <2>7, <2>8, TransferRecorded
<1>16. CASE /\ error = "none" /\ Publication(commits, seen, local) # "ADOPT"
            /\ Go(NextId, IF Publication(commits, seen, local) = "REPLACE" THEN "LEASE" ELSE "PUSH")
            /\ commits' = Append(commits, Commit(m, {}, tree))
  <2>1. PICK n, way : /\ n = NextId /\ way = IF Publication(commits, seen, local) = "REPLACE" THEN "LEASE" ELSE "PUSH"
                      /\ Go(n, way)
    BY <1>16
  <2>2. /\ Grows /\ Graph' /\ n \in Ids' /\ n \notin Ids /\ Ids' = Ids \cup {n}
        /\ commits'[n].tree = tree /\ commits'[n].parent = m
        /\ Past(n)' = Past(m) \cup {n} /\ Past(m)' = Past(m)
        /\ Fits(branch, n)'
    <3>1. Graph /\ Published /\ main' = main /\ carried \subseteq carried'
      BY <1>2 DEF Inv
    <3>2. m \in Past(main)'
      BY <1>1, <1>4, <3>1, <1>16, <1>11, <2>1, Commits1 DEF Grows
    <3> QED
      BY <1>4, <1>5, <1>11, <1>16, <2>1, <3>1, <3>2, Commits1
  <2>3. Published'
    BY <1>2, <2>2, PublishedStays DEF Inv
  <2>4. OneAbove(branch, n)'
    BY <1>4, <1>5, <2>2 DEF OneAbove
  <2>5. KeepsBothSides(job, branch, n)'
    <3>1. MergeBase(commits', m, job.source) = MergeBase(commits, m, job.source) /\ MergeBase(commits, m, job.source) \in Ids
      BY <1>3, <1>4, <2>2, MergeBaseExists, MergeBaseStays DEF Inv, Grows
    <3>2. PICK fork : fork = MergeBase(commits, m, job.source) /\ fork \in Ids
      BY <3>1
    <3>3. /\ commits'[m] = commits[m] /\ commits'[job.source] = commits[job.source] /\ commits'[fork] = commits[fork]
          /\ m \in Ids' /\ job.source \in Ids'
      BY <1>3, <1>4, <2>2, <3>2 DEF Grows
    <3>4. \A path \in Paths :
            /\ commits[job.source].tree[path] = commits[fork].tree[path] => tree[path] = commits[m].tree[path]
            /\ commits[m].tree[path] = commits[fork].tree[path] => tree[path] = commits[job.source].tree[path]
            /\ tree[path] \notin {commits[m].tree[path], commits[job.source].tree[path]}
                 => tree[path] = "resolved" /\ path \in job.wanted
      BY <1>1, <1>3, <1>6, <1>16, <3>2, TransferredKeeps DEF Inv
    <3> QED
      BY <1>5, <2>2, <3>1, <3>2, <3>3, <3>4 DEF KeepsBothSides
  <2>6. way = "LEASE" => seen \in Ids' /\ ~SameTransfer(commits'[seen], commits'[n])
    <3>1. way = "LEASE" => seen # 0 /\ ~SameTransfer(commits[seen], local)
      BY <2>1 DEF Publication
    <3>2. seen # 0 => seen \in Ids' /\ commits'[seen] = commits[seen]
      BY <1>8, <2>2 DEF Grows
    <3> QED
      BY <2>2, <3>1, <3>2 DEF SameTransfer
  <2>7. SecretsKept(n)
    <3> SUFFICES ASSUME NEW k \in DOMAIN jobs, Holds(k), NEW c, c = runners[k].made
                 PROVE  Unseen(c)' /\ n # c
      BY DEF SecretsKept
    <3>1. Unseen(c) /\ c \in Ids /\ c # m
      BY <1>10
    <3>2. /\ commits'[n].past = Past(m) \cup {n} /\ \A d \in Ids : commits'[d] = commits[d]
      BY <2>2 DEF Past, Grows
    <3>3. c \notin commits'[n].past /\ n # c
      BY <1>4, <2>2, <3>1, <3>2 DEF Unseen
    <3> QED
      BY <1>2, <2>2, <3>1, <3>2, <3>3, UnseenStays DEF Inv
  <2>8. way \in {"PUSH", "LEASE", "INTEGRATED"} /\ way # "INTEGRATED"
    BY <2>1
  <2>9. branch = RebaseBranch(job.prefix, m) /\ job = jobs[j] /\ m = main /\ Going(j, branch, m, seen, n, way)
    BY <1>1, <2>1
  <2> QED
    BY <1>2, <1>9, <2>2, <2>3, <2>4, <2>5, <2>6, <2>7, <2>8, <2>9, TransferRecorded
<1> QED
  BY <1>2, <1>13, <1>14, <1>15, <1>16
-----------------------------------------------------------------------------
\* What SelectInSeq returns: 0, or an index where the test holds.
LEMMA SelectedFirst ==
  ASSUME NEW seq, Len(seq) \in Nat, NEW I \in SUBSET (1..Len(seq))
  PROVE  LET first == IF I # {} THEN Min(I) ELSE 0
         IN  first = 0 \/ first \in I
<1> SUFFICES ASSUME I # {} PROVE Min(I) \in I
  OBVIOUS
<1>1. I \subseteq Nat
  OBVIOUS
<1>2. PICK m \in I : \A y \in I : <<y, m>> \notin OpToRel(<, Nat)
  BY <1>1, WFMin, NatLessThanWellFounded
<1>3. \A y \in I : ~(y < m)
  BY <1>1, <1>2 DEF OpToRel
<1>4. PICK least \in I : \A y \in I : ~(y < least)
  BY <1>3
<1>5. \A y \in I : least <= y
  BY <1>1, <1>4
<1> QED
  BY <1>5 DEF Min

\* The commit a new job inherits is published on the task branch.
LEMMA InheritedIsPublished ==
  ASSUME Inv
  PROVE  Inherited \in Nat /\ WasPublished(TaskBranchName, Inherited)
<1> DEFINE I == {i \in 1..Len(jobs) : jobs[i].commit # 0 /\ jobs[i].branch = TaskBranchName}
           last == IF I # {} THEN Max(I) ELSE 0
<1>1. Len(jobs) \in Nat /\ DOMAIN jobs = 1..Len(jobs)
  BY DEF Inv, Typed
<1>2. last = 0 \/ last \in I
  <2>1. I \in SUBSET (1..Len(jobs))
    OBVIOUS
  <2> HIDE DEF I
  <2> QED
    BY <1>1, <2>1, Selected
<1>3. Inherited = IF last = 0 THEN 0 ELSE jobs[last].commit
  BY DEF Inherited, SelectLastInSeq
<1>4. CASE last = 0
  BY <1>3, <1>4 DEF WasPublished
<1>5. CASE last # 0
  <2>1. PICK i \in DOMAIN jobs : i = last /\ jobs[i].branch = TaskBranchName
    BY <1>1, <1>2, <1>5
  <2>2. jobs[i] \in JobRows /\ JobSound(jobs[i])
    BY RowsOf DEF Inv
  <2>3. Inherited = jobs[i].commit
    BY <1>3, <1>5, <2>1
  <2> QED
    BY <2>1, <2>2, <2>3 DEF JobSound, JobRows
<1> QED
  BY <1>4, <1>5

\* The run of the verified commit succeeded with it.
LEMMA VerifiedRunIsOne ==
  ASSUME Typed, VerifiedRun(runs, manifest) # 0
  PROVE  /\ VerifiedRun(runs, manifest) \in DOMAIN jobs
         /\ runs[VerifiedRun(runs, manifest)].status = "SUCCEEDED"
         /\ runs[VerifiedRun(runs, manifest)].commit = manifest
<1> DEFINE I == {i \in 1..Len(runs) : runs[i].status = "SUCCEEDED" /\ runs[i].commit = manifest}
           last == IF I # {} THEN Max(I) ELSE 0
<1>1. Len(runs) \in Nat /\ DOMAIN jobs = 1..Len(runs)
  BY DEF Typed
<1>2. last = 0 \/ last \in I
  <2>1. I \in SUBSET (1..Len(runs))
    OBVIOUS
  <2> HIDE DEF I
  <2> QED
    BY <1>1, <2>1, Selected
<1>3. VerifiedRun(runs, manifest) = last
  BY DEF VerifiedRun, SelectLastInSeq
<1> QED
  BY <1>1, <1>2, <1>3

\* The original base is a commit, or none is recorded.
LEMMA OriginalBaseIsOne ==
  ASSUME Typed, Rows
  PROVE  OriginalBase(runs) \in Ids \cup {0}
<1> DEFINE I == {i \in 1..Len(runs) : runs[i].base # 0}
           first == IF I # {} THEN Min(I) ELSE 0
<1>1. Len(runs) \in Nat /\ DOMAIN jobs = 1..Len(runs)
  BY DEF Typed
<1>2. first = 0 \/ first \in I
  <2>1. I \in SUBSET (1..Len(runs))
    OBVIOUS
  <2> HIDE DEF I
  <2> QED
    BY <1>1, <2>1, SelectedFirst
<1>3. OriginalBase(runs) = IF first = 0 THEN 0 ELSE runs[first].base
  BY DEF OriginalBase, SelectInSeq
<1> QED
  BY <1>1, <1>2, <1>3, RowsOf DEF RunSound

\* A request adds a queued job, its run and its runner.
LEMMA Added ==
  ASSUME Inv, UNCHANGED repository, TaskStays,
         NEW job \in JobRows, NEW run \in RunRows, Add(job, run), JobSound(job), RunSound(run)
  PROVE  Inv'
<1>1. Grows /\ Graph' /\ Published' /\ \A c : Unseen(c)' <=> Unseen(c)
  BY RepositoryStays DEF Inv
<1>2. PICK r : r = Runner("checkout")
  OBVIOUS
<1>3. /\ r \in RunnerRows /\ r.step = "checkout" /\ RunnerSound(job, r)
  <2>1. <<>> \in Branches /\ {} \in SUBSET Nat /\ 0 \in Nat
    BY DEF Branches
  <2> QED
    BY <1>2, <2>1 DEF Runner, RunnerRows, Steps, TaskBranchName, RunnerSound, WasPublished,
       OneAbove,
       KeepsBothSides, Unpushed, Pushed
<1>4. /\ jobs' = Append(jobs, job) /\ runs' = Append(runs, run) /\ runners' = Append(runners, r)
  BY <1>2 DEF Add
<1>5. PICK n : n = Len(jobs) + 1
  OBVIOUS
<1>6. /\ jobs' \in Seq(JobRows) /\ runs' \in Seq(RunRows) /\ runners' \in Seq(RunnerRows)
      /\ Len(jobs') = n /\ Len(runs') = n /\ Len(runners') = n
      /\ DOMAIN jobs = 1..(n - 1) /\ n \in Nat /\ n # 0
      /\ jobs'[n] = job /\ runs'[n] = run /\ runners'[n] = r
      /\ \A k \in 1..(n - 1) : jobs'[k] = jobs[k] /\ runs'[k] = runs[k] /\ runners'[k] = runners[k]
  BY <1>3, <1>4, <1>5 DEF Inv, Typed
<1>7. DOMAIN jobs' = DOMAIN jobs \cup {n}
  BY <1>6
<1>8. Typed'
  BY <1>6 DEF Typed, TaskStays
<1>9. Rows'
  <2> SUFFICES ASSUME NEW k \in DOMAIN jobs'
               PROVE  (JobSound(jobs[k]) /\ RunSound(runs[k]) /\ RunnerSound(jobs[k], runners[k]))'
    BY DEF Rows
  <2>1. PICK job1, run1, r1 : job1 = jobs'[k] /\ run1 = runs'[k] /\ r1 = runners'[k]
    OBVIOUS
  <2>2. JobSound(job1) /\ RunSound(run1) /\ RunnerSound(job1, r1)
    <3>1. CASE k = n
      BY <1>3, <1>6, <2>1, <3>1
    <3>2. CASE k \in DOMAIN jobs
      <4>1. job1 = jobs[k] /\ run1 = runs[k] /\ r1 = runners[k]
        BY <1>6, <2>1, <3>2
      <4> QED
        BY <3>2, <4>1, RowsOf DEF Inv
    <3> QED
      BY <1>7, <3>1, <3>2
  <2>3. JobSound(job1)' /\ RunSound(run1)' /\ RunnerSound(job1, r1)'
    BY <1>1, <2>2, JobStays, RunStays, RunnerStays DEF Inv
  <2> QED
    BY <2>1, <2>3
<1>10. Secrets'
  <2> SUFFICES ASSUME NEW k \in DOMAIN jobs', Holds(k)'
               PROVE  Secret(k)'
    BY DEF Secrets
  <2>1. k \in DOMAIN jobs /\ runners'[k] = runners[k] /\ Holds(k)
    BY <1>3, <1>6, <1>7 DEF Holds, Unpushed
  <2>2. PICK c : c = runners[k].made /\ Unseen(c)'
    BY <1>1, <2>1 DEF Inv, Secrets, Secret
  <2>3. \A i \in DOMAIN jobs \ {k} : /\ runners[i].step = "work" => runners[i].at # c
                                     /\ runners[i].step \in Unpushed => runners[i].made # c
    BY <2>1, <2>2 DEF Inv, Secrets, Secret
  <2>4. \A i \in DOMAIN jobs' \ {k} : /\ runners'[i].step = "work" => runners'[i].at # c
                                      /\ runners'[i].step \in Unpushed => runners'[i].made # c
    BY <1>3, <1>6, <1>7, <2>3 DEF Unpushed
  <2> QED
    BY <2>1, <2>2, <2>4 DEF Secret
<1> QED
  BY <1>1, <1>8, <1>9, <1>10 DEF Inv

\* An implementation is requested.
LEMMA EnqueueImplementationStep ==
  ASSUME Inv, NEW paths \in Payloads, EnqueueImplementation(paths)
  PROVE  Inv'
<1>1. PICK i, pinned, job, run : /\ i = Inherited /\ pinned = (IF Canonical THEN main ELSE 0)
                                 /\ job = Job("IMPLEMENTATION", TaskBranchName, i, 0, 0, paths, pinned)
                                 /\ run = Run(0)
  OBVIOUS
<1>2. /\ Add(job, run) /\ UNCHANGED repository /\ task' = "IMPLEMENTING" /\ manifest' = manifest
      /\ outside' = outside
  BY <1>1 DEF EnqueueImplementation, others
<1>3. i \in Nat /\ WasPublished(TaskBranchName, i)
  BY <1>1, InheritedIsPublished
<1>4. pinned \in Nat /\ paths \in SUBSET Paths /\ TaskBranchName \in Branches /\ {0} \subseteq Nat
  BY <1>1, TaskBranchAssumption, PastIsBelow DEF Inv, Graph, TaskBranchName, Branches
<1>5. job \in JobRows /\ run \in RunRows
  BY <1>1, <1>3, <1>4 DEF Job, JobRows, InFlight, Errors, Run, RunRows
<1>6. JobSound(job)
  BY <1>1, <1>3 DEF Job, JobSound, OneAbove, KeepsBothSides
<1>7. RunSound(run)
  BY <1>1 DEF Run, RunSound
<1>8. TaskStays
  BY <1>2, RepositoryStays DEF TaskStays, Inv, Typed
<1> QED
  BY <1>2, <1>5, <1>6, <1>7, <1>8, Added

\* A rebase is requested.
LEMMA EnqueueRebaseStep ==
  ASSUME Inv, NEW resolutions \in Payloads \cup {{}}, EnqueueRebase(resolutions)
  PROVE  Inv'
<1>1. PICK i, branch, original, c, job, run :
         /\ i = VerifiedRun(runs, manifest) /\ branch = runs[i].branch /\ original = OriginalBase(runs)
         /\ c = manifest
         /\ job = Job("REBASE", branch, c, c, original, resolutions, 0)
         /\ run = Run(original)
  OBVIOUS
<1>2. /\ Add(job, run) /\ UNCHANGED repository /\ task' = "IMPLEMENTING" /\ manifest' = manifest
      /\ outside' = outside /\ i # 0 /\ c # 0
  BY <1>1 DEF EnqueueRebase, others, Eligible
<1>3. i \in DOMAIN jobs /\ runs[i].status = "SUCCEEDED" /\ runs[i].commit = c
  BY <1>1, <1>2, VerifiedRunIsOne DEF Inv
<1>4. branch \in Branches /\ c \in Ids /\ WasPublished(branch, c) /\ OneAbove(branch, c)
  <2>1. runs[i] \in RunRows /\ RunSound(runs[i])
    BY <1>3, RowsOf DEF Inv
  <2>2. c \in Ids
    BY <1>1, <1>2 DEF Inv, Typed
  <2> QED
    BY <1>1, <1>3, <2>1, <2>2 DEF RunSound, RunRows
<1>5. original \in Ids \cup {0}
  BY <1>1, OriginalBaseIsOne DEF Inv
<1>6. /\ original \in Nat /\ c \in Nat /\ resolutions \in SUBSET Paths /\ {0} \subseteq Nat
      /\ TaskBranchName \in Branches
  BY <1>4, <1>5, TaskBranchAssumption, PastIsBelow DEF Inv, TaskBranchName, Branches
<1>7. job \in JobRows /\ run \in RunRows
  BY <1>1, <1>4, <1>6 DEF Job, JobRows, InFlight, Errors, Run, RunRows
<1>8. JobSound(job)
  BY <1>1, <1>4 DEF Job, JobSound, KeepsBothSides
<1>9. RunSound(run)
  BY <1>1, <1>5 DEF Run, RunSound
<1>10. TaskStays
  BY <1>2, RepositoryStays DEF TaskStays, Inv, Typed
<1> QED
  BY <1>2, <1>7, <1>8, <1>9, <1>10, Added
-----------------------------------------------------------------------------
\* The repository moves: what runners hold unpushed stays unseen.
StayUnseen == \A k \in DOMAIN jobs : \A c : (Holds(k) /\ c = runners[k].made) => Unseen(c)'

\* Others move the repository: sound rows stay sound.
LEMMA OutsideMoves ==
  ASSUME Inv, Outside, Grows, Graph', Published', StayUnseen
  PROVE  Inv'
<1>1. UNCHANGED <<task, manifest, jobs, runs, runners>> /\ outside' \in Nat
  BY DEF Outside, records, Inv, Typed
<1>2. Typed'
  BY <1>1 DEF Inv, Typed, Grows
<1>3. Rows'
  <2> SUFFICES ASSUME NEW k \in DOMAIN jobs
               PROVE  (JobSound(jobs[k]) /\ RunSound(runs[k]) /\ RunnerSound(jobs[k], runners[k]))'
    BY <1>1 DEF Rows
  <2>1. PICK job, run, r : job = jobs[k] /\ run = runs[k] /\ r = runners[k]
    OBVIOUS
  <2>2. JobSound(job)' /\ RunSound(run)' /\ RunnerSound(job, r)'
    BY <2>1, RowsOf, JobStays, RunStays, RunnerStays DEF Inv
  <2> QED
    BY <1>1, <2>1, <2>2
<1>4. Secrets'
  <2> SUFFICES ASSUME NEW k \in DOMAIN jobs, Holds(k)
               PROVE  Secret(k)'
    BY <1>1 DEF Secrets, Holds
  <2>1. PICK c : c = runners[k].made /\ Unseen(c)'
    BY DEF StayUnseen
  <2>2. Secret(k)
    BY DEF Inv, Secrets
  <2> QED
    BY <1>1, <2>1, <2>2 DEF Secret
<1> QED
  BY <1>2, <1>3, <1>4 DEF Inv

\* What is known of a commit that waits for its push to the task branch.
LEMMA HeldUnseen ==
  ASSUME Inv, NEW k \in DOMAIN jobs, Holds(k), NEW c, c = runners[k].made
  PROVE  /\ Unseen(c) /\ c \in Ids /\ c # main
         /\ \A d \in Ids \ {c} : c \notin Past(d) /\ Parent(d) # c
         /\ \A b \in DOMAIN origin : origin[b] # c
<1>1. Unseen(c) /\ c \in Ids
  BY RowsOf DEF Inv, Secrets, Secret, Holds, RunnerSound
<1> QED
  BY <1>1 DEF Unseen

\* What origin holds on a branch may be there.
LEMMA OriginFits ==
  ASSUME Graph, Published, NEW b \in DOMAIN origin
  PROVE  /\ origin[b] \in Ids /\ Parent(origin[b]) \in Ids
         /\ b # TaskBranchName => /\ Last(b) \in Past(main) /\ Last(b) \in Past(Parent(origin[b]))
                                  /\ Last(b) \in Past(origin[b])
<1>1. PICK x \in carried : x = <<b, origin[b]>>
  BY DEF Published
<1>2. x[1] = b /\ x[2] = origin[b] /\ Fits(x[1], x[2])
  BY <1>1 DEF Published
<1> QED
  BY <1>2 DEF Fits

\* The default branch advances.
LEMMA AdvanceBaseStep ==
  ASSUME Inv, NEW p \in Paths, NEW content \in {"original", "upstream"}, AdvanceBase(p, content)
  PROVE  Inv'
<1>1. PICK n, q, tree : n = NextId /\ q = main /\ tree = [commits[main].tree EXCEPT ![p] = content]
  OBVIOUS
<1>2. Outside /\ commits' = Append(commits, Commit(q, {}, tree)) /\ main' = n /\ UNCHANGED <<origin, carried>>
  BY <1>1 DEF AdvanceBase
<1>3. Graph /\ Published /\ q \in Ids /\ carried \subseteq carried'
  BY <1>1, <1>2 DEF Inv, Graph
<1>4. tree \in [Paths -> Contents]
  BY <1>1, <1>3, TreeOf DEF Contents
<1>5. Grows /\ Graph' /\ n \notin Ids /\ Ids' = Ids \cup {n}
  BY <1>1, <1>2, <1>3, <1>4, Commits1
<1>6. /\ commits'[n].past = Past(q) \cup {n} /\ commits'[n].parent = q
      /\ \A d \in Ids : commits'[d] = commits[d]
  BY <1>1, <1>2, <1>3, <1>4, GraphLinear
<1>7. Published'
  BY <1>2, <1>3, <1>5, PublishedStays
<1>8. StayUnseen
  <2> SUFFICES ASSUME NEW k \in DOMAIN jobs, Holds(k), NEW c, c = runners[k].made
               PROVE  Unseen(c)'
    BY DEF StayUnseen
  <2>1. Unseen(c) /\ c \in Ids /\ c # main /\ \A d \in Ids \ {c} : c \notin Past(d)
    BY HeldUnseen
  <2>2. c \notin commits'[n].past /\ commits'[n].parent # c
    BY <1>1, <1>3, <1>5, <1>6, <2>1
  <2> QED
    BY <1>2, <1>3, <1>5, <1>6, <2>1, <2>2, UnseenStays
<1> QED
  BY <1>2, <1>5, <1>7, <1>8, OutsideMoves

\* A pull request is merged.
LEMMA MergeIntoBaseStep ==
  ASSUME Inv, NEW b \in DOMAIN origin, MergeIntoBase(b)
  PROVE  Inv'
<1>1. PICK n, q, o, tree : n = NextId /\ q = main /\ o = origin[b] /\ tree = Merged(commits, main, origin[b])
  OBVIOUS
<1>2. Outside /\ commits' = Append(commits, Commit(main, {o}, tree)) /\ main' = n /\ UNCHANGED <<origin, carried>>
  BY <1>1 DEF MergeIntoBase
<1>3. Graph /\ Published /\ q \in Ids /\ o \in Ids /\ carried \subseteq carried'
  BY <1>1, <1>2, OriginFits DEF Inv, Graph
<1>4. tree \in [Paths -> Contents]
  <2>1. commits[q].tree \in [Paths -> Contents] /\ commits[o].tree \in [Paths -> Contents]
    BY <1>3, TreeOf
  <2> QED
    BY <1>1, <2>1 DEF Merged
<1>5. /\ Graph' /\ Past(main) \subseteq Past(main)'
      /\ Ids' = Ids \cup {n} /\ n \notin Ids /\ \A d \in Ids : commits'[d] = commits[d]
      /\ commits'[n].past = (Past(main) \cup Past(o)) \cup {n} /\ commits'[n].parent = main
  BY <1>1, <1>2, <1>3, <1>4, GraphMerge
<1>6. Grows
  BY <1>3, <1>5 DEF Grows
<1>7. Published'
  BY <1>2, <1>3, <1>6, PublishedStays
<1>8. StayUnseen
  <2> SUFFICES ASSUME NEW k \in DOMAIN jobs, Holds(k), NEW c, c = runners[k].made
               PROVE  Unseen(c)'
    BY DEF StayUnseen
  <2>1. Unseen(c) /\ c \in Ids /\ c # main /\ c # o /\ \A d \in Ids \ {c} : c \notin Past(d)
    BY <1>1, HeldUnseen
  <2>2. c \notin commits'[n].past /\ commits'[n].parent # c
    BY <1>1, <1>3, <1>5, <2>1
  <2> QED
    BY <1>2, <1>3, <1>5, <2>1, <2>2, UnseenStays
<1> QED
  BY <1>2, <1>5, <1>6, <1>7, <1>8, OutsideMoves

\* A commit somebody else puts on a branch, on top of q.
LEMMA OperatorMoves ==
  ASSUME Inv, Outside, NEW b \in DOMAIN origin, NEW n, n = NextId, NEW q \in Ids,
         NEW tree \in [Paths -> Contents],
         commits' = Append(commits, Commit(q, {}, tree)), Point(b, n), main' = main,
         b # TaskBranchName => Last(b) \in Past(q),
         q \in {main, origin[b], Parent(origin[b])}
  PROVE  Inv'
<1>1. /\ Graph /\ Published /\ carried' = carried \cup {<<b, n>>}
      /\ DOMAIN origin' = DOMAIN origin \cup {b}
      /\ \A x \in DOMAIN origin' : origin'[x] = IF x = b THEN n ELSE origin[x]
  BY DEF Inv, Point
<1>2. Fits(b, origin[b]) /\ b \in Branches /\ origin[b] \in Ids
  <2>1. <<b, origin[b]>> \in carried
    BY <1>1 DEF Published
  <2>2. Fits(b, origin[b])
    <3>1. PICK x \in carried : x = <<b, origin[b]>>
      BY <2>1
    <3>2. x[1] = b /\ x[2] = origin[b] /\ Fits(x[1], x[2])
      BY <1>1, <3>1 DEF Published
    <3> QED
      BY <3>2
  <2> QED
    BY <2>2 DEF Fits
<1>3. carried \subseteq carried'
  BY <1>1
<1>4. /\ Grows /\ Graph' /\ n \notin Ids /\ Ids' = Ids \cup {n} /\ \A c \in Ids : n \notin Past(c)
      /\ \A d \in Branches : (d # TaskBranchName => Last(d) \in Past(main)' /\ Last(d) \in Past(q)) => Fits(d, n)'
  BY <1>1, <1>3, Commits1
<1>5. /\ commits'[n].past = Past(q) \cup {n} /\ commits'[n].parent = q
      /\ \A d \in Ids : commits'[d] = commits[d]
  BY <1>1, GraphLinear
<1>6. b # TaskBranchName => Last(b) \in Past(main)'
  BY <1>2, <1>4 DEF Fits, Grows
<1>7. Fits(b, n)'
  BY <1>2, <1>4, <1>6
<1>8. Published'
  BY <1>1, <1>4, <1>7, PublishedMoves
<1>9. StayUnseen
  <2> SUFFICES ASSUME NEW k \in DOMAIN jobs, Holds(k), NEW c, c = runners[k].made
               PROVE  Unseen(c)'
    BY DEF StayUnseen
  <2>1. /\ Unseen(c) /\ c \in Ids /\ c # main /\ \A d \in Ids \ {c} : c \notin Past(d) /\ Parent(d) # c
        /\ c # origin[b]
    BY HeldUnseen
  <2>2. q # c
    BY <1>2, <2>1
  <2>3. c \notin commits'[n].past /\ commits'[n].parent # c
    BY <1>4, <1>5, <2>1, <2>2
  <2>4. /\ \A x \in DOMAIN origin' : origin'[x] = n \/ (x \in DOMAIN origin /\ origin'[x] = origin[x])
        /\ \A x \in carried' : x \in carried \/ x[2] = n
    BY <1>1
  <2>5. /\ Graph /\ Ids' = Ids \cup {n} /\ n \notin Ids /\ \A d \in Ids : commits'[d] = commits[d]
        /\ main' \in {main, n} /\ c \in Ids /\ Unseen(c)
    BY <1>1, <1>4, <1>5, <2>1
  <2> QED
    BY <2>3, <2>4, <2>5, UnseenStays
<1> QED
  BY <1>4, <1>8, <1>9, OutsideMoves

\* A person pushes on top of a branch.
LEMMA OperatorPushesStep ==
  ASSUME Inv, NEW b \in DOMAIN origin, NEW p \in Paths, OperatorPushes(b, p)
  PROVE  Inv'
<1>1. PICK n, q, tree : n = NextId /\ q = origin[b] /\ tree = [commits[origin[b]].tree EXCEPT ![p] = "operator"]
  OBVIOUS
<1>2. Outside /\ commits' = Append(commits, Commit(q, {}, tree)) /\ Point(b, n) /\ main' = main
  BY <1>1 DEF OperatorPushes
<1>3. q \in Ids /\ (b # TaskBranchName => Last(b) \in Past(q))
  BY <1>1, OriginFits DEF Inv
<1>4. tree \in [Paths -> Contents]
  BY <1>1, <1>3, TreeOf DEF Inv, Contents
<1> QED
  BY <1>1, <1>2, <1>3, <1>4, OperatorMoves

\* A person force-pushes a branch, rebased or amended.
LEMMA OperatorRewritesStep ==
  ASSUME Inv, NEW b \in DOMAIN origin, NEW parent \in {main, commits[origin[b]].parent}, OperatorRewrites(b, parent)
  PROVE  Inv'
<1>1. PICK n, tree : n = NextId /\ tree = commits[origin[b]].tree
  OBVIOUS
<1>2. Outside /\ commits' = Append(commits, Commit(parent, {}, tree)) /\ Point(b, n) /\ main' = main
  BY <1>1 DEF OperatorRewrites
<1>3. /\ parent \in Ids /\ (b # TaskBranchName => Last(b) \in Past(parent))
      /\ parent \in {main, origin[b], Parent(origin[b])} /\ origin[b] \in Ids
  BY OriginFits DEF Inv, Graph, Parent
<1>4. tree \in [Paths -> Contents]
  BY <1>1, <1>3, TreeOf DEF Inv
<1> QED
  BY <1>1, <1>2, <1>3, <1>4, OperatorMoves

\* A branch is deleted.
LEMMA BranchDeletedStep ==
  ASSUME Inv, NEW b \in DOMAIN origin, BranchDeleted(b)
  PROVE  Inv'
<1>1. /\ Outside /\ commits' = commits /\ main' = main /\ carried' = carried
      /\ \A x \in DOMAIN origin' : x \in DOMAIN origin /\ origin'[x] = origin[x]
  BY DEF BranchDeleted
<1>2. Grows /\ Graph'
  <2>1. Grows
    BY <1>1 DEF Grows, Ids, Past
  <2>2. Graph'
    BY <1>1, GraphStays DEF Inv
  <2> QED
    BY <2>1, <2>2
<1>3. Published'
  BY <1>1, <1>2, PublishedStays DEF Inv
<1>4. StayUnseen
  <2>1. \A c : Unseen(c) => Unseen(c)'
    BY <1>1 DEF Unseen, Ids, Past, Parent
  <2> QED
    BY <2>1, HeldUnseen DEF StayUnseen
<1> QED
  BY <1>1, <1>2, <1>3, <1>4, OutsideMoves
-----------------------------------------------------------------------------
\* Inv holds of the fresh repository.
LEMMA InitInv ==
  ASSUME Init
  PROVE  Inv
<1>1. PICK row : row = [parent |-> 0, past |-> {1}, tree |-> [p \in Paths |-> "original"]] /\ commits = <<row>>
  BY DEF Init
<1>2. row \in Commits /\ row.parent = 0 /\ row.past = {1}
  <2>1. [p \in Paths |-> "original"] \in [Paths -> Contents] /\ {1} \in SUBSET Nat /\ 0 \in Nat
    BY DEF Contents
  <2> QED
    BY <1>1, <2>1 DEF Commits
<1>3. commits \in Seq(Commits) /\ Ids = {1} /\ commits[1] = row /\ main = 1
  BY <1>1, <1>2 DEF Ids, Init
<1>4. Graph
  BY <1>2, <1>3 DEF Graph, Past, Parent, Comparable, HasTop
<1>5. Published
  BY DEF Init, Published
<1>6. Typed
  BY DEF Init, Typed
<1>7. Rows /\ Secrets
  BY DEF Init, Rows, Secrets
<1> QED
  BY <1>4, <1>5, <1>6, <1>7 DEF Inv

\* No step of a runner breaks Inv.
LEMMA RunnerStepKeeps ==
  ASSUME Inv, NEW j \in DOMAIN jobs, RunnerStep(j)
  PROVE  Inv'
  BY CheckoutStep, ImplementStep, TransferStep, RecordStep, PushStep, RecordPublishedStep,
     RecordRunStep,
     GatePassesStep, GateFailsStep, FinishStep, StepFailsStep, RunnerDiesStep DEF RunnerStep

\* Nothing others do to the repository breaks Inv.
LEMMA OutsideStepKeeps ==
  ASSUME Inv, OutsideStep
  PROVE  Inv'
  BY AdvanceBaseStep, MergeIntoBaseStep, OperatorPushesStep, OperatorRewritesStep,
     BranchDeletedStep
     DEF OutsideStep

\* No request breaks Inv.
LEMMA RequestKeeps ==
  ASSUME Inv, Request
  PROVE  Inv'
  BY EnqueueImplementationStep, EnqueueRebaseStep, CancelStep DEF Request

\* Inv is inductive.
LEMMA NextInv ==
  ASSUME Inv, [Next]_vars
  PROVE  Inv'
<1>1. CASE UNCHANGED vars
  <2>1. UNCHANGED repository /\ UNCHANGED <<task, manifest, jobs, runs, runners, outside>>
    BY <1>1 DEF vars, repository
  <2>2. Grows /\ Graph' /\ Published' /\ Ids' = Ids /\ \A c : Unseen(c)' <=> Unseen(c)
    BY <2>1, RepositoryStays DEF Inv
  <2>3. Typed'
    BY <2>1, <2>2 DEF Inv, Typed
  <2>4. Rows'
    <3> SUFFICES ASSUME NEW k \in DOMAIN jobs
                 PROVE  (JobSound(jobs[k]) /\ RunSound(runs[k]) /\ RunnerSound(jobs[k], runners[k]))'
      BY <2>1 DEF Rows
    <3>1. PICK job, run, r : job = jobs[k] /\ run = runs[k] /\ r = runners[k]
      OBVIOUS
    <3>2. JobSound(job)' /\ RunSound(run)' /\ RunnerSound(job, r)'
      BY <2>2, <3>1, RowsOf, JobStays, RunStays, RunnerStays DEF Inv
    <3> QED
      BY <2>1, <3>1, <3>2
  <2>5. Secrets'
    <3> SUFFICES ASSUME NEW k \in DOMAIN jobs, Holds(k)
                 PROVE  Secret(k)'
      BY <2>1 DEF Secrets, Holds
    <3>1. PICK c : c = runners[k].made /\ Unseen(c)'
      BY <2>2 DEF Inv, Secrets, Secret
    <3>2. Secret(k)
      BY DEF Inv, Secrets
    <3> QED
      BY <2>1, <3>1, <3>2 DEF Secret
  <2> QED
    BY <2>2, <2>3, <2>4, <2>5 DEF Inv
<1>2. CASE Next
  BY <1>2, RequestKeeps, OutsideStepKeeps, RunnerStepKeeps DEF Next
<1> QED
  BY <1>1, <1>2

\* Inv always holds.
THEOREM AlwaysInv == Spec => []Inv
  BY InitInv, NextInv, PTL DEF Spec

\* Inv has the type invariant in it.
LEMMA InvIsTyped ==
  ASSUME Inv
  PROVE  TypeOK
<1>1. /\ Graph /\ Published /\ Typed /\ Rows
  BY DEF Inv
<1>2. \A c \in Ids : /\ commits[c].past \subseteq 1..c /\ c \in commits[c].past
                     /\ commits[c].parent \in 0..(c - 1)
                     /\ commits[c].tree \in [Paths -> Contents]
  BY <1>1, TreeOf DEF Graph, Past, Parent
<1>3. main \in Ids
  BY <1>1 DEF Graph
<1>4. \A b \in DOMAIN origin : origin[b] \in Ids /\ <<b, origin[b]>> \in carried
  BY <1>1, OriginFits DEF Published
<1>5. /\ task \in {"PLANNED", "IMPLEMENTING", "READY", "BLOCKED"} /\ manifest \in Ids \cup {0}
      /\ DOMAIN runs = DOMAIN jobs /\ DOMAIN runners = DOMAIN jobs
  BY <1>1 DEF Typed
<1>6. ASSUME NEW j \in DOMAIN jobs
      PROVE  /\ jobs[j].status \in InFlight \cup {"SUCCEEDED", "FAILED", "BLOCKED", "CANCELLED"}
             /\ jobs[j].commit \in Ids \cup {0}
             /\ runs[j].status \in {"RUNNING", "SUCCEEDED", "FAILED", "BLOCKED"}
             /\ runs[j].base \in Ids \cup {0} /\ runs[j].commit \in Ids \cup {0}
             /\ runners[j].known \subseteq Ids
  <2>1. /\ jobs[j] \in JobRows /\ runs[j] \in RunRows
        /\ JobSound(jobs[j]) /\ RunSound(runs[j]) /\ RunnerSound(jobs[j], runners[j])
    BY <1>1, RowsOf
  <2>2. jobs[j].status \in InFlight \cup {"SUCCEEDED", "FAILED", "BLOCKED", "CANCELLED"}
        /\ runs[j].status \in {"RUNNING", "SUCCEEDED", "FAILED", "BLOCKED"}
    BY <2>1 DEF JobRows, RunRows
  <2> QED
    BY <2>1, <2>2 DEF JobSound, WasPublished, RunSound, RunnerSound
<1> QED
  BY <1>2, <1>3, <1>4, <1>5, <1>6 DEF TypeOK

\* Every commit, head, row and runner is of its type.
THEOREM TypeCorrect == Spec => []TypeOK
  BY AlwaysInv, InvIsTyped, PTL

\* Whatever runners die, requests come and heads move: the commit a row names
\* is one origin has had on the row's branch.
THEOREM CommitsWerePublished == Spec => []CommitWasPublished
<1>1. Inv => CommitWasPublished
  BY RowsOf DEF Inv, JobSound, WasPublished, CommitWasPublished
<1> QED
  BY <1>1, AlwaysInv, PTL

\* Only a rewritten branch is refused.
THEOREM DivergedMeansRewritten == Spec => []DivergedOnlyWhenRewritten
<1>1. Inv => DivergedOnlyWhenRewritten
  BY RowsOf DEF Inv, JobSound, Rewritten, DivergedOnlyWhenRewritten
<1> QED
  BY <1>1, AlwaysInv, PTL

\* What a transfer published holds the base's content where the task changed
\* nothing, the task's where the base changed nothing, and only this job's
\* resolutions at a conflict (rebase-transfer.ts, rebase-publication.ts), for
\* every history of pushes, merges, failures and retries.
THEOREM TransfersKeepBothSides == Spec => []TransferKeepsBothSides
<1>1. Inv => TransferKeepsBothSides
  <2> SUFFICES ASSUME Inv PROVE TransferKeepsBothSides
    OBVIOUS
  <2>1. \A j \in DOMAIN jobs : KeepsBothSides(jobs[j], jobs[j].branch, jobs[j].commit)
    BY RowsOf DEF Inv, JobSound
  <2> QED
    BY <2>1 DEF TransferKeepsBothSides, KeepsBothSides
<1> QED
  BY <1>1, AlwaysInv, PTL

-----------------------------------------------------------------------------
\* RewritesOnlyWhatWasSeen, of one step.
RewriteIsAllowed ==
    \A b \in DOMAIN origin \cap DOMAIN origin' :
       LET old == origin[b]  new == origin'[b]
       IN  (old # new /\ outside' = outside) =>
              \/ IsAncestor(commits, old, new)
              \/ /\ b # TaskBranchName
                 /\ ~SameTransfer(commits[old], commits[new])
                 /\ \E j \in DOMAIN jobs : runners[j].on = b /\ runners[j].seen = old

\* A runner's push is a fast-forward or replaces the head it saw with another
\* transfer.
LEMMA PushRewritesSeen ==
  ASSUME Inv, NEW j \in DOMAIN jobs, Push(j)
  PROVE  RewriteIsAllowed
<1>1. PICK job, r : job = jobs[j] /\ r = runners[j]
  OBVIOUS
<1>2. JobSound(job) /\ RunnerSound(job, r) /\ r \in RunnerRows
  BY <1>1, RowsOf DEF Inv
<1>3. r.step = "push" /\ (origin' = origin \/ (Accepted(r) /\ Point(r.on, r.made)))
  BY <1>1 DEF Push, At
<1>4. CASE origin' = origin
  BY <1>4 DEF RewriteIsAllowed
<1>5. CASE Accepted(r) /\ Point(r.on, r.made)
  <2> SUFFICES ASSUME NEW b \in DOMAIN origin \cap DOMAIN origin', origin[b] # origin'[b]
               PROVE  \/ IsAncestor(commits, origin[b], origin'[b])
                      \/ /\ b # TaskBranchName
                         /\ ~SameTransfer(commits[origin[b]], commits[origin'[b]])
                         /\ \E i \in DOMAIN jobs : runners[i].on = b /\ runners[i].seen = origin[b]
    BY DEF RewriteIsAllowed
  <2>1. b = r.on /\ origin'[b] = r.made /\ On(r.on) = origin[b]
    BY <1>5 DEF Point, On
  <2>2. origin[b] # 0
    BY OriginFits, PastIsBelow DEF Inv
  <2>3. CASE r.way = "LEASE"
    <3>1. origin[b] = r.seen
      BY <1>5, <2>1, <2>3 DEF Accepted
    <3>2. r.on # TaskBranchName /\ ~SameTransfer(commits[r.seen], commits[r.made])
      BY <1>2, <1>3, <2>3 DEF RunnerSound, Unpushed
    <3> QED
      BY <1>1, <2>1, <3>1, <3>2
  <2>4. CASE r.way # "LEASE"
    BY <1>5, <2>1, <2>2, <2>4 DEF Accepted
  <2> QED
    BY <2>3, <2>4
<1> QED
  BY <1>3, <1>4, <1>5

\* No step of the program rewrites what it has not seen; the others' moves
\* count as outside.
LEMMA StepRewritesSeen ==
  ASSUME Inv, Next
  PROVE  RewriteIsAllowed
<1>1. CASE Request
  <2>1. UNCHANGED repository
    BY <1>1 DEF Request, EnqueueImplementation, EnqueueRebase, Cancel
  <2> QED
    BY <2>1 DEF repository, RewriteIsAllowed
<1>2. CASE OutsideStep
  <2>1. Outside
    BY <1>2 DEF OutsideStep, AdvanceBase, MergeIntoBase, OperatorPushes, OperatorRewrites,
       BranchDeleted
  <2>2. outside' # outside
    BY <2>1 DEF Outside, Inv, Typed
  <2> QED
    BY <2>2 DEF RewriteIsAllowed
<1>3. ASSUME NEW j \in DOMAIN jobs, RunnerStep(j) PROVE RewriteIsAllowed
  <2>1. CASE Push(j)
    BY <2>1, PushRewritesSeen
  <2>2. CASE ~Push(j)
    <3>1. origin' = origin
      BY <1>3, <2>2 DEF RunnerStep, Checkout, Implement, Transfer, Record, RecordPublished,
         RecordRun,
         GatePasses, GateFails, Finish, StepFails, RunnerDies, repository
    <3> QED
      BY <3>1 DEF RewriteIsAllowed
  <2> QED
    BY <2>1, <2>2
<1> QED
  BY <1>1, <1>2, <1>3 DEF Next

\* A runner's push replaces only a head its commit descends from or, on a
\* transfer's branch, the very head it observed, never by the same transfer
\* again (--force-with-lease, sameTransfer).
THEOREM NothingIsClobbered == Spec => RewritesOnlyWhatWasSeen
<1>1. Inv /\ [Next]_vars => [RewriteIsAllowed]_vars
  BY StepRewritesSeen
<1>2. Spec => [][RewriteIsAllowed]_vars
  BY <1>1, AlwaysInv, PTL DEF Spec
<1> QED
  BY <1>2 DEF RewritesOnlyWhatWasSeen, RewriteIsAllowed
=============================================================================
