--------------------------- MODULE RebaseTransfer ---------------------------
(***************************************************************************)
(* The decisions behind a task's branches: whether a branch may be resumed *)
(* (branch-continuity.ts), which work may be transferred onto a newer base *)
(* (rebase-eligibility.ts), what git makes of it (rebase-transfer.ts), and *)
(* how the result is published (rebase-publication.ts).                    *)
(*                                                                         *)
(* A commit is [parent, past, tree]: its first parent, the commits it      *)
(* descends from (itself included) and what each path holds.  A path       *)
(* stands for the smallest unit git merges; both sides changing it         *)
(* differently is a conflict.  Commits are numbered; 0 is no commit.       *)
(***************************************************************************)
EXTENDS Integers, Sequences, SequencesExt

IsAncestor(commits, a, c) == a \in commits[c].past

\* The paths `git diff --name-only a..c` lists.
ChangedPaths(commits, a, c) ==
    {p \in DOMAIN commits[c].tree : commits[a].tree[p] # commits[c].tree[p]}

\* The merge base git finds: the common ancestor that descends from all others.
MergeBase(commits, a, c) ==
    LET common == commits[a].past \cap commits[c].past
    IN  CHOOSE m \in common : common \subseteq commits[m].past

-----------------------------------------------------------------------------
\* expected is the persisted commit SHA (0: none), head what origin carries for
\* the branch, objects the commits a fresh clone holds.
Continuity(commits, expected, head, objects) ==
    IF expected \in {0, head} THEN "MATCH"
    ELSE IF expected \notin objects THEN "UNPUBLISHED"
    ELSE IF IsAncestor(commits, expected, head) THEN "FAST_FORWARD" ELSE "DIVERGED"

-----------------------------------------------------------------------------
\* The boundary between what the task inherited and what it made: the base of
\* the first run that recorded one.
OriginalBase(runs) ==
    LET Recorded(run) == run.base # 0
        first == SelectInSeq(runs, Recorded)
    IN  IF first = 0 THEN 0 ELSE runs[first].base

\* The run that produced the verified commit, 0 when none did.
VerifiedRun(runs, verified) ==
    LET Produced(run) == run.status = "SUCCEEDED" /\ run.commit = verified
    IN  SelectLastInSeq(runs, Produced)

\* A transfer starts from READY; one already under way may have left it since.
Eligible(task, underWay, runs, verified) ==
    /\ \/ task = "READY"
       \/ underWay /\ task \in {"IMPLEMENTING", "BLOCKED"}
    /\ verified # 0
    /\ VerifiedRun(runs, verified) # 0
    /\ OriginalBase(runs) \notin {0, verified}

RebaseBranch(prefix, base) == Append(prefix, base)

-----------------------------------------------------------------------------
\* `git merge --squash source` on top of base.
Conflicts(commits, base, source) ==
    LET fork == MergeBase(commits, base, source)
    IN  ChangedPaths(commits, fork, base) \cap ChangedPaths(commits, fork, source)
          \cap ChangedPaths(commits, base, source)

Merged(commits, base, source) ==
    [p \in DOMAIN commits[base].tree |->
        IF p \in ChangedPaths(commits, MergeBase(commits, base, source), source)
        THEN commits[source].tree[p] ELSE commits[base].tree[p]]

Transferred(commits, base, source, resolved) ==
    [p \in DOMAIN commits[base].tree |->
        IF p \in Conflicts(commits, base, source) THEN resolved
        ELSE Merged(commits, base, source)[p]]

\* Paths the base changed, the task did not, and the transfer does not have as
\* the base has them.
Reverted(commits, original, base, source, tree) ==
    {p \in ChangedPaths(commits, original, base) \ ChangedPaths(commits, original, source) :
        tree[p] # commits[base].tree[p]}

-----------------------------------------------------------------------------
\* Mutant: a transfer onto the same base passes for the same transfer.
SameBase(remote, local) == remote.parent = local.parent

\* One transfer is another: content and parentage, not the SHA.
SameTransfer(remote, local) == remote.tree = local.tree /\ remote.parent = local.parent

Publication(commits, seen, local) ==
    IF seen = 0 THEN "CREATE"
    ELSE IF SameTransfer(commits[seen], local) THEN "ADOPT" ELSE "REPLACE"
=============================================================================
