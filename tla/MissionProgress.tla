-------------------------- MODULE MissionProgress --------------------------
(***************************************************************************)
(* What a mission still owes, derived from evidence (core/mission.ts).     *)
(* A mission is [kind, tasks, pin, status]; evidence is                    *)
(*   target, reference : [registered, active, write] of the repositories   *)
(*   tasks  : the attached tasks that exist, in order, each [state, busy]  *)
(*            (busy: taskReadiness names no next call, a job is running)   *)
(*   missing: whether an attached task no longer exists                    *)
(*   parity : the newest comparison of the pin,                            *)
(*            [commit, status, verdict, reference], or NoComparison        *)
(*   head   : the target's head, 0 when unknown or not asked for           *)
(***************************************************************************)
EXTENDS Integers, Sequences

NoComparison == [commit |-> 0, status |-> "NONE", verdict |-> "none", reference |-> FALSE]
Waiting == {"QUEUED", "RUNNING"}

RepositoriesStep(mission, evidence) ==
    LET target == evidence.target  reference == evidence.reference IN
    IF /\ target.registered /\ target.active /\ target.write
       /\ mission.kind = "PARITY" => reference.registered /\ reference.active
    THEN "DONE" ELSE "FAILING"

Open(evidence) == {i \in DOMAIN evidence.tasks : evidence.tasks[i].state # "READY"}
FirstOpen(evidence) == CHOOSE i \in Open(evidence) : \A j \in Open(evidence) : i <= j
TasksStep(evidence) ==
    IF evidence.missing THEN "FAILING"
    ELSE IF evidence.tasks = <<>> THEN "REMAINING"
    ELSE IF Open(evidence) = {} THEN "DONE"
    ELSE IF evidence.tasks[FirstOpen(evidence)].busy THEN "RUNNING"
    ELSE IF evidence.tasks[FirstOpen(evidence)].state = "BLOCKED" THEN "FAILING" ELSE "REMAINING"

\* A comparison counts for the commit it ran at; an unknown head does not refute it.
Covers(parity, head) == parity.verdict = "PROVEN" /\ head \in {0, parity.commit}

ParityStep(evidence) ==
    LET parity == evidence.parity IN
    IF parity = NoComparison THEN "REMAINING"
    ELSE IF parity.status \in Waiting THEN "RUNNING"
    ELSE IF Covers(parity, evidence.head) THEN "DONE"
    ELSE IF parity.verdict = "PROVEN" THEN "REMAINING" ELSE "FAILING"

\* The reference, not the target, is what the comparison failed on.
BlockedByReference(evidence) ==
    ParityStep(evidence) = "FAILING" /\ evidence.parity.reference

\* The steps of a mission, in the order they are reported.
Steps(mission, evidence) ==
    <<[id |-> "REPOSITORIES", status |-> RepositoriesStep(mission, evidence)],
      [id |-> "TASKS", status |-> TasksStep(evidence)]>>
    \o (IF mission.kind = "PARITY"
        THEN <<[id |-> "PARITY", status |-> ParityStep(evidence)]>> ELSE <<>>)
Complete(mission, evidence) ==
    \A i \in DOMAIN Steps(mission, evidence) : Steps(mission, evidence)[i].status = "DONE"

(* The next call.  task: the position of the attached task it is sent for, 0 for none. *)
Call(tool, task) == [tool |-> tool, task |-> task]
StepCall(step, evidence) ==
    CASE step.id = "REPOSITORIES" -> Call("repository", 0)
      [] step.id = "TASKS" ->
            (IF evidence.missing THEN Call("detach", 0)
             ELSE IF evidence.tasks = <<>> THEN Call("create_task", 0)
             ELSE IF step.status = "RUNNING" THEN Call("wait_task", FirstOpen(evidence))
             ELSE Call("task", FirstOpen(evidence)))
      [] step.id = "PARITY" ->
            (IF step.status = "REMAINING" THEN Call("compare", IF evidence.tasks = <<>> THEN 0 ELSE 1)
             ELSE IF step.status = "RUNNING" THEN Call("wait_comparison", 0)
             ELSE IF evidence.parity.reference THEN Call("fix_reference", 0)
             ELSE Call("read_comparison", 0))

\* The first step of a status; Steps has one whenever this is asked.
FirstOf(mission, evidence, status) ==
    LET s == Steps(mission, evidence)
        i == CHOOSE i \in DOMAIN s :
                s[i].status = status /\ \A j \in 1..(i - 1) : s[j].status # status
    IN StepCall(s[i], evidence)

\* Another attached task than the one the comparison is recorded against is open.
ReferenceWork(evidence) == {i \in Open(evidence) : i > 1}

\* Mutant: work that remains is named before a running job is waited for.
NextCallWithoutWaiting(mission, evidence) ==
    LET s == Steps(mission, evidence)
        Has(status) == \E i \in DOMAIN s : s[i].status = status
    IN IF Complete(mission, evidence) THEN Call("achieve", 0)
       ELSE IF Has("FAILING") THEN FirstOf(mission, evidence, "FAILING")
       ELSE IF mission.kind = "PARITY" /\ ParityStep(evidence) = "REMAINING"
            THEN StepCall([id |-> "PARITY", status |-> "REMAINING"], evidence)
       ELSE IF Has("REMAINING") THEN FirstOf(mission, evidence, "REMAINING")
       ELSE FirstOf(mission, evidence, "RUNNING")

\* Among known failures, the job of a task, a comparison to run, and what remains, in that order.
NextCall(mission, evidence) ==
    LET s == Steps(mission, evidence)
        Has(status) == \E i \in DOMAIN s : s[i].status = status
        compare == [id |-> "PARITY", status |-> "REMAINING"]
        isParity == mission.kind = "PARITY"
        \* The comparison is measured first when its task is open and at rest.
        measureFirst == /\ isParity /\ ParityStep(evidence) = "REMAINING"
                        /\ TasksStep(evidence) = "REMAINING" /\ evidence.tasks # <<>>
    IN IF Complete(mission, evidence) THEN Call("achieve", 0)
       ELSE IF isParity /\ BlockedByReference(evidence) /\ ReferenceWork(evidence) # {}
            THEN LET i == CHOOSE i \in ReferenceWork(evidence) : \A j \in ReferenceWork(evidence) : i <= j
                 IN Call(IF evidence.tasks[i].busy THEN "wait_task" ELSE "task", i)
       ELSE IF Has("FAILING") THEN FirstOf(mission, evidence, "FAILING")
       ELSE IF TasksStep(evidence) = "RUNNING" THEN FirstOf(mission, evidence, "RUNNING")
       ELSE IF measureFirst THEN StepCall(compare, evidence)
       ELSE IF Has("REMAINING") THEN FirstOf(mission, evidence, "REMAINING")
       ELSE FirstOf(mission, evidence, "RUNNING")

=============================================================================
