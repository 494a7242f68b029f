------------------------ MODULE ExecutionJobs_proofs ------------------------
(***************************************************************************)
(* The durable jobs of a task, for any number of operations, requests,     *)
(* passes and attempts and every fault.                                    *)
(*                                                                         *)
(* Sound is the type invariant made inductive: whoever writes a row knows  *)
(* that it exists.  It holds without any condition.  Two more invariants   *)
(* stand on it.  ReplayInv follows one operation id to its single dispatch *)
(* and needs requests to be served one at a time (Singly): nothing         *)
(* compares before it dispatches, so two at once may both dispatch the row *)
(* that the first of them made.  SerialInv follows the one job in flight   *)
(* through request, runner, pass and resumed attempt, and needs the order  *)
(* Serially states, for the same reason: every writer writes whole rows    *)
(* from a copy.                                                            *)
(***************************************************************************)
EXTENDS ExecutionJobs, FiniteSetTheorems, TLAPS

CallLabels == {"idle", "transition", "saveRun", "createJob", "dispatching", "dispatch", "dispatched",
               "blockJob", "failRun", "cancelJob", "cancelRun", "done", "dead"}
PassLabels == {"idle", "scan", "judge", "resume", "dispatching", "dispatch", "dispatched", "defer",
               "parkRun", "parkTask"}
Early == {"transition", "saveRun", "createJob"}
Resting == {"idle", "done", "dead", "scan"}

Exists(j) == jobs[j].status # "NONE"

\* Who is past its first step knows its job, and its row but for who is to create it.
Knows(a) == pc[a] \notin Resting => on[a] \in JobIds /\ (pc[a] \notin Early => Exists(on[a]))

Sound ==
  /\ TypeOK
  /\ \A c \in Calls : pc[c] \in CallLabels
  /\ \A p \in Passes : pc[p] \in PassLabels
  /\ \A a \in Actors : Knows(a)
  /\ \A p \in Passes : \A j \in todo[p] : Exists(j)
  /\ \A j \in JobIds : runner[j] \in Alive => Exists(j)

\* No row vanishes.
Grows == \A j \in JobIds : Exists(j) => Exists(j)'

\* Only the one process moves; only the one row is written, with this status.
Only(a) == \A b \in Actors \ {a} : pc'[b] = pc[b] /\ on'[b] = on[b] /\ held'[b] = held[b]
Keeps(a) == on'[a] = on[a] /\ held'[a] = held[a]
Writes(j, status) == jobs'[j].status = status /\ \A k \in JobIds \ {j} : jobs'[k] = jobs[k]

-----------------------------------------------------------------------------
\* What the constants are, and that an actor is a request or a pass.
LEMMA Bounds == /\ MaxAttempt \in Nat /\ ConcurrentCalls \in Nat /\ MaxFaults \in Nat
                /\ Attempts = 0..MaxAttempt /\ JobIds = Operations \X Attempts
                /\ \A a \in Actors : a \in Calls \/ a \in Passes
                /\ \A c \in Calls : c \in Actors /\ c \notin Passes
                /\ \A p \in Passes : p \in Actors /\ p \notin Calls
  BY BoundsAreNat, ActorsDistinct DEF Attempts, JobIds, Actors

\* Sound holds at first.
LEMMA InitSound == Init => Sound
  BY Bounds DEF Init, Sound, TypeOK, Knows, CallLabels, PassLabels, NoRow, JobRows, JobStatuses,
     RunStatuses, RunnerLabels, ActorLabels, inFlightStatuses, Resting, Alive

\* A fault stays within its bound.
LEMMA FaultTyped == ASSUME TypeOK, NEW what, Fault(what) PROVE faults' \in 0..MaxFaults
  BY Bounds DEF TypeOK, Fault

\* A row with another status is a row.
LEMMA RowTyped ==
  ASSUME NEW row \in JobRows, NEW status \in JobStatuses
  PROVE  /\ [row EXCEPT !.status = status] \in JobRows
         /\ [row EXCEPT !.status = status].status = status
         /\ [row EXCEPT !.status = status].stamped = row.stamped
  BY DEF JobRows

\* A row with another status, stamp or back-off is a row.
LEMMA RowWritten ==
  ASSUME NEW row \in JobRows, NEW status \in JobStatuses
  PROVE  /\ [row EXCEPT !.status = status, !.stamped = TRUE, !.waiting = FALSE] \in JobRows
         /\ [row EXCEPT !.status = status, !.stamped = TRUE, !.waiting = FALSE].status = status
         /\ [row EXCEPT !.status = status, !.stamped = TRUE, !.waiting = FALSE].stamped
         /\ [row EXCEPT !.status = status, !.waiting = FALSE] \in JobRows
         /\ [row EXCEPT !.status = status, !.waiting = FALSE].status = status
         /\ [row EXCEPT !.status = status, !.waiting = FALSE].stamped = row.stamped
         /\ [row EXCEPT !.status = status, !.waiting = TRUE] \in JobRows
         /\ [row EXCEPT !.status = status, !.waiting = TRUE].status = status
         /\ [row EXCEPT !.waiting = FALSE] \in JobRows
         /\ [row EXCEPT !.waiting = FALSE].status = row.status
         /\ [row EXCEPT !.waiting = FALSE].stamped = row.stamped
<1>1. [row EXCEPT !.status = status, !.stamped = TRUE, !.waiting = FALSE] \in JobRows
  BY Zenon DEF JobRows
<1>2. [row EXCEPT !.status = status, !.stamped = TRUE, !.waiting = FALSE].status = status
  BY SMT DEF JobRows
<1>3. [row EXCEPT !.status = status, !.stamped = TRUE, !.waiting = FALSE].stamped
  BY Zenon DEF JobRows
<1>4. [row EXCEPT !.status = status, !.waiting = FALSE] \in JobRows
  BY Zenon DEF JobRows
<1>5. [row EXCEPT !.status = status, !.waiting = FALSE].status = status
  BY SMT DEF JobRows
<1>6. [row EXCEPT !.status = status, !.waiting = FALSE].stamped = row.stamped
  BY SMT DEF JobRows
<1>7. [row EXCEPT !.status = status, !.waiting = TRUE] \in JobRows
  BY Zenon DEF JobRows
<1>8. [row EXCEPT !.status = status, !.waiting = TRUE].status = status
  BY SMT DEF JobRows
<1>9. [row EXCEPT !.waiting = FALSE] \in JobRows
  BY Zenon DEF JobRows
<1>10. [row EXCEPT !.waiting = FALSE].status = row.status
  BY SMT DEF JobRows
<1>11. [row EXCEPT !.waiting = FALSE].stamped = row.stamped
  BY SMT DEF JobRows
<1> QED
  BY <1>1, <1>2, <1>3, <1>4, <1>5, <1>6, <1>7, <1>8, <1>9, <1>10, <1>11

\* The statuses the schema accepts.
LEMMA StatusesTyped ==
  /\ inFlightStatuses \subseteq JobStatuses /\ "NONE" \notin inFlightStatuses
  /\ {"NONE", "SUCCEEDED", "FAILED", "BLOCKED", "CANCELLED", "STALLED"} \subseteq JobStatuses
  BY DEF JobStatuses, inFlightStatuses

\* Only the process that goes to another step is there.
LEMMA GotoTyped ==
  ASSUME TypeOK, NEW a \in Actors, NEW label \in ActorLabels, Goto(a, label)
  PROVE  /\ pc' \in [Actors -> ActorLabels]
         /\ pc'[a] = label
         /\ \A b \in Actors \ {a} : pc'[b] = pc[b]
  BY DEF TypeOK, Goto

\* A whole-row write changes one row.
LEMMA WriteTyped ==
  ASSUME TypeOK, NEW j \in JobIds, NEW row \in JobRows, Write(j, row)
  PROVE  /\ jobs' \in [JobIds -> JobRows]
         /\ jobs'[j] = row
         /\ \A k \in JobIds \ {j} : jobs'[k] = jobs[k]
  BY DEF TypeOK, Write

\* Writing one's copy back changes the status of one row, and stamps it as
\* the copy is.
LEMMA WriteHeldTyped ==
  ASSUME TypeOK, NEW a \in Actors, on[a] \in JobIds, NEW status \in JobStatuses, WriteHeld(a, status)
  PROVE  /\ jobs' \in [JobIds -> JobRows]
         /\ Writes(on[a], status)
         /\ jobs'[on[a]].stamped = held[a].stamped
<1> DEFINE row == [held[a] EXCEPT !.status = status]
<1>1. held[a] \in JobRows
  BY DEF TypeOK
<1>2. row \in JobRows /\ row.status = status /\ row.stamped = held[a].stamped
  BY <1>1, RowTyped
<1>3. Write(on[a], row)
  BY DEF WriteHeld
<1> HIDE DEF row
<1> QED
  BY <1>2, <1>3, WriteTyped DEF Writes

\* No write makes a row vanish.
LEMMA WritesGrows ==
  ASSUME NEW j \in JobIds, NEW status, status # "NONE", Writes(j, status)
  PROVE  Grows /\ Exists(j)'
<1>1. ASSUME NEW k \in JobIds, Exists(k) PROVE Exists(k)'
  <2>1. CASE k = j
    BY <2>1 DEF Writes, Exists
  <2>2. CASE k # j
    BY <1>1, <2>2 DEF Writes, Exists
  <2> QED
    BY <2>1, <2>2
<1>2. Exists(j)'
  BY DEF Writes, Exists
<1> QED
  BY <1>1, <1>2 DEF Grows

\* A process moves.
LEMMA MoveSound ==
  ASSUME Sound, TypeOK', NEW a \in Actors, Only(a), Grows,
         a \in Calls => pc'[a] \in CallLabels,
         a \in Passes => pc'[a] \in PassLabels,
         Knows(a)',
         \A p \in Passes : \A j \in todo'[p] : Exists(j),
         runner' = runner
  PROVE  Sound'
<1>1. ASSUME NEW b \in Actors PROVE Knows(b)'
  <2>1. CASE b # a
    BY <2>1, <1>1 DEF Sound, Only, Grows, Knows
  <2> QED
    BY <2>1
<1>2. ASSUME NEW p \in Passes, NEW j \in todo'[p] PROVE Exists(j)'
  BY <1>2, Bounds DEF Sound, Grows, TypeOK
<1>3. (\A c \in Calls : pc[c] \in CallLabels)' /\ (\A p \in Passes : pc[p] \in PassLabels)'
  BY Bounds DEF Sound, Only
<1>4. (\A j \in JobIds : runner[j] \in Alive => Exists(j))'
  BY DEF Sound, Grows
<1> QED
  BY <1>1, <1>2, <1>3, <1>4 DEF Sound

\* A workflow run or the clock moves.
LEMMA RunSound ==
  ASSUME Sound, TypeOK', Grows, UNCHANGED <<pc, on, todo>>,
         \A j \in JobIds : runner'[j] \in Alive => Exists(j)
  PROVE  Sound'
<1>1. ASSUME NEW b \in Actors PROVE Knows(b)'
  BY <1>1 DEF Sound, Grows, Knows
<1>2. ASSUME NEW p \in Passes, NEW j \in todo'[p] PROVE Exists(j)'
  BY <1>2, Bounds DEF Sound, Grows, TypeOK
<1>4. (\A j \in JobIds : runner[j] \in Alive => Exists(j))'
  BY DEF Sound, Grows
<1> QED
  BY <1>1, <1>2, <1>4 DEF Sound
-----------------------------------------------------------------------------
\* A request is let in (enqueueImplementation, enqueueRebase up to their
\* first write).
LEMMA EnqueueStep == ASSUME Sound, NEW c \in Calls, Enqueue(c)
  PROVE Sound' /\ Only(c) /\ pc[c] = "idle" /\ pc'[c] \in Early /\ UNCHANGED <<jobs, github, runner>>
<1>1. PICK o \in Operations : NewOperation(o) /\ on' = [on EXCEPT ![c] = <<o, 0>>]
  BY DEF Enqueue
<1>2. <<o, 0>> \in JobIds /\ c \in Actors
  BY Bounds
<1>3. on' \in [Actors -> JobIds \cup {NoJob}] /\ on'[c] = <<o, 0>> /\ \A b \in Actors \ {c} : on'[b] = on[b]
  BY <1>1, <1>2 DEF Sound, TypeOK
<1>4. PICK label \in Early : pc[c] = "idle" /\ Goto(c, label)
  BY DEF Enqueue, At, Early
<1>5. label \in ActorLabels /\ label \in CallLabels /\ label \notin Resting
  BY <1>4 DEF Early, ActorLabels, CallLabels, Resting
<1>6. /\ pc' \in [Actors -> ActorLabels] /\ pc'[c] = label
      /\ \A b \in Actors \ {c} : pc'[b] = pc[b]
  BY <1>2, <1>4, <1>5, GotoTyped DEF Sound
<1>7. UNCHANGED <<task, run, jobs, pending, starts, runner, held, own, todo, faults>>
  BY DEF Enqueue, github
<1>8. TypeOK'
  BY <1>3, <1>6, <1>7 DEF Sound, TypeOK
<1>9. Only(c) /\ Grows /\ Knows(c)' /\ \A p \in Passes : \A j \in todo'[p] : Exists(j)
  BY <1>2, <1>3, <1>4, <1>5, <1>6, <1>7 DEF Only, Grows, Exists, Knows, Sound
<1>10. Sound'
  BY <1>2, <1>5, <1>6, <1>7, <1>8, <1>9, MoveSound, Bounds
<1> QED
  BY <1>4, <1>6, <1>7, <1>9, <1>10 DEF github
\* A process goes to another step and stays with its job.
LEMMA ProcessStep ==
  ASSUME Sound, NEW a \in Actors, NEW label, Goto(a, label),
         a \in Calls => label \in CallLabels, a \in Passes => label \in PassLabels,
         label \notin Resting => pc[a] \notin Resting /\ (label \notin Early => pc[a] \notin Early \/ Exists(on[a])'),
         UNCHANGED <<on, runner>>, Grows,
         task' \in {"PLANNED", "IMPLEMENTING", "VERIFYING", "BLOCKED"},
         run' \in [Operations -> RunStatuses],
         jobs' \in [JobIds -> JobRows],
         pending' \in [JobIds -> BOOLEAN], starts' \in [JobIds -> Nat],
         held' \in [Actors -> JobRows], \A b \in Actors \ {a} : held'[b] = held[b],
         own' \in [Calls -> [run : BOOLEAN, job : BOOLEAN]],
         todo' \in [Passes -> SUBSET JobIds], \A p \in Passes : \A j \in todo'[p] : Exists(j),
         faults' \in 0..MaxFaults
  PROVE  Sound' /\ Only(a) /\ pc'[a] = label
<1>1. label \in ActorLabels
  BY Bounds DEF CallLabels, PassLabels, ActorLabels
<1>2. /\ pc' \in [Actors -> ActorLabels] /\ pc'[a] = label
      /\ \A b \in Actors \ {a} : pc'[b] = pc[b]
  BY <1>1, GotoTyped DEF Sound
<1>3. TypeOK'
  BY <1>2 DEF Sound, TypeOK
<1>4. Only(a) /\ Knows(a)'
  BY <1>2 DEF Only, Knows, Sound, Grows
<1> QED
  BY <1>2, <1>3, <1>4, MoveSound

\* The steps a process rests at, and those requests and passes share.
LEMMA Labels ==
  /\ CallLabels \cap Resting = {"idle", "done", "dead"} /\ PassLabels \cap Resting = {"idle", "scan"}
  /\ {"dispatching", "dispatch", "dispatched"} \subseteq CallLabels \cap PassLabels
  BY DEF CallLabels, PassLabels, Resting

\* The task enters IMPLEMENTING.
LEMMA EnterImplementingStep == ASSUME Sound, NEW c \in Calls, EnterImplementing(c)
  PROVE Sound' /\ Only(c) /\ pc[c] = "transition" /\ pc'[c] = "saveRun" /\ UNCHANGED <<jobs, github, runner, locals>>
<1>1. pc[c] = "transition" /\ Goto(c, "saveRun") /\ Grows
  BY DEF EnterImplementing, At, Grows, Exists
<1> QED
  BY <1>1, ProcessStep, Bounds DEF EnterImplementing, Sound, TypeOK, CallLabels, Resting, Early,
     github, locals

\* The run row is saved.
LEMMA SaveRunStep == ASSUME Sound, NEW c \in Calls, SaveRun(c)
  PROVE Sound' /\ Only(c) /\ pc[c] = "saveRun" /\ pc'[c] = "createJob" /\ UNCHANGED <<jobs, github, runner, on, held, todo>>
<1>1. pc[c] = "saveRun" /\ Goto(c, "createJob") /\ Grows
  BY DEF SaveRun, At, Grows, Exists
<1>2. run' \in [Operations -> RunStatuses] /\ own' \in [Calls -> [run : BOOLEAN, job : BOOLEAN]]
  <2>1. run \in [Operations -> RunStatuses] /\ own \in [Calls -> [run : BOOLEAN, job : BOOLEAN]]
    BY DEF Sound, TypeOK
  <2>2. CASE run' = [run EXCEPT ![on[c][1]] = "RUNNING"] /\ own' = [own EXCEPT ![c].run = TRUE]
    BY <2>1, <2>2 DEF RunStatuses
  <2>3. CASE UNCHANGED <<run, own>>
    BY <2>1, <2>3
  <2> QED
    BY <2>2, <2>3 DEF SaveRun, CloseRunRow
<1> QED
  BY <1>1, <1>2, ProcessStep, Bounds DEF SaveRun, Sound, TypeOK, CallLabels, Resting, Early,
     github, locals

\* The job row is made, or the stored one is taken.
LEMMA CreateJobStep == ASSUME Sound, NEW c \in Calls, CreateJob(c)
  PROVE /\ Sound' /\ Only(c) /\ pc[c] = "createJob" /\ pc'[c] = "dispatching" /\ UNCHANGED <<github, runner, on, todo>>
        /\ on[c] \in JobIds
        /\ ~Exists(on[c]) => /\ Writes(on[c], "QUEUED") /\ ~jobs'[on[c]].stamped
                             /\ ~held'[c].stamped /\ own'[c].job
        /\ Exists(on[c]) => UNCHANGED <<jobs, own>>
<1>1. pc[c] = "createJob" /\ Goto(c, "dispatching")
  BY DEF CreateJob, At
<1>2. on[c] \in JobIds /\ c \in Actors
  BY <1>1, Bounds DEF Sound, Knows, Resting
<1>3. CASE ~Exists(on[c])
  <2> DEFINE row == [NoRow EXCEPT !.status = "QUEUED", !.linked = own[c].run]
  <2>1. row \in JobRows /\ row.status = "QUEUED" /\ ~row.stamped
    BY DEF NoRow, JobRows, JobStatuses, inFlightStatuses, Sound, TypeOK
  <2>2. Write(on[c], row) /\ held' = [held EXCEPT ![c] = row] /\ own' = [own EXCEPT ![c].job = TRUE]
    BY <1>3 DEF CreateJob, Exists
  <2> HIDE DEF row
  <2>3. /\ jobs' \in [JobIds -> JobRows] /\ Writes(on[c], "QUEUED") /\ ~jobs'[on[c]].stamped
        /\ held' \in [Actors -> JobRows] /\ ~held'[c].stamped /\ \A b \in Actors \ {c} : held'[b] = held[b]
    BY <1>2, <2>1, <2>2, WriteTyped DEF Writes, Sound, TypeOK
  <2>4. Grows /\ Exists(on[c])'
    <3>1. Exists(on[c])' <=> jobs'[on[c]].status # "NONE"
      BY DEF Exists, CreateJob
    <3> QED
      BY <1>2, <2>3, <3>1, WritesGrows DEF Writes
  <2>5. own' \in [Calls -> [run : BOOLEAN, job : BOOLEAN]] /\ own'[c].job
    BY <2>2 DEF Sound, TypeOK
  <2>6. Sound' /\ Only(c) /\ pc'[c] = "dispatching"
    BY <1>1, <1>2, <2>3, <2>4, <2>5, ProcessStep, Bounds DEF CreateJob, Sound, TypeOK,
       CallLabels, Resting, Early, github, locals
  <2> QED
    BY <1>1, <1>2, <1>3, <2>3, <2>5, <2>6 DEF CreateJob
<1>4. CASE Exists(on[c])
  <2>1. held' = [held EXCEPT ![c] = jobs[on[c]]] /\ UNCHANGED <<jobs, own>>
    BY <1>4 DEF CreateJob, Exists
  <2>2. held' \in [Actors -> JobRows] /\ (\A b \in Actors \ {c} : held'[b] = held[b])
    BY <1>2, <2>1 DEF Sound, TypeOK
  <2>3. Grows /\ Exists(on[c])'
    BY <1>4, <2>1 DEF Grows, Exists, CreateJob
  <2>6. Sound' /\ Only(c) /\ pc'[c] = "dispatching"
    BY <1>1, <1>2, <2>1, <2>2, <2>3, ProcessStep, Bounds DEF CreateJob, Sound, TypeOK,
       CallLabels, Resting, Early, github, locals
  <2> QED
    BY <1>1, <1>2, <1>4, <2>1, <2>6 DEF CreateJob
<1> QED
  BY <1>3, <1>4

\* A process writes its copy back with another status.
LEMMA WritingStep ==
  ASSUME Sound, NEW a \in Actors, NEW from, NEW label, NEW status \in JobStatuses, status # "NONE",
         from \notin Resting \cup Early, At(a, from, label),
         WriteHeld(a, status),
         a \in Calls => label \in CallLabels, a \in Passes => label \in PassLabels, label \notin Early,
         UNCHANGED <<task, run, github, runner, locals, faults>>
  PROVE  /\ Sound' /\ Only(a) /\ pc[a] = from /\ pc'[a] = label /\ on[a] \in JobIds
         /\ Exists(on[a]) /\ Writes(on[a], status) /\ jobs'[on[a]].stamped = held[a].stamped
<1>1. pc[a] = from /\ Goto(a, label)
  BY DEF At
<1>2. on[a] \in JobIds /\ Exists(on[a])
  BY <1>1 DEF Sound, Knows
<1>3. jobs' \in [JobIds -> JobRows] /\ Writes(on[a], status) /\ jobs'[on[a]].stamped = held[a].stamped
  BY <1>2, WriteHeldTyped DEF Sound
<1>4. Grows
  BY <1>2, <1>3, WritesGrows
<1>5. Sound' /\ Only(a) /\ pc'[a] = label
  BY <1>1, <1>3, <1>4, ProcessStep, Bounds DEF Sound, TypeOK, github, locals
<1> QED
  BY <1>1, <1>2, <1>3, <1>5

\* The row goes to DISPATCHING.
LEMMA WriteDispatchingStep == ASSUME Sound, NEW a \in Actors, WriteDispatching(a)
  PROVE  /\ Sound' /\ Only(a) /\ pc[a] = "dispatching" /\ pc'[a] = "dispatch" /\ on[a] \in JobIds
         /\ Exists(on[a]) /\ Writes(on[a], "DISPATCHING") /\ jobs'[on[a]].stamped = held[a].stamped
         /\ UNCHANGED <<github, runner, locals>>
  BY WritingStep, Labels, StatusesTyped, Bounds DEF WriteDispatching, Resting, Early,
     inFlightStatuses

\* The row goes to DISPATCHED.
LEMMA WriteDispatchedStep == ASSUME Sound, NEW a \in Actors, WriteDispatched(a)
  PROVE  /\ Sound' /\ Only(a) /\ pc[a] = "dispatched" /\ on[a] \in JobIds
         /\ pc'[a] = IF a \in Passes THEN "scan" ELSE IF own[a].job THEN "done" ELSE "blockJob"
         /\ Exists(on[a]) /\ Writes(on[a], "DISPATCHED") /\ jobs'[on[a]].stamped = held[a].stamped
         /\ UNCHANGED <<github, runner, locals>>
<1> DEFINE label == IF a \in Passes THEN "scan" ELSE IF own[a].job THEN "done" ELSE "blockJob"
<1>1. (a \in Calls => label \in CallLabels) /\ (a \in Passes => label \in PassLabels) /\ label \notin Early
  BY Bounds DEF CallLabels, PassLabels, Early
<1>2. At(a, "dispatched", label)
  BY DEF WriteDispatched, At
<1> HIDE DEF label
<1>3. Sound' /\ Only(a) /\ pc[a] = "dispatched" /\ pc'[a] = label /\ on[a] \in JobIds
         /\ Exists(on[a]) /\ Writes(on[a], "DISPATCHED") /\ jobs'[on[a]].stamped = held[a].stamped
  BY <1>1, <1>2, WritingStep, StatusesTyped DEF WriteDispatched, Resting, Early, inFlightStatuses
<1> QED
  BY <1>3 DEF label, WriteDispatched

\* A refused dispatch blocks the job.
LEMMA BlockJobStep == ASSUME Sound, NEW c \in Calls, BlockJob(c)
  PROVE  /\ Sound' /\ Only(c) /\ pc[c] = "blockJob" /\ pc'[c] = "failRun" /\ on[c] \in JobIds
         /\ Exists(on[c]) /\ Writes(on[c], "BLOCKED") /\ jobs'[on[c]].stamped = held[c].stamped
         /\ UNCHANGED <<github, runner, locals>>
  BY WritingStep, StatusesTyped, Bounds DEF BlockJob, CallLabels, Resting, Early

\* superadmin_job_cancel writes its copy back.
LEMMA CancelJobStep == ASSUME Sound, NEW c \in Calls, CancelJob(c)
  PROVE  /\ Sound' /\ Only(c) /\ pc[c] = "cancelJob" /\ pc'[c] = "cancelRun" /\ on[c] \in JobIds
         /\ Exists(on[c]) /\ Writes(on[c], "CANCELLED") /\ jobs'[on[c]].stamped = held[c].stamped
         /\ UNCHANGED <<github, runner, locals>>
  BY WritingStep, StatusesTyped, Bounds DEF CancelJob, CallLabels, Resting, Early

\* A request that ends touches no row of a job.
LEMMA FailRunStep == ASSUME Sound, NEW c \in Calls, FailRun(c) \/ CancelRun(c)
  PROVE Sound' /\ Only(c) /\ pc'[c] = "done" /\ UNCHANGED <<jobs, github, runner, locals>>
<1>1. Goto(c, "done") /\ Grows
  BY DEF FailRun, CancelRun, At, Grows, Exists
<1>2. run' \in [Operations -> RunStatuses]
  BY DEF FailRun, CancelRun, CloseRunRow, Sound, TypeOK, RunStatuses
<1> QED
  BY <1>1, <1>2, ProcessStep, Bounds DEF FailRun, CancelRun, Sound, TypeOK, CallLabels, Resting,
     github, locals

\* A request dies.
LEMMA RequestDiesStep == ASSUME Sound, NEW c \in Calls, RequestDies(c)
  PROVE Sound' /\ Only(c) /\ pc'[c] = "dead" /\ UNCHANGED <<jobs, github, runner, locals>>
<1>1. Goto(c, "dead") /\ Grows /\ faults' \in 0..MaxFaults
  BY FaultTyped DEF RequestDies, Grows, Exists, Sound
<1> QED
  BY <1>1, ProcessStep, Bounds DEF RequestDies, Sound, TypeOK, CallLabels, Resting, github, locals

\* superadmin_job_cancel reads a row in flight.
LEMMA CancelStep == ASSUME Sound, NEW c \in Calls, Cancel(c)
  PROVE /\ Sound' /\ Only(c) /\ pc[c] = "idle" /\ pc'[c] = "cancelJob" /\ on'[c] \in InFlight
        /\ UNCHANGED <<jobs, github, runner, own, todo>>
<1>1. PICK j \in InFlight : on' = [on EXCEPT ![c] = j] /\ held' = [held EXCEPT ![c] = jobs[j]]
  BY DEF Cancel
<1>2. j \in JobIds /\ c \in Actors /\ Exists(j)
  BY <1>1, Bounds, StatusesTyped DEF InFlight, Exists
<1>3. pc[c] = "idle" /\ Goto(c, "cancelJob")
  BY DEF Cancel, At
<1>4. /\ pc' \in [Actors -> ActorLabels] /\ pc'[c] = "cancelJob"
      /\ \A b \in Actors \ {c} : pc'[b] = pc[b]
  BY <1>2, <1>3, GotoTyped DEF Sound, ActorLabels
<1>5. /\ on' \in [Actors -> JobIds \cup {NoJob}] /\ on'[c] = j
      /\ held' \in [Actors -> JobRows]
      /\ \A b \in Actors \ {c} : on'[b] = on[b] /\ held'[b] = held[b]
  BY <1>1, <1>2 DEF Sound, TypeOK
<1>6. UNCHANGED <<task, run, jobs, pending, starts, runner, own, todo, faults>>
  BY DEF Cancel, github
<1>7. TypeOK'
  BY <1>4, <1>5, <1>6 DEF Sound, TypeOK
<1>8. Only(c) /\ Grows /\ Knows(c)' /\ \A p \in Passes : \A k \in todo'[p] : Exists(k)
  BY <1>2, <1>4, <1>5, <1>6 DEF Only, Grows, Exists, Knows, Sound
<1>9. Sound'
  BY <1>2, <1>4, <1>6, <1>7, <1>8, MoveSound, Bounds DEF CallLabels
<1> QED
  BY <1>1, <1>3, <1>4, <1>5, <1>6, <1>8, <1>9 DEF github

\* GitHub is asked for a workflow run.
LEMMA DispatchStep == ASSUME Sound, NEW a \in Actors, Dispatch(a)
  PROVE /\ Sound' /\ Only(a) /\ pc[a] = "dispatch" /\ on[a] \in JobIds
        /\ \/ pc'[a] = "dispatched" /\ Accepted(on[a])
           \/ pc'[a] = (IF a \in Calls THEN "blockJob" ELSE "defer") /\ (Accepted(on[a]) \/ UNCHANGED github)
        /\ UNCHANGED <<jobs, runner, locals>>
<1>1. PICK label : /\ Goto(a, label)
                   /\ \/ label = "dispatched" /\ Accepted(on[a]) /\ UNCHANGED faults
                      \/ /\ label = (IF a \in Calls THEN "blockJob" ELSE "defer")
                         /\ Accepted(on[a]) \/ UNCHANGED github
                         /\ \E what : Fault(what)
  BY DEF Dispatch, DispatchRefused
<1>2. pc[a] = "dispatch" /\ on[a] \in JobIds /\ Exists(on[a])
  BY DEF Dispatch, Sound, Knows, Resting, Early
<1>3. pending' \in [JobIds -> BOOLEAN] /\ starts' \in [JobIds -> Nat]
  <2>1. pending \in [JobIds -> BOOLEAN] /\ starts \in [JobIds -> Nat]
    BY DEF Sound, TypeOK
  <2>2. CASE Accepted(on[a])
    BY <1>2, <2>1, <2>2 DEF Accepted
  <2>3. CASE UNCHANGED github
    BY <2>1, <2>3 DEF github
  <2> QED
    BY <1>1, <2>2, <2>3
<1>4. faults' \in 0..MaxFaults
  BY <1>1, FaultTyped DEF Sound, TypeOK
<1>5. UNCHANGED <<task, run, jobs, runner, on, held, own, todo>>
  BY DEF Dispatch, locals
<1>6. (a \in Calls => label \in CallLabels) /\ (a \in Passes => label \in PassLabels)
  BY <1>1, Bounds DEF CallLabels, PassLabels
<1>7. Grows
  BY <1>5 DEF Grows, Exists
<1>8. Sound' /\ Only(a) /\ pc'[a] = label
  <2>1. UNCHANGED <<on, runner>> /\ \A p \in Passes : \A j \in todo'[p] : Exists(j)
    BY <1>5 DEF Sound
  <2>2. /\ task' \in {"PLANNED", "IMPLEMENTING", "VERIFYING", "BLOCKED"}
        /\ run' \in [Operations -> RunStatuses] /\ jobs' \in [JobIds -> JobRows]
        /\ held' \in [Actors -> JobRows] /\ \A b \in Actors \ {a} : held'[b] = held[b]
    BY <1>5 DEF Sound, TypeOK
  <2>3. own' \in [Calls -> [run : BOOLEAN, job : BOOLEAN]] /\ todo' \in [Passes -> SUBSET JobIds]
    BY <1>5 DEF Sound, TypeOK
  <2> QED
    BY <1>1, <1>2, <1>3, <1>4, <1>6, <1>7, <2>1, <2>2, <2>3, ProcessStep DEF Resting, Early
<1> QED
  BY <1>1, <1>2, <1>5, <1>8 DEF locals
-----------------------------------------------------------------------------
\* A pass lists the jobs in flight.
LEMMA ListActiveStep == ASSUME Sound, NEW p \in Passes, ListActive(p)
  PROVE /\ Sound' /\ Only(p) /\ Keeps(p) /\ pc[p] = "idle" /\ pc'[p] = "scan" /\ InFlight # {}
        /\ UNCHANGED <<jobs, github, runner, on, held, own>>
<1>1. pc[p] = "idle" /\ Goto(p, "scan") /\ Grows /\ InFlight # {}
  BY DEF ListActive, At, Grows, Exists
<1>2. /\ todo' \in [Passes -> SUBSET JobIds]
      /\ \A q \in Passes : \A j \in todo'[q] : Exists(j)
  <2>1. InFlight \in SUBSET JobIds /\ \A j \in InFlight : Exists(j)
    BY StatusesTyped DEF InFlight, Exists
  <2>2. todo' = [todo EXCEPT ![p] = InFlight] /\ todo \in [Passes -> SUBSET JobIds]
    BY DEF ListActive, Sound, TypeOK
  <2>3. todo' \in [Passes -> SUBSET JobIds] /\ \A q \in Passes : todo'[q] = InFlight \/ todo'[q] = todo[q]
    BY <2>1, <2>2
  <2> QED
    BY <2>1, <2>3 DEF Sound
<1> QED
  BY <1>1, <1>2, ProcessStep, Bounds DEF ListActive, Sound, TypeOK, PassLabels, Resting, Keeps,
     github

\* A pass reads the row of a job it listed.
LEMMA ReadJobStep == ASSUME Sound, NEW p \in Passes, ReadJob(p)
  PROVE /\ Sound' /\ Only(p) /\ pc[p] = "scan" /\ on'[p] \in JobIds /\ held'[p] = jobs[on'[p]]
        /\ Exists(on'[p])
        /\ \/ pc'[p] = "scan"
           \/ pc'[p] = "dispatching" /\ QueuedResume(on'[p])
           \/ pc'[p] = "judge" /\ StillActive(on'[p])
        /\ UNCHANGED <<jobs, github, runner, own>>
<1>1. PICK j \in todo[p] :
         /\ todo' = [todo EXCEPT ![p] = @ \ {j}]
         /\ on' = [on EXCEPT ![p] = j]
         /\ held' = [held EXCEPT ![p] = jobs[j]]
         /\ Goto(p, IF ~StillActive(j) \/ BacksOff(j) THEN "scan"
                    ELSE IF QueuedResume(j) THEN "dispatching" ELSE "judge")
  BY DEF ReadJob
<1>2. p \in Actors /\ j \in JobIds /\ Exists(j)
  BY Bounds DEF Sound, TypeOK
<1> DEFINE label == IF ~StillActive(j) \/ BacksOff(j) THEN "scan"
                    ELSE IF QueuedResume(j) THEN "dispatching" ELSE "judge"
<1>3. /\ Goto(p, label)
      /\ label = "scan" \/ (label = "dispatching" /\ QueuedResume(j)) \/ (label = "judge" /\ StillActive(j))
  BY <1>1
<1> HIDE DEF label
<1>4. label \in ActorLabels /\ label \in PassLabels
  BY <1>3 DEF ActorLabels, PassLabels
<1>5. /\ pc' \in [Actors -> ActorLabels] /\ pc'[p] = label
      /\ \A b \in Actors \ {p} : pc'[b] = pc[b]
  BY <1>2, <1>3, <1>4, GotoTyped DEF Sound
<1>6. /\ on' \in [Actors -> JobIds \cup {NoJob}] /\ on'[p] = j
      /\ held' \in [Actors -> JobRows] /\ held'[p] = jobs[j]
      /\ \A b \in Actors \ {p} : on'[b] = on[b] /\ held'[b] = held[b]
  BY <1>1, <1>2 DEF Sound, TypeOK
<1>7. todo' \in [Passes -> SUBSET JobIds] /\ \A q \in Passes : todo'[q] \subseteq todo[q]
  BY <1>1 DEF Sound, TypeOK
<1>8. UNCHANGED <<task, run, jobs, pending, starts, runner, own, faults>> /\ pc[p] = "scan"
  BY DEF ReadJob, github
<1>9. TypeOK'
  BY <1>5, <1>6, <1>7, <1>8 DEF Sound, TypeOK
<1>10. Only(p) /\ Grows /\ Knows(p)' /\ \A q \in Passes : \A k \in todo'[q] : Exists(k)
  BY <1>2, <1>5, <1>6, <1>7, <1>8 DEF Only, Grows, Exists, Knows, Sound
<1>11. Sound'
  BY <1>2, <1>4, <1>5, <1>8, <1>9, <1>10, MoveSound, Bounds
<1> QED
  BY <1>2, <1>3, <1>5, <1>6, <1>8, <1>10, <1>11 DEF github

\* Steps of a pass that touch no row of a job.
LEMMA PassGoesOn == ASSUME Sound, NEW p \in Passes, EndPass(p) \/ LetBe(p) \/ ParkRun(p) \/ ParkTask(p) \/ PassDies(p)
  PROVE /\ Sound' /\ Only(p) /\ Keeps(p) /\ pc'[p] \in {"idle", "scan", "parkTask"}
        /\ UNCHANGED <<jobs, github, runner, on, held, own>>
<1>1. PICK label \in {"idle", "scan", "parkTask"} : Goto(p, label) /\ (label = "parkTask" => pc[p] = "parkRun")
  BY DEF EndPass, LetBe, ParkRun, ParkTask, PassDies, At
<1>2. UNCHANGED <<jobs, pending, starts, runner, on, held, own>> /\ Grows
  BY DEF EndPass, LetBe, ParkRun, ParkTask, PassDies, locals, github, Grows, Exists
<1>3. run' \in [Operations -> RunStatuses] /\ task' \in {"PLANNED", "IMPLEMENTING", "VERIFYING", "BLOCKED"}
  BY DEF EndPass, LetBe, ParkRun, ParkTask, PassDies, CloseRunRow, Sound, TypeOK, RunStatuses
<1>4. /\ todo' \in [Passes -> SUBSET JobIds] /\ \A q \in Passes : todo'[q] \subseteq todo[q]
      /\ faults' \in 0..MaxFaults
  <2>1. todo \in [Passes -> SUBSET JobIds] /\ faults \in 0..MaxFaults
    BY DEF Sound, TypeOK
  <2>2. CASE PassDies(p)
    BY <2>1, <2>2, FaultTyped DEF PassDies, Sound
  <2>3. CASE UNCHANGED <<todo, faults>>
    BY <2>1, <2>3
  <2> QED
    BY <2>2, <2>3 DEF EndPass, LetBe, ParkRun, ParkTask, locals
<1>5. Sound' /\ Only(p) /\ pc'[p] = label
  <2>1. \A q \in Passes : \A j \in todo'[q] : Exists(j)
    BY <1>4 DEF Sound
  <2>2. label \in PassLabels /\ (label \notin Resting => pc[p] \notin Resting /\ pc[p] \notin Early)
    BY <1>1 DEF PassLabels, Resting, Early
  <2>3. /\ jobs' \in [JobIds -> JobRows] /\ pending' \in [JobIds -> BOOLEAN] /\ starts' \in [JobIds -> Nat]
        /\ held' \in [Actors -> JobRows] /\ own' \in [Calls -> [run : BOOLEAN, job : BOOLEAN]]
    BY <1>2 DEF Sound, TypeOK
  <2> QED
    BY <1>1, <1>2, <1>3, <1>4, <2>1, <2>2, <2>3, ProcessStep, Bounds
<1> QED
  BY <1>1, <1>2, <1>5 DEF Keeps, github

\* A pass ends a stalled job.
LEMMA TerminalizeStep == ASSUME Sound, NEW p \in Passes, Terminalize(p)
  PROVE  /\ Sound' /\ Only(p) /\ pc[p] = "judge" /\ pc'[p] \in {"parkRun", "resume"} /\ on[p] \in JobIds
         /\ Exists(on[p]) /\ (Writes(on[p], "CANCELLED") \/ Writes(on[p], "STALLED"))
         /\ jobs'[on[p]].stamped = held[p].stamped
         /\ UNCHANGED <<github, runner, locals>>
<1>1. PICK status \in {"CANCELLED", "STALLED"}, label \in {"parkRun", "resume"} : WriteHeld(p, status) /\ Goto(p, label)
  BY DEF Terminalize
<1>2. At(p, "judge", label) /\ label \in PassLabels /\ label \notin Early /\ status \in JobStatuses /\ status # "NONE"
  BY <1>1, StatusesTyped DEF Terminalize, At, PassLabels, Early
<1>3. UNCHANGED <<task, run, github, runner, locals, faults>>
  BY DEF Terminalize
<1>4. /\ Sound' /\ Only(p) /\ pc[p] = "judge" /\ pc'[p] = label /\ on[p] \in JobIds
      /\ Exists(on[p]) /\ Writes(on[p], status) /\ jobs'[on[p]].stamped = held[p].stamped
  BY <1>1, <1>2, <1>3, WritingStep, Bounds DEF Resting, Early
<1> QED
  BY <1>1, <1>3, <1>4

\* A pass puts an attempt off whose dispatch was refused.
LEMMA DeferDispatchStep == ASSUME Sound, NEW p \in Passes, DeferDispatch(p)
  PROVE  /\ Sound' /\ Only(p) /\ pc[p] = "defer" /\ pc'[p] = "scan" /\ on[p] \in JobIds
         /\ Exists(on[p]) /\ Writes(on[p], "QUEUED")
         /\ UNCHANGED <<github, runner, locals>>
<1> DEFINE row == [held[p] EXCEPT !.status = "QUEUED", !.waiting = TRUE]
<1>1. row \in JobRows /\ row.status = "QUEUED"
  <2>1. held[p] \in JobRows /\ "QUEUED" \in JobStatuses /\ TRUE \in BOOLEAN
    BY Bounds, StatusesTyped DEF Sound, TypeOK, inFlightStatuses
  <2> QED
    BY <2>1, RowWritten
<1>2. pc[p] = "defer" /\ Goto(p, "scan") /\ Write(on[p], row)
  BY DEF DeferDispatch, At
<1> HIDE DEF row
<1>3. on[p] \in JobIds /\ Exists(on[p])
  BY <1>2, Bounds DEF Sound, Knows, Resting, Early
<1>4. jobs' \in [JobIds -> JobRows] /\ Writes(on[p], "QUEUED")
  BY <1>1, <1>2, <1>3, WriteTyped DEF Sound, Writes
<1>5. Grows
  BY <1>3, <1>4, WritesGrows
<1>6. Sound' /\ Only(p) /\ pc'[p] = "scan"
  BY <1>2, <1>4, <1>5, ProcessStep, Bounds DEF DeferDispatch, Sound, TypeOK, PassLabels,
     Resting, github, locals
<1> QED
  BY <1>2, <1>3, <1>4, <1>6 DEF DeferDispatch

\* A pass makes the next attempt's row, or takes the stored one.
LEMMA ResumeStep == ASSUME Sound, NEW p \in Passes, Resume(p)
  PROVE /\ Sound' /\ Only(p) /\ pc[p] = "resume" /\ pc'[p] \in {"scan", "dispatching"}
        /\ on[p] \in JobIds /\ Exists(on[p]) /\ on'[p] = NextAttempt(on[p]) /\ on'[p] \in JobIds
        /\ on'[p][1] = on[p][1] /\ on'[p][2] = on[p][2] + 1 /\ on[p][2] \in Nat
        /\ ~Exists(on'[p]) => Writes(on'[p], "QUEUED")
        /\ Exists(on'[p]) => UNCHANGED jobs
        /\ UNCHANGED <<github, runner, own, todo>>
<1> DEFINE next == NextAttempt(on[p])
<1>1. p \in Actors /\ pc[p] = "resume" /\ on[p] \in JobIds /\ Exists(on[p]) /\ on[p][2] < MaxAttempt
  BY Bounds DEF Resume, Sound, Knows, Resting, Early
<1>2. next \in JobIds /\ next[1] = on[p][1] /\ next[2] = on[p][2] + 1 /\ on[p][2] \in Nat
  BY <1>1, Bounds DEF NextAttempt
<1>3. /\ on' \in [Actors -> JobIds \cup {NoJob}] /\ on'[p] = next
      /\ \A b \in Actors \ {p} : on'[b] = on[b]
  BY <1>1, <1>2 DEF Resume, Sound, TypeOK
<1>4. PICK label \in {"scan", "dispatching"} : Goto(p, label)
  BY DEF Resume
<1>5. label \in ActorLabels /\ label \in PassLabels /\ label \notin Early
  BY <1>4 DEF ActorLabels, PassLabels, Early
<1>6. /\ pc' \in [Actors -> ActorLabels] /\ pc'[p] = label
      /\ \A b \in Actors \ {p} : pc'[b] = pc[b]
  BY <1>1, <1>4, <1>5, GotoTyped DEF Sound
<1>7. /\ jobs' \in [JobIds -> JobRows]
      /\ held' \in [Actors -> JobRows] /\ \A b \in Actors \ {p} : held'[b] = held[b]
      /\ ~Exists(next) => Writes(next, "QUEUED")
      /\ Exists(next) => UNCHANGED jobs
  <2>1. CASE ~Exists(next)
    <3>1. PICK row : /\ \E waits \in BOOLEAN : row = [status |-> "QUEUED", stamped |-> FALSE, waiting |-> waits,
                                                      linked |-> held[p].linked]
                     /\ Write(next, row) /\ held' = [held EXCEPT ![p] = row]
      BY <2>1 DEF Resume, Exists
    <3>2. row \in JobRows /\ row.status = "QUEUED"
      BY <1>1, <3>1, StatusesTyped DEF Sound, TypeOK, JobRows, inFlightStatuses
    <3> HIDE DEF next
    <3> QED
      BY <1>1, <1>2, <2>1, <3>1, <3>2, WriteTyped DEF Sound, TypeOK, Writes
  <2>2. CASE Exists(next)
    <3>1. held' = [held EXCEPT ![p] = jobs[next]] /\ UNCHANGED jobs
      BY <2>2 DEF Resume, Exists
    <3> HIDE DEF next
    <3> QED
      BY <1>1, <1>2, <2>2, <3>1 DEF Sound, TypeOK
  <2> QED
    BY <2>1, <2>2
<1>8. UNCHANGED <<task, run, pending, starts, runner, own, todo, faults>>
  BY DEF Resume, github
<1>9. TypeOK'
  BY <1>3, <1>6, <1>7, <1>8 DEF Sound, TypeOK
<1>10. Grows /\ jobs'[next].status # "NONE"
  <2> HIDE DEF next
  <2>1. CASE ~Exists(next)
    <3>1. jobs'[next].status = "QUEUED" /\ \A k \in JobIds \ {next} : jobs'[k] = jobs[k]
      BY <1>7, <2>1 DEF Writes
    <3> QED
      BY <1>7, <2>1, <3>1, <1>2, WritesGrows
  <2>2. CASE Exists(next)
    BY <1>2, <1>7, <2>2 DEF Grows, Exists
  <2> QED
    BY <2>1, <2>2
<1>11. Exists(on[p])' /\ on'[p] \in JobIds
  BY <1>2, <1>3, <1>10 DEF Exists
<1>12. Only(p) /\ Knows(p)' /\ \A q \in Passes : \A k \in todo'[q] : Exists(k)
  BY <1>3, <1>5, <1>6, <1>7, <1>8, <1>11 DEF Only, Knows, Sound
<1>13. Sound'
  BY <1>1, <1>5, <1>6, <1>8, <1>9, <1>10, <1>12, MoveSound, Bounds
<1> QED
  BY <1>1, <1>2, <1>3, <1>4, <1>6, <1>7, <1>8, <1>12, <1>13 DEF github
-----------------------------------------------------------------------------
\* The workflow run of job j goes from one step to another.
LEMMA RunnerTyped ==
  ASSUME Sound, NEW j \in JobIds, NEW label \in RunnerLabels, runner' = [runner EXCEPT ![j] = label]
  PROVE  /\ runner' \in [JobIds -> RunnerLabels] /\ runner'[j] = label
         /\ \A k \in JobIds \ {j} : runner'[k] = runner[k]
         /\ (label \in Alive => Exists(j)) => \A k \in JobIds : runner'[k] \in Alive => Exists(k)
  BY DEF Sound, TypeOK

\* A runner that is at work goes to another step.
LEMMA RunnerAtStep ==
  ASSUME Sound, NEW j \in JobIds, NEW from \in Alive, NEW to \in RunnerLabels, RunnerAt(j, from, to)
  PROVE  /\ runner[j] = from /\ Exists(j)
         /\ runner' \in [JobIds -> RunnerLabels] /\ runner'[j] = to
         /\ \A k \in JobIds \ {j} : runner'[k] = runner[k]
         /\ \A k \in JobIds : runner'[k] \in Alive => Exists(k)
  BY RunnerTyped DEF RunnerAt, Sound

\* A runner's write changes its own row.
LEMMA RunnerWritesStep ==
  ASSUME TypeOK, NEW j \in JobIds, NEW status \in JobStatuses, RunnerWrites(j, status)
  PROVE  jobs' \in [JobIds -> JobRows] /\ Writes(j, status) /\ jobs'[j].stamped
<1> DEFINE row == [jobs[j] EXCEPT !.status = status, !.stamped = TRUE, !.waiting = FALSE]
<1>1. row \in JobRows /\ row.status = status /\ row.stamped
  <2>1. jobs[j] \in JobRows /\ TRUE \in BOOLEAN /\ FALSE \in BOOLEAN
    BY DEF TypeOK
  <2> QED
    BY <2>1, RowWritten
<1>2. Write(j, row)
  BY DEF RunnerWrites
<1> HIDE DEF row
<1> QED
  BY <1>1, <1>2, WriteTyped DEF Writes

\* The steps of a workflow run.
LEMMA RunnerLabelsAre ==
  /\ Alive \subseteq RunnerLabels /\ {"exited", "lost", "stopped"} \subseteq RunnerLabels
  /\ Alive = {"claimed", "running", "published", "closeRun", "closeJob", "failJob", "failRun"}
  BY DEF RunnerLabels, Alive

\* The claim, the only compare-and-set.
LEMMA ClaimStep == ASSUME Sound, NEW j \in JobIds, Claim(j)
  PROVE  /\ Sound' /\ pending[j] /\ Claimable(j) /\ Writes(j, "CLAIMED") /\ jobs'[j].stamped = jobs[j].stamped
         /\ pending' = [pending EXCEPT ![j] = FALSE]
         /\ runner'[j] = "claimed" /\ \A k \in JobIds \ {j} : runner'[k] = runner[k]
         /\ UNCHANGED <<starts, pc, locals>>
<1>1. /\ pending[j] /\ pending' = [pending EXCEPT ![j] = FALSE] /\ Claimable(j)
      /\ jobs' = [jobs EXCEPT ![j].status = "CLAIMED"] /\ runner' = [runner EXCEPT ![j] = "claimed"]
      /\ UNCHANGED <<task, run, starts, pc, on, held, own, todo, faults>>
  BY DEF Claim, StartRun, locals
<1>2. jobs' \in [JobIds -> JobRows] /\ Writes(j, "CLAIMED") /\ jobs'[j].stamped = jobs[j].stamped
  <2>1. jobs[j] \in JobRows /\ "CLAIMED" \in JobStatuses
    BY StatusesTyped DEF Sound, TypeOK, inFlightStatuses
  <2> DEFINE row == [jobs[j] EXCEPT !.status = "CLAIMED"]
  <2>2. row \in JobRows /\ row.status = "CLAIMED" /\ row.stamped = jobs[j].stamped
    BY <2>1, RowTyped
  <2>3. Write(j, row)
    BY <1>1 DEF Write
  <2> HIDE DEF row
  <2> QED
    BY <2>2, <2>3, WriteTyped DEF Writes, Sound
<1>3. Exists(j) /\ Grows
  BY <1>1, <1>2, WritesGrows DEF Claimable, Exists
<1>4. /\ runner' \in [JobIds -> RunnerLabels] /\ runner'[j] = "claimed"
      /\ \A k \in JobIds \ {j} : runner'[k] = runner[k]
      /\ \A k \in JobIds : runner'[k] \in Alive => Exists(k)
  BY <1>1, <1>3, RunnerTyped, RunnerLabelsAre
<1>5. pending' \in [JobIds -> BOOLEAN]
  BY <1>1 DEF Sound, TypeOK
<1>6. TypeOK'
  BY <1>1, <1>2, <1>4, <1>5 DEF Sound, TypeOK
<1> QED
  BY <1>1, <1>2, <1>3, <1>4, <1>6, RunSound DEF locals

\* The workflow run ends, or GitHub or a person ends it, or a step of it fails:
\* no row is written.
LEMMA RunEndsStep == ASSUME Sound, NEW j \in JobIds,
                            \/ ClaimRefused(j) \/ ClaimTooEarly(j) \/ GateAccepts(j) \/ GateRefuses(j)
                            \/ CloseRun(j) \/ FailOpenRun(j) \/ StepFails(j) \/ RunnerLost(j) \/ PersonStops(j)
  PROVE  /\ Sound' /\ UNCHANGED <<jobs, starts, pc, locals>>
         /\ \A k \in JobIds : pending'[k] => pending[k]
         /\ \A k \in JobIds \ {j} : runner'[k] = runner[k]
         /\ \/ runner'[j] \in {"exited", "lost", "stopped"}
            \/ runner[j] \in Alive \ {"failRun"} /\ runner'[j] \in Alive \ {"failRun"}
<1>1. UNCHANGED <<jobs, starts, pc, on, held, own, todo>>
  BY DEF ClaimRefused, ClaimTooEarly, GateAccepts, GateRefuses, CloseRun, FailOpenRun,
     StepFails, RunnerLost, PersonStops, locals, github
<1>2. PICK label \in Alive \cup {"exited", "lost", "stopped"} :
         /\ runner' = [runner EXCEPT ![j] = label]
         /\ label \in Alive => label # "failRun" /\ runner[j] \in Alive \ {"failRun"}
  BY RunnerLabelsAre DEF ClaimRefused, ClaimTooEarly, GateAccepts, GateRefuses, CloseRun,
     FailOpenRun, StepFails, RunnerLost, PersonStops, RunnerAt
<1>3. pending' \in [JobIds -> BOOLEAN] /\ \A k \in JobIds : pending'[k] => pending[k]
  <2>1. pending \in [JobIds -> BOOLEAN]
    BY DEF Sound, TypeOK
  <2>2. pending' = pending \/ pending' = [pending EXCEPT ![j] = FALSE]
    BY DEF ClaimRefused, ClaimTooEarly, GateAccepts, GateRefuses, CloseRun, FailOpenRun,
       StepFails, RunnerLost, PersonStops, StartRun, github
  <2> QED
    BY <2>1, <2>2
<1>4. /\ task' \in {"PLANNED", "IMPLEMENTING", "VERIFYING", "BLOCKED"} /\ faults' \in 0..MaxFaults
  <2>1. task \in {"PLANNED", "IMPLEMENTING", "VERIFYING", "BLOCKED"} /\ faults \in 0..MaxFaults
    BY DEF Sound, TypeOK
  <2>2. task' = task \/ task' = "VERIFYING" \/ task' = "BLOCKED"
    BY DEF ClaimRefused, ClaimTooEarly, GateAccepts, GateRefuses, CloseRun, FailOpenRun,
       StepFails, RunnerLost, PersonStops
  <2>3. faults' = faults \/ \E what : Fault(what)
    BY DEF ClaimRefused, ClaimTooEarly, GateAccepts, GateRefuses, CloseRun, FailOpenRun,
       StepFails, RunnerLost, PersonStops
  <2> QED
    BY <2>1, <2>2, <2>3, FaultTyped DEF Sound
<1>5. run' \in [Operations -> RunStatuses]
  <2>1. run \in [Operations -> RunStatuses]
    BY DEF Sound, TypeOK
  <2>2. run' = run \/ \E status \in RunStatuses : run' = [run EXCEPT ![j[1]] = status]
    BY DEF ClaimRefused, ClaimTooEarly, GateAccepts, GateRefuses, CloseRun, FailOpenRun,
       StepFails, RunnerLost, PersonStops, CloseRunRow, RunStatuses
  <2> QED
    BY <2>1, <2>2
<1>6. label \in RunnerLabels /\ (label \in Alive => Exists(j))
  BY <1>2, RunnerLabelsAre DEF Sound
<1>7. /\ runner' \in [JobIds -> RunnerLabels] /\ runner'[j] = label
      /\ \A k \in JobIds \ {j} : runner'[k] = runner[k]
      /\ \A k \in JobIds : runner'[k] \in Alive => Exists(k)
  BY <1>2, <1>6, RunnerTyped
<1>8. TypeOK'
  BY <1>1, <1>3, <1>4, <1>5, <1>7 DEF Sound, TypeOK
<1>9. Grows
  BY <1>1 DEF Grows, Exists
<1> QED
  BY <1>1, <1>2, <1>3, <1>7, <1>8, <1>9, RunSound DEF locals

\* A runner writes its row: at work RUNNING, and at its end the end.
LEMMA RunnerWritingStep == ASSUME Sound, NEW j \in JobIds, Stamp(j) \/ Publish(j) \/ CloseJob(j) \/ FailJob(j)
  PROVE  /\ Sound' /\ UNCHANGED <<github, pc, locals>>
         /\ \A k \in JobIds \ {j} : runner'[k] = runner[k]
         /\ runner[j] \in Alive \ {"failRun"}
         /\ \E status \in {"RUNNING", "SUCCEEDED", "FAILED", "BLOCKED"} :
               /\ Writes(j, status) /\ (jobs[j].stamped => jobs'[j].stamped)
               /\ runner'[j] \in Alive \ {"failRun"} => status = "RUNNING"
<1>1. PICK status \in {"RUNNING", "SUCCEEDED", "FAILED", "BLOCKED"}, from \in Alive \ {"failRun"}, to \in Alive \cup {"exited"} :
         /\ \/ RunnerWrites(j, status) \/ Write(j, [jobs[j] EXCEPT !.status = status, !.waiting = FALSE])
         /\ RunnerAt(j, from, to)
         /\ to \in Alive \ {"failRun"} => status = "RUNNING"
  BY RunnerLabelsAre DEF Stamp, Publish, CloseJob, FailJob
<1>2. UNCHANGED <<task, run, pending, starts, pc, on, held, own, todo>> /\ UNCHANGED faults
  BY DEF Stamp, Publish, CloseJob, FailJob, github, locals
<1>3. /\ runner[j] = from /\ Exists(j)
      /\ runner' \in [JobIds -> RunnerLabels] /\ runner'[j] = to
      /\ \A k \in JobIds \ {j} : runner'[k] = runner[k]
      /\ \A k \in JobIds : runner'[k] \in Alive => Exists(k)
  BY <1>1, RunnerAtStep, RunnerLabelsAre
<1>4. status \in JobStatuses /\ status # "NONE"
  BY <1>1, StatusesTyped DEF inFlightStatuses
<1>5. jobs' \in [JobIds -> JobRows] /\ Writes(j, status) /\ (jobs[j].stamped => jobs'[j].stamped)
  <2>1. CASE RunnerWrites(j, status)
    BY <1>4, <2>1, RunnerWritesStep DEF Sound
  <2>2. CASE Write(j, [jobs[j] EXCEPT !.status = status, !.waiting = FALSE])
    <3> DEFINE row == [jobs[j] EXCEPT !.status = status, !.waiting = FALSE]
    <3>1. row \in JobRows /\ row.status = status /\ row.stamped = jobs[j].stamped
      <4>1. jobs[j] \in JobRows /\ FALSE \in BOOLEAN
        BY DEF Sound, TypeOK
      <4> QED
        <5>1. row \in JobRows
          BY <1>4, <4>1, Zenon DEF JobRows
        <5>2. row.status = status /\ row.stamped = jobs[j].stamped
          BY <4>1, SMT DEF JobRows
        <5> QED
          BY <5>1, <5>2
    <3>2. Write(j, row)
      BY <2>2
    <3> HIDE DEF row
    <3> QED
      BY <3>1, <3>2, WriteTyped DEF Sound, Writes
  <2> QED
    BY <1>1, <2>1, <2>2
<1>6. TypeOK'
  BY <1>2, <1>3, <1>5 DEF Sound, TypeOK
<1>7. Grows
  BY <1>4, <1>5, WritesGrows
<1>8. Sound'
  BY <1>2, <1>3, <1>6, <1>7, RunSound
<1> QED
  BY <1>1, <1>2, <1>3, <1>5, <1>8 DEF github, locals

\* A back-off ends, and nothing else of the row changes.
LEMMA BackoffEndsStep == ASSUME Sound, NEW j \in JobIds, BackoffEnds(j)
  PROVE  /\ Sound' /\ UNCHANGED <<github, runner, pc, locals>>
         /\ \A k \in JobIds : jobs'[k].status = jobs[k].status /\ jobs'[k].stamped = jobs[k].stamped
<1> DEFINE row == [jobs[j] EXCEPT !.waiting = FALSE]
<1>1. row \in JobRows /\ row.status = jobs[j].status /\ row.stamped = jobs[j].stamped
  <2>1. jobs[j] \in JobRows /\ FALSE \in BOOLEAN
    BY DEF Sound, TypeOK
  <2>2. row \in JobRows
    BY <2>1, Zenon DEF JobRows
  <2>3. row.status = jobs[j].status /\ row.stamped = jobs[j].stamped
    BY <2>1, SMT DEF JobRows
  <2> QED
    BY <2>2, <2>3
<1>2. Write(j, row)
  BY DEF BackoffEnds, Write
<1> HIDE DEF row
<1>3. jobs' \in [JobIds -> JobRows] /\ jobs'[j] = row /\ \A k \in JobIds \ {j} : jobs'[k] = jobs[k]
  BY <1>1, <1>2, WriteTyped DEF Sound
<1>4. \A k \in JobIds : jobs'[k].status = jobs[k].status /\ jobs'[k].stamped = jobs[k].stamped
  BY <1>1, <1>3
<1>5. UNCHANGED <<task, run, pending, starts, runner, pc, on, held, own, todo, faults>>
  BY DEF BackoffEnds, github, locals
<1>6. TypeOK'
  BY <1>3, <1>5 DEF Sound, TypeOK
<1>7. Grows
  BY <1>4 DEF Grows, Exists
<1> QED
  BY <1>4, <1>5, <1>6, <1>7, RunSound DEF Sound, github, locals

-----------------------------------------------------------------------------
\* Every step keeps Sound.
LEMMA NextSound == Sound /\ [Next]_vars => Sound'
<1> SUFFICES ASSUME Sound, [Next]_vars PROVE Sound'
  OBVIOUS
<1>1. CASE UNCHANGED vars
  BY <1>1 DEF vars, github, locals, Sound, TypeOK, Knows, Exists
<1>2. ASSUME NEW c \in Calls, Enqueue(c) \/ Cancel(c) \/ Serve(c) \/ RequestDies(c) PROVE Sound'
  BY <1>2, EnqueueStep, CancelStep, RequestDiesStep, EnterImplementingStep, SaveRunStep,
     CreateJobStep,
     BlockJobStep, FailRunStep, CancelJobStep DEF Serve
<1>3. ASSUME NEW a \in Actors, Dispatching(a) PROVE Sound'
  BY <1>3, WriteDispatchingStep, DispatchStep, WriteDispatchedStep DEF Dispatching
<1>4. ASSUME NEW j \in JobIds,
             \/ Runner(j) \/ ClaimTooEarly(j) \/ StepFails(j) \/ RunnerLost(j) \/ PersonStops(j) \/ BackoffEnds(j)
      PROVE  Sound'
  BY <1>4, ClaimStep, RunEndsStep, RunnerWritingStep, BackoffEndsStep DEF Runner
<1>5. ASSUME NEW p \in Passes, Pass(p) \/ PassDies(p) PROVE Sound'
  BY <1>5, ListActiveStep, ReadJobStep, PassGoesOn, TerminalizeStep, ResumeStep,
     DeferDispatchStep DEF Pass
<1> QED
  BY <1>1, <1>2, <1>3, <1>4, <1>5 DEF Next

\* Whatever happens, rows stay, and whoever writes one knows it exists: every
\* request, pass and runner past its first step holds the id of a job, whose
\* row is there once the request has made it.
THEOREM AlwaysSound == Spec => []Sound
  BY InitSound, NextSound, PTL DEF Spec

\* Rows hold what the schema accepts, and a process knows the job it works
\* on, for any requests, passes, faults and thresholds.
THEOREM TypeCorrect == Spec => []TypeOK
<1>1. Sound => TypeOK
  BY DEF Sound
<1> QED
  BY <1>1, AlwaysSound, PTL
-----------------------------------------------------------------------------
\* One request at a time.
Singly == ConcurrentCalls <= 1
OneRequest == \A c, d \in InProgress : c = d

\* A job as it was requested is dispatched by the request that made its row, and
\* never by a pass.
RequestedOnce(c) ==
  /\ pc[c] \in Early => on[c][2] = 0 /\ ~Exists(on[c])
  /\ pc[c] \in {"dispatching", "dispatch"} => on[c][2] = 0 /\ starts[on[c]] = 0
ResumedOnly(p) == pc[p] \in {"dispatching", "dispatch"} => on[p][2] > 0
StartedOnce(j) == j[2] = 0 => starts[j] <= 1 /\ (~Exists(j) => starts[j] = 0)

ReplayInv ==
  /\ Sound
  /\ OneRequest
  /\ \A c \in Calls : RequestedOnce(c)
  /\ \A p \in Passes : ResumedOnly(p)
  /\ \A j \in JobIds : StartedOnce(j)

\* Requests and passes one after the other, nobody cancels a job in the admin
\* console, no threshold passes while a runner is alive, and no runner moves
\* between a pass's read of its job and what the pass does about it.
Serially ==
  /\ Singly /\ PassesAlone /\ ~CancelsJobs /\ ~Overdue /\ ~StaleReads
  /\ \A p, q \in Passes : p = q

Latest(j) == \A k \in JobIds : k[1] = j[1] /\ k[2] > j[2] => ~Exists(k)
WritingRunner == Alive \ {"failRun"}
Status(j) == jobs[j].status

RequestOwnsJob(c) ==
  /\ pc[c] \notin {"cancelJob", "cancelRun"}
  /\ pc[c] \in Early =>
       /\ InFlight = {} /\ on[c][2] = 0 /\ ~Exists(on[c])
       /\ \A p \in Passes : pc[p] = "idle"
  /\ pc[c] = "dispatching" => Status(on[c]) = "QUEUED" /\ ~pending[on[c]]
  /\ pc[c] \in {"dispatch", "dispatched", "blockJob"} => Status(on[c]) = "DISPATCHING"
  /\ pc[c] \in {"dispatching", "dispatch", "dispatched", "blockJob"} =>
       own[c].job /\ ~jobs[on[c]].stamped /\ ~held[c].stamped /\ on[c][2] = 0

PassKnowsJob(p) ==
  /\ pc[p] = "judge" =>
       /\ InFlight \subseteq {on[p]} /\ Latest(on[p])
       /\ Status(on[p]) \in inFlightStatuses \cup {"BLOCKED"}
       /\ held[p].stamped => jobs[on[p]].stamped
  /\ pc[p] = "resume" => InFlight = {} /\ Latest(on[p])
  /\ pc[p] = "dispatching" => Status(on[p]) = "QUEUED" /\ on[p][2] > 0
  /\ pc[p] \in {"dispatch", "dispatched", "defer"} => Status(on[p]) = "DISPATCHING" /\ on[p][2] > 0

JobInOrder(j) ==
  /\ Exists(j) => Exists(<<j[1], 0>>)
  /\ pending[j] => Exists(j)
  /\ runner[j] \in WritingRunner => Status(j) \in {"CLAIMED", "RUNNING"}
  /\ j \in InFlight => InFlight = {j} /\ Latest(j)

SerialInv ==
  /\ Sound
  /\ OneRequest
  /\ \A c \in Calls : RequestOwnsJob(c)
  /\ \A p \in Passes : PassKnowsJob(p)
  /\ \A j \in JobIds : JobInOrder(j)
-----------------------------------------------------------------------------
\* A request is let in only when no other is in progress.
LEMMA LetInAlone ==
  ASSUME Singly, NEW c \in Calls, Admitted(c)
  PROVE  InProgress = {}
<1>1. IsFiniteSet(InProgress)
  BY ActorsDistinct, FS_Subset DEF InProgress
<1>2. Cardinality(InProgress) = 0
  BY <1>1, FS_CardinalityType, Bounds DEF Admitted, Singly
<1> QED
  BY <1>1, <1>2, FS_EmptySet

\* Nobody else is let in while one request moves.
LEMMA OneRequestKept ==
  ASSUME OneRequest, NEW c \in Calls,
         \A b \in Actors \ {c} : pc'[b] = pc[b],
         InProgress = {} \/ c \in InProgress
  PROVE  OneRequest' /\ InProgress' \subseteq {c}
<1>1. \A d \in InProgress' : d # c => d \in InProgress
  BY Bounds DEF InProgress
<1> QED
  BY <1>1 DEF OneRequest

\* Statuses of requests that are under way.
LEMMA UnderWay ==
  \A c \in Calls : pc[c] \notin Resting => c \in InProgress
  BY DEF Resting, InProgress

\* What a step of anybody but a request that makes or dispatches a job leaves.
LEMMA ReplayQuiet ==
  ASSUME ReplayInv, Sound', Grows,
         \A j \in JobIds : j[2] = 0 => starts'[j] = starts[j] /\ (Exists(j)' => Exists(j)),
         OneRequest',
         \A c \in Calls : \/ pc'[c] = pc[c] /\ on'[c] = on[c]
                          \/ pc'[c] \notin Early \cup {"dispatching", "dispatch"}
                          \/ /\ pc'[c] \in Early /\ on'[c][2] = 0 /\ ~Exists(on[c])'
                          \/ /\ pc'[c] = "dispatch" /\ pc[c] = "dispatching" /\ on'[c] = on[c],
         \A p \in Passes : ResumedOnly(p)'
  PROVE  ReplayInv'
<1>1. ASSUME NEW c \in Calls PROVE RequestedOnce(c)'
  <2>1. c \in Actors /\ (pc[c] \notin Resting => on[c] \in JobIds)
    BY Bounds DEF ReplayInv, Sound, Knows
  <2>2. RequestedOnce(c)
    BY DEF ReplayInv
  <2>3. CASE pc'[c] = pc[c] /\ on'[c] = on[c]
    <3>1. CASE pc[c] \in Early
      <4>1. on[c] \in JobIds /\ on[c][2] = 0 /\ ~Exists(on[c])
        BY <2>1, <2>2, <3>1 DEF RequestedOnce, Early, Resting
      <4>2. jobs'[on[c]].status = "NONE"
        BY <4>1 DEF Exists
      <4> QED
        BY <2>3, <3>1, <4>1, <4>2 DEF RequestedOnce, Early, Exists
    <3>2. CASE pc[c] \in {"dispatching", "dispatch"}
      BY <2>1, <2>2, <2>3, <3>2 DEF RequestedOnce, Early, Resting
    <3> QED
      BY <2>3, <3>1, <3>2 DEF RequestedOnce
  <2>4. CASE pc'[c] = "dispatch" /\ pc[c] = "dispatching" /\ on'[c] = on[c]
    BY <2>1, <2>2, <2>4 DEF RequestedOnce, Early, Resting
  <2>5. CASE pc'[c] \in Early /\ on'[c][2] = 0 /\ ~Exists(on[c])'
    BY <2>5 DEF RequestedOnce, Early
  <2>6. CASE pc'[c] \notin Early \cup {"dispatching", "dispatch"}
    BY <2>6 DEF RequestedOnce
  <2> QED
    BY <2>3, <2>4, <2>5, <2>6
<1>2. ASSUME NEW j \in JobIds PROVE StartedOnce(j)'
  <2>1. StartedOnce(j)
    BY DEF ReplayInv
  <2>2. j[2] = 0 => starts'[j] = starts[j] /\ (jobs[j].status # "NONE" => jobs'[j].status # "NONE")
    BY DEF Grows, Exists
  <2> QED
    BY <2>1, <2>2 DEF StartedOnce, Exists
<1> QED
  BY <1>1, <1>2 DEF ReplayInv

\* A request goes on, beside it nobody is under way and no pass moves.
LEMMA RequestAlone ==
  ASSUME ReplayInv, Sound', NEW c \in Calls, Only(c), InProgress = {} \/ c \in InProgress
  PROVE  /\ OneRequest'
         /\ \A d \in Calls \ {c} : /\ pc[d] \in Resting /\ pc'[d] = pc[d] /\ on'[d] = on[d]
                                   /\ RequestedOnce(d)'
         /\ \A p \in Passes : ResumedOnly(p)'
<1>1. OneRequest'
  BY OneRequestKept DEF ReplayInv, Only
<1>2. ASSUME NEW d \in Calls \ {c} PROVE pc[d] \in Resting /\ pc'[d] = pc[d] /\ on'[d] = on[d]
  BY UnderWay, Bounds DEF Only, ReplayInv, OneRequest
<1>3. ASSUME NEW d \in Calls \ {c} PROVE RequestedOnce(d)'
  BY <1>2 DEF RequestedOnce, Resting, Early
<1>4. ASSUME NEW p \in Passes PROVE ResumedOnly(p)'
  BY Bounds DEF ReplayInv, Only, ResumedOnly
<1> QED
  BY <1>1, <1>2, <1>3, <1>4

\* Steps of a request that write no row and start nothing.
LEMMA QuietRequest ==
  ASSUME ReplayInv, Sound', NEW c \in Calls, Only(c), InProgress = {} \/ c \in InProgress,
         UNCHANGED <<jobs, starts>>,
         \/ pc'[c] \notin Early \cup {"dispatching", "dispatch"}
         \/ pc'[c] \in Early /\ on'[c][2] = 0 /\ ~Exists(on[c])'
  PROVE  ReplayInv'
<1>1. Grows /\ \A j \in JobIds : starts'[j] = starts[j] /\ (Exists(j)' => Exists(j))
  BY DEF Grows, Exists
<1> QED
  BY <1>1, RequestAlone, ReplayQuiet

\* Steps of a request that write an existing row.
LEMMA WritingRequest ==
  ASSUME ReplayInv, Sound', NEW c \in Calls, Only(c), UNCHANGED starts,
         pc[c] \notin Resting, Exists(on[c]), on[c] \in JobIds,
         NEW status, status # "NONE", Writes(on[c], status),
         \/ pc'[c] \notin Early \cup {"dispatching", "dispatch"}
         \/ pc'[c] = "dispatch" /\ pc[c] = "dispatching" /\ on'[c] = on[c]
  PROVE  ReplayInv'
<1>1. Grows
  BY WritesGrows
<1>2. \A j \in JobIds : starts'[j] = starts[j] /\ (Exists(j)' => Exists(j))
  BY DEF Writes, Exists
<1>3. c \in InProgress
  BY UnderWay
<1> QED
  BY <1>1, <1>2, <1>3, RequestAlone, ReplayQuiet

\* Nothing that GitHub, a runner or a pass does makes a row of a requested job
\* or starts it.
LEMMA BesideRequests ==
  ASSUME ReplayInv, Sound', Grows,
         \A c \in Calls : pc'[c] = pc[c] /\ on'[c] = on[c],
         \A j \in JobIds : j[2] = 0 => starts'[j] = starts[j] /\ (Exists(j)' => Exists(j)),
         \A p \in Passes : ResumedOnly(p)'
  PROVE  ReplayInv'
<1>1. OneRequest'
  BY DEF ReplayInv, OneRequest, InProgress
<1> QED
  BY <1>1, ReplayQuiet

\* A pass moves.
LEMMA PassBesideRequests ==
  ASSUME ReplayInv, Sound', Grows, NEW p \in Passes, Only(p),
         \A j \in JobIds : j[2] = 0 => starts'[j] = starts[j] /\ (Exists(j)' => Exists(j)),
         ResumedOnly(p)'
  PROVE  ReplayInv'
<1>1. \A c \in Calls : pc'[c] = pc[c] /\ on'[c] = on[c]
  BY Bounds DEF Only
<1>2. \A q \in Passes : ResumedOnly(q)'
  BY Bounds DEF ReplayInv, Only, ResumedOnly
<1> QED
  BY <1>1, <1>2, BesideRequests

-----------------------------------------------------------------------------
\* ReplayInv holds at first.
LEMMA InitReplay == Init => ReplayInv
<1> SUFFICES ASSUME Init PROVE ReplayInv
  OBVIOUS
<1>1. \A a \in Actors : pc[a] = "idle"
  BY DEF Init
<1>2. \A j \in JobIds : starts[j] = 0
  BY DEF Init
<1> QED
  BY <1>1, <1>2, InitSound, Bounds DEF ReplayInv, OneRequest, InProgress, RequestedOnce,
     ResumedOnly, StartedOnce, Early

\* A request keeps it.
LEMMA RequestReplay ==
  ASSUME Singly, ReplayInv, NEW c \in Calls, Enqueue(c) \/ Cancel(c) \/ Serve(c) \/ RequestDies(c)
  PROVE  ReplayInv'
<1> USE DEF ReplayInv
<1>1. CASE Enqueue(c)
  <2>1. /\ Sound' /\ Only(c) /\ pc'[c] \in Early /\ UNCHANGED <<jobs, starts>>
    BY <1>1, EnqueueStep DEF github
  <2>2. PICK o \in Operations : NewOperation(o) /\ on' = [on EXCEPT ![c] = <<o, 0>>]
    BY <1>1 DEF Enqueue
  <2>3. on'[c] = <<o, 0>>
    BY <2>2, Bounds DEF Sound, TypeOK
  <2>4. on'[c][2] = 0 /\ ~Exists(on[c])'
    BY <2>1, <2>2, <2>3 DEF NewOperation, Exists
  <2>5. InProgress = {}
    BY <1>1, LetInAlone DEF Enqueue
  <2> QED
    BY <2>1, <2>4, <2>5, QuietRequest
<1>2. CASE Cancel(c)
  <2>1. InProgress = {}
    BY <1>2, LetInAlone DEF Cancel
  <2> QED
    BY <1>2, <2>1, CancelStep, QuietRequest DEF github, Early
<1>3. CASE RequestDies(c)
  <2>1. c \in InProgress
    BY <1>3 DEF RequestDies
  <2> QED
    BY <1>3, <2>1, RequestDiesStep, QuietRequest DEF github, Early
<1>4. CASE EnterImplementing(c) \/ SaveRun(c)
  <2>1. Sound' /\ Only(c) /\ pc[c] \in Early /\ pc'[c] \in Early /\ UNCHANGED <<jobs, starts, on>>
    BY <1>4, EnterImplementingStep, SaveRunStep DEF github, Early, locals
  <2>2. on[c][2] = 0 /\ ~Exists(on[c])
    BY <2>1 DEF RequestedOnce
  <2>3. on'[c][2] = 0 /\ ~Exists(on[c])'
    BY <2>1, <2>2 DEF Exists
  <2>4. c \in InProgress
    BY <2>1, UnderWay DEF Early, Resting
  <2> QED
    BY <2>1, <2>3, <2>4, QuietRequest
<1>5. CASE CreateJob(c)
  <2>1. /\ Sound' /\ Only(c) /\ pc[c] = "createJob" /\ pc'[c] = "dispatching" /\ UNCHANGED <<starts, on>>
        /\ on[c] \in JobIds /\ (~Exists(on[c]) => Writes(on[c], "QUEUED"))
    BY <1>5, CreateJobStep DEF github
  <2>2. on[c][2] = 0 /\ ~Exists(on[c])
    BY <2>1 DEF RequestedOnce, Early
  <2>3. starts[on[c]] = 0
    BY <2>1, <2>2 DEF StartedOnce
  <2>4. RequestedOnce(c)'
    BY <2>1, <2>2, <2>3 DEF RequestedOnce, Early
  <2>5. \A j \in JobIds : StartedOnce(j)'
    BY <2>1, <2>2, <2>3 DEF StartedOnce, Writes, Exists
  <2>6. c \in InProgress
    BY <2>1, UnderWay DEF Resting
  <2>7. OneRequest' /\ (\A d \in Calls \ {c} : RequestedOnce(d)') /\ \A p \in Passes : ResumedOnly(p)'
    BY <2>1, <2>6, RequestAlone
  <2> QED
    BY <2>1, <2>4, <2>5, <2>7
<1>6. CASE BlockJob(c)
  <2>1. PICK status \in {"BLOCKED"} : /\ Sound' /\ Only(c) /\ UNCHANGED starts /\ pc[c] \notin Resting
          /\ Exists(on[c]) /\ on[c] \in JobIds /\ Writes(on[c], status) /\ pc'[c] = "failRun"
    BY <1>6, BlockJobStep DEF github, Resting
  <2> QED
    BY <2>1, WritingRequest DEF Early
<1>7. CASE CancelJob(c)
  <2>1. PICK status \in {"CANCELLED"} : /\ Sound' /\ Only(c) /\ UNCHANGED starts /\ pc[c] \notin Resting
          /\ Exists(on[c]) /\ on[c] \in JobIds /\ Writes(on[c], status) /\ pc'[c] = "cancelRun"
    BY <1>7, CancelJobStep DEF github, Resting
  <2> QED
    BY <2>1, WritingRequest DEF Early
<1>8. CASE FailRun(c) \/ CancelRun(c)
  <2>1. pc[c] \notin Resting
    BY <1>8 DEF FailRun, CancelRun, At, Resting
  <2> QED
    BY <1>8, <2>1, UnderWay, FailRunStep, QuietRequest DEF github, Early
<1> QED
  BY <1>1, <1>2, <1>3, <1>4, <1>5, <1>6, <1>7, <1>8 DEF Serve

\* So does a dispatch, whoever makes it.
LEMMA DispatchingReplay ==
  ASSUME ReplayInv, NEW a \in Actors, Dispatching(a)
  PROVE  ReplayInv'
<1> USE DEF ReplayInv
<1>1. CASE a \in Calls /\ (WriteDispatching(a) \/ WriteDispatched(a))
  <2>1. PICK status \in {"DISPATCHING", "DISPATCHED"} :
          /\ Sound' /\ Only(a) /\ UNCHANGED starts /\ pc[a] \notin Resting
          /\ Exists(on[a]) /\ on[a] \in JobIds /\ Writes(on[a], status) /\ on'[a] = on[a]
          /\ \/ pc[a] = "dispatching" /\ pc'[a] = "dispatch"
             \/ pc'[a] \in {"scan", "done", "blockJob"}
    BY <1>1, WriteDispatchingStep, WriteDispatchedStep DEF github, Resting, locals
  <2> QED
    BY <1>1, <2>1, WritingRequest DEF Early
<1>2. CASE a \in Calls /\ Dispatch(a)
  <2>1. /\ Sound' /\ Only(a) /\ pc[a] = "dispatch" /\ on[a] \in JobIds
        /\ pc'[a] \in {"dispatched", "blockJob"} /\ (Accepted(on[a]) \/ UNCHANGED github)
        /\ UNCHANGED <<jobs, on>>
    BY <1>2, DispatchStep DEF locals
  <2>2. on[a][2] = 0 /\ starts[on[a]] = 0 /\ Exists(on[a])
    BY <1>2, <2>1 DEF RequestedOnce, Sound, Knows, Resting, Early
  <2>3. starts'[on[a]] \in {0, 1} /\ \A j \in JobIds \ {on[a]} : starts'[j] = starts[j]
    <3>1. CASE Accepted(on[a])
      BY <2>1, <2>2, <3>1 DEF Accepted, Sound, TypeOK
    <3>2. CASE UNCHANGED github
      BY <2>2, <3>2 DEF github
    <3> QED
      BY <2>1, <3>1, <3>2
  <2>4. \A j \in JobIds : StartedOnce(j)'
    BY <2>1, <2>2, <2>3 DEF StartedOnce, Exists
  <2>5. RequestedOnce(a)'
    BY <2>1 DEF RequestedOnce, Early
  <2>6. a \in InProgress
    BY <1>2, <2>1, UnderWay DEF Resting
  <2>7. OneRequest' /\ (\A d \in Calls \ {a} : RequestedOnce(d)') /\ \A p \in Passes : ResumedOnly(p)'
    BY <1>2, <2>1, <2>6, RequestAlone
  <2> QED
    BY <2>1, <2>4, <2>5, <2>7
<1>3. CASE a \in Passes /\ (WriteDispatching(a) \/ WriteDispatched(a))
  <2>1. PICK status \in {"DISPATCHING", "DISPATCHED"} :
          /\ Sound' /\ Only(a) /\ UNCHANGED starts
          /\ Exists(on[a]) /\ on[a] \in JobIds /\ Writes(on[a], status) /\ on'[a] = on[a]
          /\ \/ pc[a] = "dispatching" /\ pc'[a] = "dispatch"
             \/ pc'[a] = "scan"
    BY <1>3, WriteDispatchingStep, WriteDispatchedStep DEF github, locals
  <2>2. Grows /\ \A j \in JobIds : starts'[j] = starts[j] /\ (Exists(j)' => Exists(j))
    BY <2>1, WritesGrows DEF Writes, Exists
  <2>3. ResumedOnly(a)'
    BY <1>3, <2>1 DEF ResumedOnly
  <2> QED
    BY <1>3, <2>1, <2>2, <2>3, PassBesideRequests
<1>4. CASE a \in Passes /\ Dispatch(a)
  <2>1. /\ Sound' /\ Only(a) /\ pc[a] = "dispatch" /\ on[a] \in JobIds
        /\ pc'[a] \in {"dispatched", "defer"} /\ (Accepted(on[a]) \/ UNCHANGED github)
        /\ UNCHANGED <<jobs, on>>
    BY <1>4, DispatchStep, Bounds DEF locals
  <2>2. on[a][2] > 0
    BY <1>4, <2>1 DEF ResumedOnly
  <2>3. \A j \in JobIds \ {on[a]} : starts'[j] = starts[j]
    BY <2>1 DEF Accepted, Sound, TypeOK, github
  <2>4. Grows /\ \A j \in JobIds : j[2] = 0 => starts'[j] = starts[j] /\ (Exists(j)' => Exists(j))
    BY <2>1, <2>2, <2>3 DEF Grows, Exists
  <2>5. ResumedOnly(a)'
    BY <2>1 DEF ResumedOnly
  <2> QED
    BY <1>4, <2>1, <2>4, <2>5, PassBesideRequests
<1> QED
  BY <1>1, <1>2, <1>3, <1>4, Bounds DEF Dispatching

\* So do GitHub, a runner and the clock.
LEMMA RunnerReplay ==
  ASSUME ReplayInv, NEW j \in JobIds,
         \/ Runner(j) \/ ClaimTooEarly(j) \/ StepFails(j) \/ RunnerLost(j) \/ PersonStops(j) \/ BackoffEnds(j)
  PROVE  ReplayInv'
<1>1. /\ Sound' /\ UNCHANGED <<starts, pc, on>>
      /\ \A k \in JobIds : Exists(k)' <=> Exists(k)
  <2>1. CASE Claim(j)
    <3>1. Sound' /\ Claimable(j) /\ Writes(j, "CLAIMED") /\ UNCHANGED <<starts, pc, on>>
      BY <2>1, ClaimStep DEF ReplayInv, locals
    <3>2. Exists(j)
      BY <3>1 DEF Claimable, Exists
    <3> QED
      BY <3>1, <3>2 DEF Writes, Exists
  <2>2. CASE Stamp(j) \/ Publish(j) \/ CloseJob(j) \/ FailJob(j)
    <3>1. PICK status \in {"RUNNING", "SUCCEEDED", "FAILED", "BLOCKED"} :
             Sound' /\ Writes(j, status) /\ runner[j] \in Alive /\ UNCHANGED <<starts, pc, on>>
      BY <2>2, RunnerWritingStep DEF ReplayInv, github, locals
    <3>2. Exists(j)
      BY <3>1 DEF ReplayInv, Sound
    <3> QED
      BY <3>1, <3>2 DEF Writes, Exists
  <2>3. CASE BackoffEnds(j)
    BY <2>3, BackoffEndsStep DEF ReplayInv, github, locals, Exists
  <2>4. CASE \/ ClaimRefused(j) \/ ClaimTooEarly(j) \/ GateAccepts(j) \/ GateRefuses(j)
             \/ CloseRun(j) \/ FailOpenRun(j) \/ StepFails(j) \/ RunnerLost(j) \/ PersonStops(j)
    BY <2>4, RunEndsStep DEF ReplayInv, locals, Exists
  <2> QED
    BY <2>1, <2>2, <2>3, <2>4 DEF Runner
<1>2. Grows
  BY <1>1 DEF Grows
<1>3. \A p \in Passes : ResumedOnly(p)'
  BY <1>1 DEF ReplayInv, ResumedOnly
<1> QED
  BY <1>1, <1>2, <1>3, BesideRequests

\* So does a pass.
LEMMA PassReplay ==
  ASSUME ReplayInv, NEW p \in Passes, Pass(p) \/ PassDies(p)
  PROVE  ReplayInv'
<1> USE DEF ReplayInv
<1>1. CASE ListActive(p) \/ EndPass(p) \/ LetBe(p) \/ ParkRun(p) \/ ParkTask(p) \/ PassDies(p)
  <2>1. Sound' /\ Only(p) /\ UNCHANGED <<jobs, starts>> /\ pc'[p] \in {"idle", "scan", "parkTask"}
    BY <1>1, ListActiveStep, PassGoesOn DEF github
  <2> QED
    BY <2>1, PassBesideRequests DEF Grows, Exists, ResumedOnly
<1>2. CASE ReadJob(p)
  <2>1. /\ Sound' /\ Only(p) /\ UNCHANGED <<jobs, starts>>
        /\ pc'[p] \in {"scan", "judge"} \/ (pc'[p] = "dispatching" /\ QueuedResume(on'[p]))
    BY <1>2, ReadJobStep DEF github
  <2> QED
    BY <2>1, PassBesideRequests DEF Grows, Exists, ResumedOnly, QueuedResume
<1>3. CASE Terminalize(p) \/ DeferDispatch(p)
  <2>1. PICK status \in {"CANCELLED", "STALLED", "QUEUED"} :
          /\ Sound' /\ Only(p) /\ UNCHANGED starts /\ Exists(on[p]) /\ on[p] \in JobIds
          /\ Writes(on[p], status) /\ pc'[p] \in {"parkRun", "resume", "scan"}
    BY <1>3, TerminalizeStep, DeferDispatchStep DEF github
  <2>2. Grows /\ \A j \in JobIds : starts'[j] = starts[j] /\ (Exists(j)' => Exists(j))
    BY <2>1, WritesGrows DEF Writes, Exists
  <2> QED
    BY <2>1, <2>2, PassBesideRequests DEF ResumedOnly
<1>4. CASE Resume(p)
  <2>1. /\ Sound' /\ Only(p) /\ UNCHANGED starts /\ on'[p] \in JobIds
        /\ on'[p][2] = on[p][2] + 1 /\ on[p][2] \in Nat
        /\ ~Exists(on'[p]) => Writes(on'[p], "QUEUED")
        /\ Exists(on'[p]) => UNCHANGED jobs
    BY <1>4, ResumeStep DEF github
  <2>2. on'[p][2] > 0
    BY <2>1
  <2>3. Grows /\ \A j \in JobIds : j[2] = 0 => starts'[j] = starts[j] /\ (Exists(j)' => Exists(j))
    BY <2>1, <2>2 DEF Writes, Grows, Exists
  <2> QED
    BY <2>1, <2>2, <2>3, PassBesideRequests DEF ResumedOnly
<1> QED
  BY <1>1, <1>2, <1>3, <1>4 DEF Pass

\* Every step keeps ReplayInv, one request being served at a time.
LEMMA NextReplay == Singly /\ ReplayInv /\ [Next]_vars => ReplayInv'
<1> SUFFICES ASSUME Singly, ReplayInv, [Next]_vars PROVE ReplayInv'
  OBVIOUS
<1>1. CASE UNCHANGED vars
  <2>1. UNCHANGED <<jobs, starts, pc, on>> /\ Sound'
    BY <1>1, NextSound DEF vars, github, locals, ReplayInv
  <2> QED
    BY <2>1 DEF ReplayInv, OneRequest, InProgress, RequestedOnce, ResumedOnly, StartedOnce, Exists
<1> QED
  BY <1>1, RequestReplay, DispatchingReplay, RunnerReplay, PassReplay DEF Next

\* Repeating an operationId never starts a second workflow run of the
\* operation: with one request at a time, and whatever dies, is lost, is
\* cancelled or overlaps with any number of passes, GitHub accepts at most
\* one dispatch of the job as it was requested.
THEOREM ReplaysStartNothing == Singly => (Spec => []ReplayIsStatusOnly)
<1> SUFFICES ASSUME Singly PROVE Spec => []ReplayIsStatusOnly
  OBVIOUS
<1>1. ReplayInv /\ [Next]_vars => ReplayInv'
  BY NextReplay
<1>2. ReplayInv => ReplayIsStatusOnly
  <2> SUFFICES ASSUME ReplayInv, NEW o \in Operations PROVE starts[<<o, 0>>] <= 1
    BY DEF ReplayIsStatusOnly
  <2>1. <<o, 0>> \in JobIds /\ <<o, 0>>[2] = 0
    BY Bounds
  <2> QED
    BY <2>1 DEF ReplayInv, StartedOnce
<1> QED
  BY InitReplay, <1>1, <1>2, PTL DEF Spec
-----------------------------------------------------------------------------
\* A write that leaves the row in flight, or ends it.
LEMMA WriteStaysInFlight ==
  ASSUME NEW j \in JobIds, j \in InFlight, NEW status \in inFlightStatuses, Writes(j, status)
  PROVE  InFlight' = InFlight /\ \A k \in JobIds : (Exists(k)' <=> Exists(k)) /\ (Latest(k)' <=> Latest(k))
<1>1. \A k \in JobIds : (k \in InFlight' <=> k \in InFlight) /\ (Exists(k)' <=> Exists(k))
  BY StatusesTyped DEF InFlight, Writes, Exists
<1>2. \A k \in JobIds : Latest(k)' <=> Latest(k)
  BY <1>1 DEF Latest
<1> QED
  BY <1>1, <1>2 DEF InFlight

\* A write that ends the job takes it out of flight.
LEMMA WriteEnds ==
  ASSUME NEW j \in JobIds, Exists(j), NEW status, status \notin inFlightStatuses, status # "NONE", Writes(j, status)
  PROVE  InFlight' = InFlight \ {j} /\ \A k \in JobIds : (Exists(k)' <=> Exists(k)) /\ (Latest(k)' <=> Latest(k))
<1>1. \A k \in JobIds : (k \in InFlight' <=> k \in InFlight /\ k # j) /\ (Exists(k)' <=> Exists(k))
  BY StatusesTyped DEF InFlight, Writes, Exists
<1>2. \A k \in JobIds : Latest(k)' <=> Latest(k)
  BY <1>1 DEF Latest
<1> QED
  BY <1>1, <1>2 DEF InFlight

\* While no status changes, nothing enters or leaves flight.
LEMMA SameRows ==
  ASSUME \A k \in JobIds : jobs'[k].status = jobs[k].status
  PROVE  InFlight' = InFlight /\ \A k \in JobIds : (Exists(k)' <=> Exists(k)) /\ (Latest(k)' <=> Latest(k))
<1>1. \A k \in JobIds : (k \in InFlight' <=> k \in InFlight) /\ (Exists(k)' <=> Exists(k))
  BY DEF InFlight, Exists
<1>2. \A k \in JobIds : Latest(k)' <=> Latest(k)
  BY <1>1 DEF Latest
<1> QED
  BY <1>1, <1>2 DEF InFlight

\* What SerialInv says of one request, pass and job.
LEMMA SerialFacts ==
  ASSUME SerialInv
  PROVE  /\ Sound /\ TypeOK
         /\ \A c \in Calls : RequestOwnsJob(c) /\ c \in Actors
         /\ \A p \in Passes : PassKnowsJob(p) /\ p \in Actors
         /\ \A j \in JobIds : JobInOrder(j)
         /\ \A a \in Actors : pc[a] \notin Resting => on[a] \in JobIds
  BY Bounds DEF SerialInv, Sound, Knows

\* Rows, pending runs and writing runners are as they were, or pending runs and
\* writing runners went away.
LEMMA JobsStayInOrder ==
  ASSUME SerialInv,
         InFlight' \subseteq InFlight,
         \A k \in JobIds : (Exists(k)' <=> Exists(k)) /\ (Latest(k)' <=> Latest(k)),
         \A k \in JobIds : pending'[k] => pending[k] \/ Exists(k),
         \A k \in JobIds : runner'[k] \in WritingRunner => jobs'[k].status \in {"CLAIMED", "RUNNING"}
  PROVE  \A j \in JobIds : JobInOrder(j)'
<1> SUFFICES ASSUME NEW j \in JobIds PROVE JobInOrder(j)'
  OBVIOUS
<1>1. JobInOrder(j) /\ <<j[1], 0>> \in JobIds
  BY Bounds DEF SerialInv
<1>2. Exists(j)' => Exists(<<j[1], 0>>)'
  BY <1>1 DEF JobInOrder
<1>3. pending'[j] => Exists(j)'
  BY <1>1 DEF JobInOrder
<1>4. j \in InFlight' => InFlight' = {j} /\ Latest(j)'
  BY <1>1 DEF JobInOrder
<1> QED
  BY <1>2, <1>3, <1>4 DEF JobInOrder, Status

InDispatch == {"dispatching", "dispatch", "dispatched", "blockJob"}
InPassDispatch == {"dispatching", "dispatch", "dispatched", "defer"}

\* Requests that do not move, while the row of their job does not either.
LEMMA RequestsKept ==
  ASSUME SerialInv, NEW c \in Calls,
         pc'[c] = pc[c], on'[c] = on[c], held'[c] = held[c], own'[c] = own[c],
         pc[c] \in Early => /\ InFlight' = {} /\ jobs'[on[c]].status = "NONE"
                            /\ \A p \in Passes : pc'[p] = "idle",
         pc[c] \in InDispatch => jobs'[on[c]] = jobs[on[c]],
         pc[c] = "dispatching" => ~pending'[on[c]]
  PROVE  RequestOwnsJob(c)'
<1>1. RequestOwnsJob(c)
  BY DEF SerialInv
<1>2. CASE pc[c] \in Early
  BY <1>1, <1>2 DEF RequestOwnsJob, Early, Exists
<1>3. CASE pc[c] \in InDispatch
  BY <1>1, <1>3 DEF RequestOwnsJob, InDispatch, Early, Status
<1>4. CASE pc[c] \notin Early \cup InDispatch
  BY <1>1, <1>4 DEF RequestOwnsJob, InDispatch, Early
<1> QED
  BY <1>2, <1>3, <1>4

\* Passes that do not move, while what they know of their job stays true.
LEMMA PassesKept ==
  ASSUME SerialInv, NEW p \in Passes,
         pc'[p] = pc[p], on'[p] = on[p], held'[p] = held[p],
         InFlight' \subseteq InFlight,
         \A k \in JobIds : Latest(k)' <=> Latest(k),
         pc[p] = "judge" => /\ jobs'[on[p]].status \in inFlightStatuses \cup {"BLOCKED"}
                            /\ jobs[on[p]].stamped => jobs'[on[p]].stamped,
         pc[p] \in InPassDispatch => jobs'[on[p]].status = jobs[on[p]].status
  PROVE  PassKnowsJob(p)'
<1>1. PassKnowsJob(p) /\ (pc[p] \notin Resting => on[p] \in JobIds)
  BY SerialFacts
<1>2. CASE pc[p] = "judge"
  <2>1. InFlight' \subseteq {on[p]} /\ Latest(on[p])
    BY <1>1, <1>2 DEF PassKnowsJob
  <2>2. \A k \in JobIds : k = on[p] => Latest(k)'
    BY <2>1
  <2>3. Latest(on[p])'
    BY <1>1, <1>2, <2>2 DEF Resting, Latest
  <2>4. held'[p].stamped => jobs'[on'[p]].stamped
    BY <1>1, <1>2 DEF PassKnowsJob
  <2> QED
    BY <1>2, <2>1, <2>3, <2>4 DEF PassKnowsJob, Status
<1>3. CASE pc[p] = "resume"
  <2>1. InFlight' = {} /\ Latest(on[p])
    BY <1>1, <1>3 DEF PassKnowsJob
  <2>2. \A k \in JobIds : k = on[p] => Latest(k)'
    BY <2>1
  <2>3. Latest(on[p])'
    BY <1>1, <1>3, <2>2 DEF Resting, Latest
  <2> QED
    BY <1>3, <2>1, <2>3 DEF PassKnowsJob
<1>4. CASE pc[p] \in InPassDispatch
  BY <1>1, <1>4 DEF PassKnowsJob, InPassDispatch, Status
<1>5. CASE pc[p] \notin {"judge", "resume"} \cup InPassDispatch
  BY <1>5 DEF PassKnowsJob, InPassDispatch
<1> QED
  BY <1>2, <1>3, <1>4, <1>5

\* The callback of a job that has succeeded stays.
Final == \A j \in JobIds : jobs[j].status = "SUCCEEDED" => jobs'[j].status = "SUCCEEDED"

\* A request that makes or writes no row.
LEMMA RequestMoves ==
  ASSUME SerialInv, Sound', NEW c \in Calls, Only(c), InProgress = {} \/ c \in InProgress,
         UNCHANGED <<jobs, runner>>, \A d \in Calls \ {c} : own'[d] = own[d],
         \A k \in JobIds : pending'[k] => pending[k] \/ Exists(k),
         RequestOwnsJob(c)'
  PROVE  SerialInv' /\ Final
<1>1. OneRequest'
  BY OneRequestKept DEF SerialInv, Only
<1>2. ASSUME NEW d \in Calls \ {c} PROVE RequestOwnsJob(d)'
  <2>1. pc[d] \in Resting /\ pc'[d] = pc[d]
    BY UnderWay, Bounds DEF Only, SerialInv, OneRequest
  <2> QED
    BY <2>1 DEF RequestOwnsJob, Resting, Early
<1>3. InFlight' = InFlight /\ \A k \in JobIds : (Exists(k)' <=> Exists(k)) /\ (Latest(k)' <=> Latest(k))
  BY SameRows
<1>4. ASSUME NEW p \in Passes PROVE PassKnowsJob(p)'
  <2>1. pc'[p] = pc[p] /\ on'[p] = on[p] /\ held'[p] = held[p]
    BY Bounds DEF Only
  <2>2. pc[p] = "judge" => Status(on[p]) \in inFlightStatuses \cup {"BLOCKED"}
    BY SerialFacts DEF PassKnowsJob
  <2> QED
    BY <1>3, <2>1, <2>2, PassesKept DEF Status
<1>5. \A k \in JobIds : runner'[k] \in WritingRunner => jobs'[k].status \in {"CLAIMED", "RUNNING"}
  BY SerialFacts DEF JobInOrder, Status
<1>6. \A j \in JobIds : JobInOrder(j)'
  BY <1>3, <1>5, JobsStayInOrder
<1> QED
  BY <1>1, <1>2, <1>4, <1>6 DEF SerialInv, Final

\* A request that writes the row of its job, which it is dispatching.
LEMMA RequestWrites ==
  ASSUME SerialInv, Sound', NEW c \in Calls, Only(c), pc[c] \in InDispatch, on'[c] = on[c],
         UNCHANGED <<pending, runner, own>>,
         NEW status \in inFlightStatuses \cup {"BLOCKED"}, Writes(on[c], status),
         RequestOwnsJob(c)'
  PROVE  SerialInv' /\ Final
<1>1. c \in InProgress /\ on[c] \in JobIds
  BY SerialFacts, UnderWay DEF InDispatch, Resting
<1>2. Status(on[c]) \in {"QUEUED", "DISPATCHING"} /\ ~jobs[on[c]].stamped /\ on[c][2] = 0
  BY SerialFacts DEF RequestOwnsJob, InDispatch
<1>3. on[c] \in InFlight /\ Exists(on[c])
  BY <1>1, <1>2 DEF InFlight, inFlightStatuses, Status, Exists
<1>4. InFlight' \subseteq InFlight /\ \A k \in JobIds : (Exists(k)' <=> Exists(k)) /\ (Latest(k)' <=> Latest(k))
  <2>1. CASE status \in inFlightStatuses
    BY <1>1, <1>3, <2>1, WriteStaysInFlight
  <2>2. CASE status = "BLOCKED"
    BY <1>1, <1>3, <2>2, WriteEnds DEF inFlightStatuses
  <2> QED
    BY <2>1, <2>2
<1>5. OneRequest'
  BY <1>1, OneRequestKept DEF SerialInv, Only
<1>6. ASSUME NEW d \in Calls \ {c} PROVE RequestOwnsJob(d)'
  <2>1. pc[d] \in Resting /\ pc'[d] = pc[d]
    BY <1>1, UnderWay, Bounds DEF Only, SerialInv, OneRequest
  <2> QED
    BY <2>1 DEF RequestOwnsJob, Resting, Early
<1>7. ASSUME NEW p \in Passes PROVE PassKnowsJob(p)'
  <2>1. pc'[p] = pc[p] /\ on'[p] = on[p] /\ held'[p] = held[p]
    BY Bounds DEF Only
  <2>2. PassKnowsJob(p) /\ (pc[p] \notin Resting => on[p] \in JobIds)
    BY SerialFacts
  <2>3. pc[p] = "judge" => /\ jobs'[on[p]].status \in inFlightStatuses \cup {"BLOCKED"}
                           /\ jobs[on[p]].stamped => jobs'[on[p]].stamped
    BY <1>2, <2>2 DEF PassKnowsJob, Status, Writes, Resting
  <2>4. pc[p] \in InPassDispatch => jobs'[on[p]].status = jobs[on[p]].status
    BY <1>2, <2>2 DEF PassKnowsJob, InPassDispatch, Writes, Resting
  <2> QED
    BY <1>4, <2>1, <2>3, <2>4, PassesKept
<1>8. \A k \in JobIds : runner'[k] \in WritingRunner => jobs'[k].status \in {"CLAIMED", "RUNNING"}
  BY <1>2, SerialFacts DEF JobInOrder, Status, Writes
<1>9. \A j \in JobIds : JobInOrder(j)'
  BY <1>4, <1>8, JobsStayInOrder
<1>10. Final
  BY <1>2 DEF Final, Writes, Status
<1> QED
  BY <1>5, <1>6, <1>7, <1>9, <1>10 DEF SerialInv

\* A request is let in while nothing is in flight and no pass is under way.
LEMMA EnqueueSerial ==
  ASSUME Serially, SerialInv, NEW c \in Calls, Enqueue(c)
  PROVE  SerialInv' /\ Final
<1>1. /\ Sound' /\ Only(c) /\ pc'[c] \in Early /\ UNCHANGED <<jobs, pending, runner, own>>
  BY EnqueueStep, SerialFacts DEF Enqueue, github
<1>2. PICK o \in Operations : NewOperation(o) /\ on' = [on EXCEPT ![c] = <<o, 0>>]
  BY DEF Enqueue
<1>3. on'[c] = <<o, 0>> /\ <<o, 0>> \in JobIds
  BY <1>2, SerialFacts, Bounds DEF TypeOK
<1>4. on'[c][2] = 0 /\ ~Exists(on[c])'
  BY <1>1, <1>2, <1>3 DEF NewOperation, Exists
<1>5. InProgress = {} /\ (\A p \in Passes : pc[p] = "idle") /\ InFlight = {}
  BY LetInAlone DEF Serially, Enqueue, Admitted, NoJobInFlight
<1>6. InFlight' = {} /\ \A p \in Passes : pc'[p] = "idle"
  BY <1>1, <1>5, Bounds DEF InFlight, Only
<1>7. RequestOwnsJob(c)'
  BY <1>1, <1>4, <1>6 DEF RequestOwnsJob, Early
<1> QED
  BY <1>1, <1>5, <1>7, RequestMoves

\* Its job is the only one in flight, and the first of its operation.
LEMMA CreateJobSerial ==
  ASSUME SerialInv, NEW c \in Calls, CreateJob(c)
  PROVE  SerialInv' /\ Final
<1>1. /\ Sound' /\ Only(c) /\ pc[c] = "createJob" /\ pc'[c] = "dispatching"
      /\ UNCHANGED <<pending, runner, on>> /\ on[c] \in JobIds
      /\ ~Exists(on[c]) => /\ Writes(on[c], "QUEUED") /\ ~jobs'[on[c]].stamped
                           /\ ~held'[c].stamped /\ own'[c].job
  BY CreateJobStep, SerialFacts DEF github
<1>2. InFlight = {} /\ on[c][2] = 0 /\ ~Exists(on[c]) /\ \A p \in Passes : pc[p] = "idle"
  BY <1>1, SerialFacts DEF RequestOwnsJob, Early
<1>3. Writes(on[c], "QUEUED") /\ ~jobs'[on[c]].stamped /\ ~held'[c].stamped /\ own'[c].job
  BY <1>1, <1>2
<1>4. c \in InProgress
  BY <1>1, UnderWay DEF Resting
<1>5. OneRequest'
  BY <1>1, <1>4, OneRequestKept DEF SerialInv, Only
<1>6. ASSUME NEW d \in Calls \ {c} PROVE RequestOwnsJob(d)'
  <2>1. pc[d] \in Resting /\ pc'[d] = pc[d]
    BY <1>1, <1>4, UnderWay, Bounds DEF Only, SerialInv, OneRequest
  <2> QED
    BY <2>1 DEF RequestOwnsJob, Resting, Early
<1>7. RequestOwnsJob(c)'
  <2>1. ~pending[on[c]]
    BY <1>1, <1>2, SerialFacts DEF JobInOrder
  <2> QED
    BY <1>1, <1>2, <1>3, <2>1 DEF RequestOwnsJob, Early, Status, Writes
<1>8. ASSUME NEW p \in Passes PROVE PassKnowsJob(p)'
  BY <1>1, <1>2, Bounds DEF PassKnowsJob, Only
<1>9. \A k \in JobIds : k[1] = on[c][1] => k = on[c] \/ (~Exists(k) /\ jobs'[k] = jobs[k])
  BY <1>1, <1>2, <1>3, SerialFacts, Bounds DEF JobInOrder, Writes
<1>10. ASSUME NEW j \in JobIds PROVE JobInOrder(j)'
  <2>1. JobInOrder(j) /\ <<j[1], 0>> \in JobIds
    BY SerialFacts, Bounds
  <2>2. jobs'[on[c]].status = "QUEUED" /\ \A k \in JobIds \ {on[c]} : jobs'[k] = jobs[k]
    BY <1>3 DEF Writes
  <2>3. \A k \in JobIds : (jobs'[k].status # "NONE") <=> Exists(k) \/ k = on[c]
    BY <2>2 DEF Exists
  <2>4. \A k \in JobIds : Exists(k)' <=> Exists(k) \/ k = on[c]
    BY <2>3 DEF Exists
  <2>5. Exists(j)' => Exists(<<j[1], 0>>)'
    <3>1. on[c] = <<on[c][1], 0>>
      BY <1>1, <1>2, Bounds
    <3> QED
      BY <2>1, <2>4, <3>1 DEF JobInOrder
  <2>6. pending'[j] => Exists(j)'
    BY <1>1, <2>1, <2>4 DEF JobInOrder
  <2>7. runner'[j] \in WritingRunner => jobs'[j].status \in {"CLAIMED", "RUNNING"}
    BY <1>1, <1>2, <2>1, <2>2 DEF JobInOrder, Status, Exists
  <2>8. InFlight' = {on[c]}
    BY <1>1, <1>2, <2>2 DEF InFlight, inFlightStatuses
  <2>9. j \in InFlight' => InFlight' = {j} /\ Latest(j)'
    BY <1>1, <1>2, <1>9, <2>4, <2>8 DEF Latest
  <2> QED
    BY <2>5, <2>6, <2>7, <2>9 DEF JobInOrder, Status
<1>11. Final
  BY <1>2, <1>3 DEF Final, Writes, Exists
<1> QED
  BY <1>1, <1>5, <1>6, <1>7, <1>8, <1>10, <1>11 DEF SerialInv

\* A request keeps the order.
LEMMA RequestSerial ==
  ASSUME Serially, SerialInv, NEW c \in Calls, Enqueue(c) \/ Cancel(c) \/ Serve(c) \/ RequestDies(c)
  PROVE  SerialInv' /\ Final
<1> USE SerialFacts
<1>1. CASE Enqueue(c)
  BY <1>1, EnqueueSerial
<1>2. CASE Cancel(c)
  BY <1>2 DEF Cancel, Serially
<1>3. CASE RequestDies(c)
  <2>1. /\ Sound' /\ Only(c) /\ pc'[c] = "dead" /\ UNCHANGED <<jobs, pending, runner, own>> /\ c \in InProgress
    BY <1>3, RequestDiesStep DEF github, locals, RequestDies
  <2> QED
    BY <2>1, RequestMoves DEF RequestOwnsJob, Early
<1>4. CASE EnterImplementing(c) \/ SaveRun(c)
  <2>1. /\ Sound' /\ Only(c) /\ pc[c] \in Early /\ pc'[c] \in Early /\ UNCHANGED <<jobs, pending, runner, on>>
        /\ \A d \in Calls \ {c} : own'[d] = own[d]
    <3>1. /\ Sound' /\ Only(c) /\ pc[c] \in Early /\ pc'[c] \in Early /\ UNCHANGED <<jobs, pending, runner, on>>
      BY <1>4, EnterImplementingStep, SaveRunStep DEF github, Early, locals
    <3>2. \A d \in Calls \ {c} : own'[d] = own[d]
      BY <1>4 DEF EnterImplementing, SaveRun, locals, TypeOK
    <3> QED
      BY <3>1, <3>2
  <2>2. InFlight = {} /\ on[c][2] = 0 /\ ~Exists(on[c]) /\ \A p \in Passes : pc[p] = "idle"
    BY <2>1 DEF RequestOwnsJob
  <2>3. RequestOwnsJob(c)'
    <3>1. InFlight' = {} /\ ~Exists(on[c])' /\ \A p \in Passes : pc'[p] = "idle"
      BY <2>1, <2>2, Bounds DEF InFlight, Exists, Only
    <3> QED
      BY <2>1, <2>2, <3>1 DEF RequestOwnsJob, Early
  <2>4. c \in InProgress
    BY <2>1, UnderWay DEF Early, Resting
  <2> QED
    BY <2>1, <2>3, <2>4, RequestMoves
<1>5. CASE CreateJob(c)
  BY <1>5, CreateJobSerial
<1>6. CASE BlockJob(c)
  <2>1. /\ Sound' /\ Only(c) /\ UNCHANGED <<pending, runner, own, on>> /\ pc[c] \in InDispatch
        /\ Writes(on[c], "BLOCKED") /\ pc'[c] = "failRun"
    BY <1>6, BlockJobStep DEF github, locals, InDispatch
  <2>2. RequestOwnsJob(c)'
    BY <2>1 DEF RequestOwnsJob, Early
  <2> QED
    BY <2>1, <2>2, RequestWrites
<1>7. CASE CancelJob(c)
  BY <1>7 DEF CancelJob, At, RequestOwnsJob
<1>8. CASE FailRun(c) \/ CancelRun(c)
  <2>1. pc[c] \notin Resting
    BY <1>8 DEF FailRun, CancelRun, At, Resting
  <2>2. /\ Sound' /\ Only(c) /\ pc'[c] = "done" /\ UNCHANGED <<jobs, pending, runner, own>>
    BY <1>8, FailRunStep DEF github, locals
  <2> QED
    BY <2>1, <2>2, UnderWay, RequestMoves DEF RequestOwnsJob, Early
<1> QED
  BY <1>1, <1>2, <1>3, <1>4, <1>5, <1>6, <1>7, <1>8 DEF Serve

\* So does its dispatch.
LEMMA RequestDispatchingSerial ==
  ASSUME SerialInv, NEW c \in Calls, Dispatching(c)
  PROVE  SerialInv' /\ Final
<1> USE SerialFacts
<1>1. CASE WriteDispatching(c)
  <2>1. /\ Sound' /\ Only(c) /\ UNCHANGED <<pending, runner, own, on, held>> /\ pc[c] = "dispatching"
        /\ Writes(on[c], "DISPATCHING") /\ pc'[c] = "dispatch" /\ jobs'[on[c]].stamped = held[c].stamped
    BY <1>1, WriteDispatchingStep DEF github, locals
  <2>2. RequestOwnsJob(c)'
    BY <2>1 DEF RequestOwnsJob, Early, Status, Writes
  <2> QED
    BY <2>1, <2>2, RequestWrites DEF InDispatch, inFlightStatuses
<1>2. CASE WriteDispatched(c)
  <2>1. /\ Sound' /\ Only(c) /\ UNCHANGED <<pending, runner, own, on, held>> /\ pc[c] = "dispatched"
        /\ Writes(on[c], "DISPATCHED") /\ pc'[c] = IF own[c].job THEN "done" ELSE "blockJob"
    BY <1>2, WriteDispatchedStep, Bounds DEF github, locals
  <2>2. pc'[c] = "done"
    BY <2>1 DEF RequestOwnsJob
  <2>3. RequestOwnsJob(c)'
    BY <2>2 DEF RequestOwnsJob, Early
  <2> QED
    BY <2>1, <2>3, RequestWrites DEF InDispatch, inFlightStatuses
<1>3. CASE Dispatch(c)
  <2>1. /\ Sound' /\ Only(c) /\ UNCHANGED <<jobs, runner, own, on, held>> /\ pc[c] = "dispatch"
        /\ on[c] \in JobIds /\ pc'[c] \in {"dispatched", "blockJob"}
        /\ Accepted(on[c]) \/ UNCHANGED github
    BY <1>3, DispatchStep DEF locals
  <2>2. Status(on[c]) = "DISPATCHING" /\ Exists(on[c])
    BY <2>1 DEF RequestOwnsJob, Status, Exists
  <2>3. \A k \in JobIds : pending'[k] => pending[k] \/ Exists(k)
    BY <2>1, <2>2 DEF Accepted, github, TypeOK
  <2>4. RequestOwnsJob(c)'
    BY <2>1 DEF RequestOwnsJob, Early, Status
  <2>5. c \in InProgress
    BY <2>1, UnderWay DEF Resting
  <2> QED
    BY <2>1, <2>3, <2>4, <2>5, RequestMoves
<1> QED
  BY <1>1, <1>2, <1>3 DEF Dispatching

-----------------------------------------------------------------------------
\* GitHub, a runner or the clock moves.
LEMMA RunnerSerial ==
  ASSUME Serially, SerialInv, NEW j \in JobIds,
         \/ Runner(j) \/ ClaimTooEarly(j) \/ StepFails(j) \/ RunnerLost(j) \/ PersonStops(j) \/ BackoffEnds(j)
  PROVE  SerialInv' /\ Final
<1> USE SerialFacts
<1>1. CASE UNCHANGED <<pc, on, held, own>> /\ Sound'
           /\ (\A k \in JobIds : jobs'[k].status = jobs[k].status /\ jobs'[k].stamped = jobs[k].stamped)
           /\ (\A k \in JobIds : pending'[k] => pending[k])
           /\ (\A k \in JobIds : runner'[k] \in WritingRunner => runner[k] \in WritingRunner)
  <2>1. InFlight' = InFlight /\ \A k \in JobIds : (Exists(k)' <=> Exists(k)) /\ (Latest(k)' <=> Latest(k))
    BY <1>1, SameRows
  <2>2. \A k \in JobIds : runner'[k] \in WritingRunner => jobs'[k].status \in {"CLAIMED", "RUNNING"}
    BY <1>1 DEF JobInOrder, Status
  <2>3. \A k \in JobIds : JobInOrder(k)'
    BY <1>1, <2>1, <2>2, JobsStayInOrder
  <2>4. ASSUME NEW c \in Calls PROVE RequestOwnsJob(c)'
    BY <1>1, <2>1, Bounds DEF RequestOwnsJob, Status, Exists, Resting, Early
  <2>5. ASSUME NEW p \in Passes PROVE PassKnowsJob(p)'
    <3>1. PassKnowsJob(p) /\ (pc[p] \notin Resting => on[p] \in JobIds)
      OBVIOUS
    <3>2. pc[p] = "judge" => /\ jobs'[on[p]].status \in inFlightStatuses \cup {"BLOCKED"}
                             /\ jobs[on[p]].stamped => jobs'[on[p]].stamped
      BY <1>1, <3>1 DEF PassKnowsJob, Status, Resting
    <3>3. pc[p] \in InPassDispatch => jobs'[on[p]].status = jobs[on[p]].status
      BY <1>1, <3>1 DEF InPassDispatch, Resting
    <3> QED
      BY <1>1, <2>1, <3>2, <3>3, PassesKept
  <2>6. OneRequest'
    BY <1>1 DEF SerialInv, OneRequest, InProgress
  <2> QED
    BY <1>1, <2>3, <2>4, <2>5, <2>6 DEF SerialInv, Final
<1>2. CASE \/ ClaimRefused(j) \/ ClaimTooEarly(j) \/ GateAccepts(j) \/ GateRefuses(j)
           \/ CloseRun(j) \/ FailOpenRun(j) \/ StepFails(j) \/ RunnerLost(j) \/ PersonStops(j)
  BY <1>1, <1>2, RunEndsStep, RunnerLabelsAre DEF locals, WritingRunner
<1>3. CASE BackoffEnds(j)
  BY <1>1, <1>3, BackoffEndsStep DEF locals, github
<1>4. ASSUME NEW status \in {"CLAIMED", "RUNNING", "SUCCEEDED", "FAILED", "BLOCKED"},
             Writes(j, status), jobs[j].stamped => jobs'[j].stamped,
             Status(j) \in {"QUEUED", "DISPATCHED", "CLAIMED", "RUNNING"},
             \A c \in Calls : pc[c] \in InDispatch => on[c] # j,
             \A p \in Passes : pc[p] \in {"judge"} \cup InPassDispatch => on[p] # j,
             UNCHANGED <<pc, on, held, own>>, Sound',
             \A k \in JobIds : pending'[k] => pending[k],
             \A k \in JobIds \ {j} : runner'[k] = runner[k],
             runner'[j] \in WritingRunner => status \in {"CLAIMED", "RUNNING"}
      PROVE  SerialInv' /\ Final
  <2>1. j \in InFlight /\ Exists(j)
    BY <1>4 DEF InFlight, inFlightStatuses, Status, Exists
  <2>2. InFlight' \subseteq InFlight /\ \A k \in JobIds : (Exists(k)' <=> Exists(k)) /\ (Latest(k)' <=> Latest(k))
    <3>1. CASE status \in inFlightStatuses
      BY <1>4, <2>1, <3>1, WriteStaysInFlight
    <3>2. CASE status \notin inFlightStatuses
      BY <1>4, <2>1, <3>2, WriteEnds
    <3> QED
      BY <3>1, <3>2
  <2>3. \A k \in JobIds : runner'[k] \in WritingRunner => jobs'[k].status \in {"CLAIMED", "RUNNING"}
    BY <1>4 DEF JobInOrder, Status, Writes
  <2>4. \A k \in JobIds : JobInOrder(k)'
    BY <1>4, <2>2, <2>3, JobsStayInOrder
  <2>5. ASSUME NEW c \in Calls PROVE RequestOwnsJob(c)'
    <3>1. RequestOwnsJob(c) /\ (pc[c] \notin Resting => on[c] \in JobIds)
      BY Bounds
    <3>2. pc[c] \notin Early
      BY <2>1, <3>1 DEF RequestOwnsJob
    <3>3. pc[c] \in InDispatch => jobs'[on[c]] = jobs[on[c]]
      BY <1>4, <3>1 DEF Writes, InDispatch, Resting
    <3>4. pc[c] = "dispatching" => ~pending'[on[c]]
      BY <1>4, <3>1 DEF RequestOwnsJob, Resting
    <3> QED
      BY <1>4, <3>2, <3>3, <3>4, RequestsKept
  <2>6. ASSUME NEW p \in Passes PROVE PassKnowsJob(p)'
    <3>1. PassKnowsJob(p) /\ (pc[p] \notin Resting => on[p] \in JobIds)
      OBVIOUS
    <3>2. pc[p] \in {"judge"} \cup InPassDispatch => jobs'[on[p]] = jobs[on[p]]
      BY <1>4, <3>1 DEF Writes, InPassDispatch, Resting
    <3>3. pc[p] = "judge" => jobs'[on[p]].status \in inFlightStatuses \cup {"BLOCKED"}
      BY <3>1, <3>2 DEF PassKnowsJob, Status
    <3> QED
      BY <1>4, <2>2, <3>2, <3>3, PassesKept
  <2>7. OneRequest'
    BY <1>4 DEF SerialInv, OneRequest, InProgress
  <2>8. Final
    BY <1>4 DEF Final, Writes, Status
  <2> QED
    BY <1>4, <2>4, <2>5, <2>6, <2>7, <2>8 DEF SerialInv
<1>5. CASE Claim(j) /\ Undisturbed(j)
  <2>1. /\ Sound' /\ pending[j] /\ Claimable(j) /\ Writes(j, "CLAIMED") /\ jobs'[j].stamped = jobs[j].stamped
        /\ pending' = [pending EXCEPT ![j] = FALSE]
        /\ \A k \in JobIds \ {j} : runner'[k] = runner[k]
        /\ UNCHANGED <<pc, on, held, own>>
    BY <1>5, ClaimStep DEF locals
  <2>2. Status(j) \in {"QUEUED", "DISPATCHED", "CLAIMED"}
    BY <2>1 DEF Claimable, Status
  <2>3. \A c \in Calls : pc[c] \in InDispatch => on[c] # j
    BY <2>1, <2>2 DEF RequestOwnsJob, InDispatch
  <2>4. \A p \in Passes : pc[p] \in {"judge"} \cup InPassDispatch => on[p] # j
    BY <1>5, <2>2 DEF Undisturbed, Serially, PassKnowsJob, InPassDispatch
  <2>5. \A k \in JobIds : pending'[k] => pending[k]
    BY <2>1 DEF TypeOK
  <2> QED
    BY <1>4, <2>1, <2>2, <2>3, <2>4, <2>5
<1>6. CASE (Stamp(j) \/ Publish(j) \/ CloseJob(j) \/ FailJob(j)) /\ Undisturbed(j)
  <2>1. PICK status \in {"RUNNING", "SUCCEEDED", "FAILED", "BLOCKED"} :
          /\ Sound' /\ Writes(j, status) /\ (jobs[j].stamped => jobs'[j].stamped)
          /\ runner[j] \in WritingRunner
          /\ runner'[j] \in WritingRunner => status = "RUNNING"
          /\ \A k \in JobIds \ {j} : runner'[k] = runner[k]
          /\ UNCHANGED <<pending, pc, on, held, own>>
    BY <1>6, RunnerWritingStep DEF WritingRunner, github, locals
  <2>2. Status(j) \in {"CLAIMED", "RUNNING"}
    BY <2>1 DEF JobInOrder
  <2>3. \A c \in Calls : pc[c] \in InDispatch => on[c] # j
    BY <2>2 DEF RequestOwnsJob, InDispatch
  <2>4. \A p \in Passes : pc[p] \in {"judge"} \cup InPassDispatch => on[p] # j
    BY <1>6, <2>2 DEF Undisturbed, Serially, PassKnowsJob, InPassDispatch
  <2> QED
    BY <1>4, <2>1, <2>2, <2>3, <2>4
<1> QED
  BY <1>2, <1>3, <1>5, <1>6 DEF Runner

-----------------------------------------------------------------------------
\* The reconciler moves, which no request that is making its row can meet.
LEMMA PassMeetsNoNewRequest ==
  ASSUME SerialInv, NEW p \in Passes, pc[p] # "idle" \/ InFlight # {}
  PROVE  \A c \in Calls : pc[c] \notin Early
  BY SerialFacts DEF RequestOwnsJob

\* A pass that moves without touching a row a request is dispatching.
LEMMA PassMoves ==
  ASSUME Serially, SerialInv, Sound', NEW p \in Passes, Only(p), UNCHANGED <<own, runner>>,
         pc[p] # "idle" \/ InFlight # {},
         \A c \in Calls : /\ pc[c] \in InDispatch => jobs'[on[c]] = jobs[on[c]]
                          /\ pc[c] = "dispatching" => ~pending'[on[c]],
         PassKnowsJob(p)', \A j \in JobIds : JobInOrder(j)'
  PROVE  SerialInv'
<1>1. \A c \in Calls : pc'[c] = pc[c] /\ on'[c] = on[c] /\ held'[c] = held[c] /\ pc[c] \notin Early
  BY PassMeetsNoNewRequest, Bounds DEF Only
<1>2. \A c \in Calls : RequestOwnsJob(c)'
  BY <1>1, RequestsKept
<1>3. \A q \in Passes : PassKnowsJob(q)'
  BY DEF Serially
<1>4. OneRequest'
  BY <1>1 DEF SerialInv, OneRequest, InProgress
<1> QED
  BY <1>2, <1>3, <1>4 DEF SerialInv

\* A pass that writes no row.
LEMMA PassLooks ==
  ASSUME Serially, SerialInv, Sound', NEW p \in Passes, Only(p), UNCHANGED <<own, runner, jobs>>,
         pc[p] # "idle" \/ InFlight # {},
         \A k \in JobIds : pending'[k] => pending[k] \/ (Exists(k) /\ k[2] > 0),
         PassKnowsJob(p)'
  PROVE  SerialInv' /\ Final
<1>1. InFlight' = InFlight /\ \A k \in JobIds : (Exists(k)' <=> Exists(k)) /\ (Latest(k)' <=> Latest(k))
  BY SameRows
<1>2. \A k \in JobIds : runner'[k] \in WritingRunner => jobs'[k].status \in {"CLAIMED", "RUNNING"}
  BY SerialFacts DEF JobInOrder, Status
<1>3. \A j \in JobIds : JobInOrder(j)'
  BY <1>1, <1>2, JobsStayInOrder
<1>4. ASSUME NEW c \in Calls, pc[c] = "dispatching" PROVE ~pending'[on[c]]
  <2>1. on[c] \in JobIds /\ ~pending[on[c]] /\ on[c][2] = 0
    BY <1>4, SerialFacts DEF RequestOwnsJob, Resting
  <2> QED
    BY <2>1
<1> QED
  BY <1>3, <1>4, PassMoves DEF Final

\* A pass that writes the row of an attempt it is dispatching.
LEMMA PassWrites ==
  ASSUME Serially, SerialInv, Sound', NEW p \in Passes, Only(p), UNCHANGED <<own, runner, pending>>,
         pc[p] \in InPassDispatch, on[p] \in JobIds,
         NEW status \in inFlightStatuses, Writes(on[p], status),
         PassKnowsJob(p)'
  PROVE  SerialInv' /\ Final
<1>1. Status(on[p]) \in {"QUEUED", "DISPATCHING"} /\ on[p][2] > 0
  BY SerialFacts DEF PassKnowsJob, InPassDispatch
<1>2. on[p] \in InFlight
  BY <1>1 DEF InFlight, inFlightStatuses, Status
<1>3. InFlight' = InFlight /\ \A k \in JobIds : (Exists(k)' <=> Exists(k)) /\ (Latest(k)' <=> Latest(k))
  BY <1>2, WriteStaysInFlight
<1>4. \A k \in JobIds : runner'[k] \in WritingRunner => jobs'[k].status \in {"CLAIMED", "RUNNING"}
  BY <1>1, SerialFacts DEF JobInOrder, Status, Writes
<1>5. \A j \in JobIds : JobInOrder(j)'
  BY <1>3, <1>4, JobsStayInOrder
<1>6. ASSUME NEW c \in Calls, pc[c] \in InDispatch PROVE jobs'[on[c]] = jobs[on[c]]
  <2>1. on[c] \in JobIds /\ on[c][2] = 0
    BY <1>6, SerialFacts DEF RequestOwnsJob, InDispatch, Resting
  <2> QED
    BY <1>1, <2>1 DEF Writes
<1>7. ASSUME NEW c \in Calls, pc[c] = "dispatching" PROVE ~pending'[on[c]]
  BY <1>7, SerialFacts DEF RequestOwnsJob
<1>8. Final
  BY <1>1 DEF Final, Writes, Status
<1> QED
  BY <1>2, <1>5, <1>6, <1>7, <1>8, PassMoves

\* A pass ends a job whose runner is gone, so nobody writes the row after it.
LEMMA TerminalizeSerial ==
  ASSUME Serially, SerialInv, NEW p \in Passes, Terminalize(p)
  PROVE  SerialInv' /\ Final
<1>1. PICK status \in {"CANCELLED", "STALLED"} :
         /\ Sound' /\ Only(p) /\ pc[p] = "judge" /\ pc'[p] \in {"parkRun", "resume"} /\ on[p] \in JobIds
         /\ Exists(on[p]) /\ Writes(on[p], status)
         /\ UNCHANGED <<pending, runner, on, held, own>>
  BY TerminalizeStep, SerialFacts DEF github, locals
<1>2. /\ InFlight \subseteq {on[p]} /\ Latest(on[p]) /\ Status(on[p]) \in inFlightStatuses \cup {"BLOCKED"}
      /\ held[p].stamped => jobs[on[p]].stamped
  BY <1>1, SerialFacts DEF PassKnowsJob
<1>3. /\ runner[on[p]] \notin Alive
      /\ \A c \in Calls : pc[c] \in InDispatch => on[c] # on[p]
  <2>1. \/ held[p].stamped /\ runner[on[p]] \notin Alive
        \/ runner[on[p]] \notin Alive /\ ~BeingDispatched(on[p])
    BY DEF Terminalize, Stalled, Serially
  <2>2. \A c \in Calls : pc[c] \in InDispatch /\ on[c] = on[p] => BeingDispatched(on[p])
    BY Bounds DEF BeingDispatched, InDispatch
  <2>3. \A c \in Calls : pc[c] \in InDispatch => ~jobs[on[c]].stamped
    BY SerialFacts DEF RequestOwnsJob, InDispatch
  <2> QED
    BY <1>2, <2>1, <2>2, <2>3
<1>4. InFlight' = {} /\ \A k \in JobIds : (Exists(k)' <=> Exists(k)) /\ (Latest(k)' <=> Latest(k))
  BY <1>1, <1>2, WriteEnds DEF inFlightStatuses
<1>5. \A k \in JobIds : runner'[k] \in WritingRunner => jobs'[k].status \in {"CLAIMED", "RUNNING"}
  BY <1>1, <1>3, SerialFacts DEF JobInOrder, Status, Writes, WritingRunner
<1>6. \A j \in JobIds : JobInOrder(j)'
  BY <1>1, <1>4, <1>5, JobsStayInOrder
<1>7. PassKnowsJob(p)'
  <2>1. \A k \in JobIds : k = on[p] => Latest(k)'
    BY <1>2, <1>4
  <2>2. Latest(on[p])'
    BY <1>1, <2>1 DEF Latest
  <2> QED
    BY <1>1, <1>4, <2>2 DEF PassKnowsJob
<1>8. ASSUME NEW c \in Calls, pc[c] \in InDispatch PROVE jobs'[on[c]] = jobs[on[c]]
  BY <1>1, <1>3, <1>8, SerialFacts, Bounds DEF Writes, InDispatch, Resting
<1>9. ASSUME NEW c \in Calls, pc[c] = "dispatching" PROVE ~pending'[on[c]]
  BY <1>1, <1>9, SerialFacts DEF RequestOwnsJob
<1>10. Final
  BY <1>1, <1>2 DEF Final, Writes, Status, inFlightStatuses
<1> QED
  BY <1>1, <1>6, <1>7, <1>8, <1>9, <1>10, PassMoves

\* The next attempt is made while nothing is in flight, and is a new row.
LEMMA ResumeSerial ==
  ASSUME Serially, SerialInv, NEW p \in Passes, Resume(p)
  PROVE  SerialInv' /\ Final
<1>1. /\ Sound' /\ Only(p) /\ pc[p] = "resume" /\ pc'[p] \in {"scan", "dispatching"}
      /\ on[p] \in JobIds /\ Exists(on[p]) /\ on'[p] \in JobIds
      /\ on'[p][1] = on[p][1] /\ on'[p][2] = on[p][2] + 1 /\ on[p][2] \in Nat
      /\ ~Exists(on'[p]) => Writes(on'[p], "QUEUED")
      /\ UNCHANGED <<pending, runner, own>>
  BY ResumeStep, SerialFacts DEF github
<1>2. PICK next \in JobIds : next = on'[p] /\ next[1] = on[p][1] /\ next[2] = on[p][2] + 1 /\ next[2] > on[p][2]
  BY <1>1
<1>3. InFlight = {} /\ Latest(on[p])
  BY <1>1, SerialFacts DEF PassKnowsJob
<1>4. ~Exists(next) /\ Writes(next, "QUEUED") /\ next[2] > 0
  BY <1>1, <1>2, <1>3 DEF Latest
<1>5. jobs'[next].status = "QUEUED" /\ \A k \in JobIds \ {next} : jobs'[k] = jobs[k]
  BY <1>4 DEF Writes
<1>6. \A k \in JobIds : Exists(k)' <=> Exists(k) \/ k = next
  BY <1>5 DEF Exists
<1>7. InFlight' = {next}
  BY <1>3, <1>5 DEF InFlight, inFlightStatuses
<1>8. Latest(next)'
  <2> SUFFICES ASSUME NEW k \in JobIds, k[1] = next[1], k[2] > next[2] PROVE ~Exists(k)'
    BY DEF Latest
  <2>1. k[2] \in Nat /\ k[2] > on[p][2] /\ k # next
    BY <1>1, <1>2, Bounds
  <2> QED
    BY <1>2, <1>3, <1>6, <2>1 DEF Latest
<1>9. ASSUME NEW j \in JobIds PROVE JobInOrder(j)'
  <2>1. JobInOrder(j) /\ JobInOrder(on[p]) /\ <<j[1], 0>> \in JobIds
    BY <1>1, SerialFacts, Bounds
  <2>2. Exists(j)' => Exists(<<j[1], 0>>)'
    BY <1>1, <1>2, <1>6, <2>1 DEF JobInOrder
  <2>3. pending'[j] => Exists(j)'
    BY <1>1, <1>6, <2>1 DEF JobInOrder
  <2>4. runner'[j] \in WritingRunner => jobs'[j].status \in {"CLAIMED", "RUNNING"}
    BY <1>1, <1>4, <1>5, <2>1 DEF JobInOrder, Status, Exists
  <2>5. j \in InFlight' => InFlight' = {j} /\ Latest(j)'
    BY <1>7, <1>8
  <2> QED
    BY <2>2, <2>3, <2>4, <2>5 DEF JobInOrder, Status
<1>10. PassKnowsJob(p)'
  BY <1>1, <1>2, <1>4, <1>5 DEF PassKnowsJob, Status
<1>11. ASSUME NEW c \in Calls, pc[c] \in InDispatch PROVE jobs'[on[c]] = jobs[on[c]]
  <2>1. on[c] \in JobIds /\ on[c][2] = 0
    BY <1>11, SerialFacts, Bounds DEF RequestOwnsJob, InDispatch, Resting
  <2> QED
    BY <1>4, <1>5, <2>1
<1>12. ASSUME NEW c \in Calls, pc[c] = "dispatching" PROVE ~pending'[on[c]]
  BY <1>1, <1>12, SerialFacts DEF RequestOwnsJob
<1>13. Final
  BY <1>4, <1>5 DEF Final, Exists
<1> QED
  BY <1>1, <1>9, <1>10, <1>11, <1>12, <1>13, PassMoves

\* A pass keeps the order.
LEMMA PassSerial ==
  ASSUME Serially, SerialInv, NEW p \in Passes, Pass(p) \/ PassDies(p) \/ Dispatching(p)
  PROVE  SerialInv' /\ Final
<1> USE SerialFacts
<1>1. CASE ListActive(p) \/ EndPass(p) \/ LetBe(p) \/ ParkRun(p) \/ ParkTask(p) \/ PassDies(p)
  <2>1. Sound' /\ Only(p) /\ UNCHANGED <<jobs, pending, runner, own>> /\ pc'[p] \in {"idle", "scan", "parkTask"}
    BY <1>1, ListActiveStep, PassGoesOn DEF github
  <2>2. pc[p] # "idle" \/ InFlight # {}
    BY <1>1 DEF ListActive, EndPass, LetBe, ParkRun, ParkTask, PassDies, At
  <2>3. PassKnowsJob(p)'
    BY <2>1 DEF PassKnowsJob
  <2> QED
    BY <2>1, <2>2, <2>3, PassLooks
<1>2. CASE ReadJob(p)
  <2>1. /\ Sound' /\ Only(p) /\ pc[p] = "scan" /\ on'[p] \in JobIds /\ held'[p] = jobs[on'[p]]
        /\ \/ pc'[p] = "scan"
           \/ pc'[p] = "dispatching" /\ QueuedResume(on'[p])
           \/ pc'[p] = "judge" /\ StillActive(on'[p])
        /\ UNCHANGED <<jobs, pending, runner, own>>
    BY <1>2, ReadJobStep DEF github
  <2>2. PICK j \in JobIds : j = on'[p]
    BY <2>1
  <2>3. CASE pc'[p] = "judge"
    <3>1. j \in InFlight
      BY <2>1, <2>2, <2>3 DEF StillActive, InFlight
    <3>2. InFlight = {j} /\ Latest(j)
      BY <3>1 DEF JobInOrder
    <3>3. InFlight' \subseteq {on'[p]} /\ Latest(on[p])'
      BY <2>1, <2>2, <3>2 DEF InFlight, Latest, Exists
    <3>4. Status(on[p])' \in inFlightStatuses
      BY <2>1, <2>3 DEF StillActive, Status
    <3> QED
      BY <2>1, <2>3, <3>3, <3>4, PassLooks DEF PassKnowsJob
  <2>4. CASE pc'[p] = "dispatching" /\ QueuedResume(on'[p])
    <3>1. PassKnowsJob(p)'
      BY <2>1, <2>4 DEF PassKnowsJob, QueuedResume, Status
    <3> QED
      BY <2>1, <3>1, PassLooks
  <2>5. CASE pc'[p] = "scan"
    BY <2>1, <2>5, PassLooks DEF PassKnowsJob
  <2> QED
    BY <2>1, <2>3, <2>4, <2>5
<1>3. CASE Terminalize(p)
  BY <1>3, TerminalizeSerial
<1>4. CASE Resume(p)
  BY <1>4, ResumeSerial
<1>5. CASE DeferDispatch(p)
  <2>1. /\ Sound' /\ Only(p) /\ pc[p] = "defer" /\ pc'[p] = "scan" /\ on[p] \in JobIds
        /\ Writes(on[p], "QUEUED") /\ UNCHANGED <<pending, runner, own>>
    BY <1>5, DeferDispatchStep DEF github, locals
  <2>2. PassKnowsJob(p)'
    BY <2>1 DEF PassKnowsJob
  <2> QED
    BY <2>1, <2>2, PassWrites DEF InPassDispatch, inFlightStatuses
<1>6. CASE WriteDispatching(p) \/ WriteDispatched(p)
  <2>1. PICK status \in {"DISPATCHING", "DISPATCHED"} :
          /\ Sound' /\ Only(p) /\ UNCHANGED <<pending, runner, own, on>>
          /\ on[p] \in JobIds /\ Writes(on[p], status)
          /\ \/ pc[p] = "dispatching" /\ pc'[p] = "dispatch" /\ status = "DISPATCHING"
             \/ pc[p] = "dispatched" /\ pc'[p] = "scan"
    BY <1>6, WriteDispatchingStep, WriteDispatchedStep DEF github, locals
  <2>2. PassKnowsJob(p)'
    BY <2>1 DEF PassKnowsJob, Status, Writes
  <2> QED
    BY <2>1, <2>2, PassWrites DEF InPassDispatch, inFlightStatuses
<1>7. CASE Dispatch(p)
  <2>1. /\ Sound' /\ Only(p) /\ pc[p] = "dispatch" /\ on[p] \in JobIds
        /\ pc'[p] \in {"dispatched", "defer"} /\ (Accepted(on[p]) \/ UNCHANGED github)
        /\ UNCHANGED <<jobs, runner, on, own>>
    BY <1>7, DispatchStep, Bounds DEF locals
  <2>2. Status(on[p]) = "DISPATCHING" /\ on[p][2] > 0 /\ Exists(on[p])
    BY <2>1 DEF PassKnowsJob, Status, Exists
  <2>3. \A k \in JobIds : pending'[k] => pending[k] \/ (Exists(k) /\ k[2] > 0)
    BY <2>1, <2>2 DEF Accepted, github, TypeOK
  <2>4. PassKnowsJob(p)'
    BY <2>1, <2>2 DEF PassKnowsJob, Status
  <2> QED
    BY <2>1, <2>3, <2>4, PassLooks
<1> QED
  BY <1>1, <1>2, <1>3, <1>4, <1>5, <1>6, <1>7 DEF Pass, Dispatching

-----------------------------------------------------------------------------
\* SerialInv holds at first.
LEMMA InitSerial == Init => SerialInv
<1> SUFFICES ASSUME Init PROVE SerialInv
  OBVIOUS
<1>1. \A a \in Actors : pc[a] = "idle"
  BY DEF Init
<1>2. \A j \in JobIds : jobs[j].status = "NONE" /\ ~pending[j] /\ runner[j] = "none"
  BY DEF Init, NoRow
<1>3. OneRequest /\ (\A c \in Calls : RequestOwnsJob(c)) /\ \A p \in Passes : PassKnowsJob(p)
  BY <1>1, Bounds DEF OneRequest, InProgress, RequestOwnsJob, PassKnowsJob, Early
<1>4. \A j \in JobIds : JobInOrder(j)
  BY <1>2, StatusesTyped, RunnerLabelsAre DEF JobInOrder, Exists, WritingRunner, InFlight
<1> QED
  BY <1>3, <1>4, InitSound DEF SerialInv

\* Every step keeps SerialInv, and leaves a succeeded job as it is.
LEMMA NextSerial ==
  ASSUME Serially, SerialInv, [Next]_vars
  PROVE  SerialInv' /\ Final
<1>1. CASE UNCHANGED vars
  <2>1. UNCHANGED <<jobs, pending, runner, pc, on, held, own>> /\ Sound'
    BY <1>1, NextSound DEF vars, github, locals, SerialInv
  <2>2. InFlight' = InFlight /\ OneRequest'
    BY <2>1 DEF SerialInv, OneRequest, InProgress, InFlight
  <2> QED
    BY <2>1, <2>2 DEF SerialInv, RequestOwnsJob, PassKnowsJob, JobInOrder, Latest, Status,
       Exists, Final
<1>2. ASSUME NEW a \in Actors, Dispatching(a) PROVE SerialInv' /\ Final
  BY <1>2, RequestDispatchingSerial, PassSerial, Bounds
<1> QED
  BY <1>1, <1>2, RequestSerial, RunnerSerial, PassSerial DEF Next

\* A task has one job in flight at a time (requireNoJobInFlight), over
\* requests, retries, lost runners and resumed attempts that wait for their
\* back-off, for any number of operations, requests and attempts and every
\* fault, as long as the steps come in the order Serially states.
THEOREM OneJobAtATime == Serially => (Spec => []OneJobInFlight)
<1> SUFFICES ASSUME Serially PROVE Spec => []OneJobInFlight
  OBVIOUS
<1>1. SerialInv /\ [Next]_vars => SerialInv'
  BY NextSerial
<1>2. SerialInv => OneJobInFlight
  <2> SUFFICES ASSUME SerialInv PROVE Cardinality(InFlight) <= 1
    BY DEF OneJobInFlight
  <2>1. CASE InFlight = {}
    BY <2>1, FS_EmptySet
  <2>2. CASE InFlight # {}
    <3>1. PICK j : j \in JobIds /\ InFlight = {j}
      BY <2>2 DEF SerialInv, JobInOrder, InFlight
    <3> QED
      BY <3>1, FS_Singleton
  <2> QED
    BY <2>1, <2>2
<1> QED
  BY InitSerial, <1>1, <1>2, PTL DEF Spec

\* A job whose completion callback is stored is never judged to have ended
\* before it, nor reopened, under the same order.
THEOREM CallbackStays == Serially => (Spec => CallbackIsFinal)
<1> SUFFICES ASSUME Serially PROVE Spec => CallbackIsFinal
  OBVIOUS
<1>1. SerialInv /\ [Next]_vars => SerialInv'
  BY NextSerial
<1>2. SerialInv /\ [Next]_vars => [\A j \in JobIds : jobs[j].status = "SUCCEEDED" => jobs'[j].status = "SUCCEEDED"]_vars
  BY NextSerial DEF Final
<1> QED
  BY InitSerial, <1>1, <1>2, PTL DEF Spec, CallbackIsFinal
=============================================================================
