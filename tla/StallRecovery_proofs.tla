------------------------- MODULE StallRecovery_proofs -------------------------
(***************************************************************************)
(* The clock rules of stall recovery, for every length of a step and every *)
(* gap between passes that leaves an execution its 60 minutes.             *)
(*                                                                         *)
(* AgeInv is why the ceiling meets no live runner of an execution job that *)
(* did not wait for a back-off.  The ceiling compares the age of the job, not  *)
(* of its run, so the invariant follows the age through the life of an     *)
(* attempt: unclaimed, it is the silence the last pass found within the    *)
(* grace, plus the time since that pass (PickedUpInTime); running, it is   *)
(* ahead of the run by at most grace and gap (AheadOfRun).                 *)
(*                                                                         *)
(* WatchInv, inductive with it, is why nothing is left alone: a job        *)
(* without a runner is as quiet as it is alone, or as long held, and the   *)
(* last pass found that within its grace (NotAlone); an attempt is due     *)
(* only since the last pass (DueSoon); a delay is the one its repetitions  *)
(* call for (BackoffOK).  That a delay doubles rests on 2^n being the      *)
(* number of subsets of 1..n.                                              *)
(***************************************************************************)
EXTENDS StallRecovery, FiniteSetTheorems, TLAPS

Claimed == status \in {"CLAIMED", "RUNNING"}

\* The clocks the argument needs are natural numbers and within their limits.
ClocksOK ==
  /\ kind \in Kinds
  /\ age \in Nat /\ quiet \in Nat /\ runFor \in Nat
  /\ sincePass \in 0..PassGap
  /\ run = "running" => runFor <= workflowTimeoutMinutes

\* Only a claimed job has a run id; only a run that has started claims; an attempt
\* that is QUEUED without having waited is the first one and has no run.
RowsOK ==
  /\ stamped \in BOOLEAN
  /\ stamped => status \in {"RUNNING", "CLOSED", "CANCELLED"}
  /\ Claimed => run \in {"running", "completed"}
  /\ status = "QUEUED" /\ ~Delayed => ~Resumed /\ run = "none"

\* An unclaimed attempt that did not wait is as old as its silence, and the last
\* pass found that silence within the grace.
PickedUpInTime ==
  status = "DISPATCHED" /\ ~Delayed =>
    age = quiet /\ quiet <= dispatchGraceMinutes + sincePass

\* A running attempt that did not wait is ahead of its run by the pickup only.
AheadOfRun ==
  run = "running" /\ ~Delayed /\ (Claimed \/ status = "DISPATCHED") =>
    age <= runFor + dispatchGraceMinutes + PassGap

AgeInv == ClocksOK /\ RowsOK /\ PickedUpInTime /\ AheadOfRun

USE StepIsPositive, PassesAreFrequent, AnswersAreBoolean
    DEF dispatchGraceMinutes, workflowTimeoutMinutes, WorkflowTimeoutMinutes, hardTimeoutMinutes, Kinds

\* A dispatched or queued first job starts with an age of nothing.
LEMMA InitAge == Init => AgeInv
<1> SUFFICES ASSUME Init PROVE AgeInv
  OBVIOUS
<1>1. sincePass \in 0..PassGap
  BY Zenon DEF Init
<1>2. ClocksOK
  BY <1>1 DEF Init, ClocksOK
<1>3. RowsOK
  BY DEF Init, RowsOK, Claimed, Resumed
<1>4. PickedUpInTime
  BY <1>1 DEF Init, PickedUpInTime
<1>5. AheadOfRun
  BY DEF Init, AheadOfRun
<1> QED BY <1>2, <1>3, <1>4, <1>5 DEF AgeInv

\* A dispatched job that is let be has been silent for the grace at most.
LEMMA LetBeIsWithinGrace ==
  ASSUME stamped \in BOOLEAN, stamped => status \in {"RUNNING", "CLOSED", "CANCELLED"},
         status = "DISPATCHED", "WAIT" \in Verdicts
  PROVE  ~NeverStarted
  BY DEF Verdicts, Verdict

\* The ceiling is only ever the verdict on a job that is claimed or has its run
\* recorded, and that is older than the ceiling.
LEMMA CeilingNeedsAge ==
  ASSUME run = "running", "HARD_TIMEOUT" \in Verdicts
  PROVE  BeyondCeiling /\ (stamped \/ Claimed)
  BY DEF Verdicts, Verdict, Claimed

\* A step of time moves the age and the run it is compared with together.
LEMMA TickKeepsAge == AgeInv /\ Tick => AgeInv'
<1> SUFFICES ASSUME AgeInv, Tick PROVE AgeInv'
  OBVIOUS
<1> USE DEF AgeInv, Tick, row, resume
<1>1. ClocksOK'
  BY DEF ClocksOK, Until
<1>2. RowsOK'
  BY DEF RowsOK, Claimed, Delayed, Resumed
<1>3. PickedUpInTime'
  BY DEF PickedUpInTime, ClocksOK, Until, Delayed, Waiting
<1>4. AheadOfRun'
  BY DEF AheadOfRun, ClocksOK, Until, Delayed, Claimed
<1> QED BY <1>1, <1>2, <1>3, <1>4

\* The workflow run's own steps: it starts within grace and gap of the queueing.
LEMMA RunKeepsAge ==
  AgeInv /\ (RunStarts \/ RunClaims \/ RunStamps \/ RunFinishes \/ RunEnds) => AgeInv'
<1> SUFFICES ASSUME AgeInv,
                    RunStarts \/ RunClaims \/ RunStamps \/ RunFinishes \/ RunEnds
             PROVE  AgeInv'
  OBVIOUS
<1> USE DEF AgeInv, ClocksOK, RowsOK, PickedUpInTime, AheadOfRun, Claimed, Delayed, Resumed,
            row, resume, clocks
<1>1. CASE RunStarts
  BY <1>1 DEF RunStarts
<1>2. CASE RunClaims
  BY <1>2 DEF RunClaims
<1>3. CASE RunStamps
  BY <1>3 DEF RunStamps
<1>4. CASE RunFinishes
  BY <1>4 DEF RunFinishes
<1>5. CASE RunEnds
  BY <1>5 DEF RunEnds
<1> QED BY <1>1, <1>2, <1>3, <1>4, <1>5

\* A pass lets be only what is within the grace, and gives a new attempt a new age.
LEMMA PassKeepsAge == AgeInv /\ Pass => AgeInv'
<1> SUFFICES ASSUME AgeInv, Pass PROVE AgeInv'
  OBVIOUS
<1> USE DEF AgeInv, ClocksOK, RowsOK, PickedUpInTime, AheadOfRun, Claimed, Delayed, Resumed,
            row, resume
<1>1. CASE PassOverWaiting
  BY <1>1 DEF PassOverWaiting, QueuedResume
<1>2. CASE PassDispatches
  BY <1>2 DEF PassDispatches, QueuedResume, Dispatch, Accepted
<1>3. CASE PassLetsBe
  <2>1. status = "DISPATCHED" => quiet <= dispatchGraceMinutes
    BY <1>3, LetBeIsWithinGrace DEF PassLetsBe, NeverStarted
  <2> QED BY <1>3, <2>1 DEF PassLetsBe
<1>4. CASE PassParks
  BY <1>4 DEF PassParks
<1>5. CASE PassResumes
  <2>1. \/ status' = "QUEUED" /\ run' = "none" /\ Delayed'
        \/ Dispatch("none", FALSE)
    BY <1>5, Zenon DEF PassResumes
  <2>2. /\ kind' = kind /\ stamped' = FALSE /\ age' = 0 /\ quiet' = 0 /\ runFor' = 0 /\ sincePass' = 0
    BY <1>5 DEF PassResumes, queuedAtOfNext
  <2>3. /\ status' \in {"QUEUED", "DISPATCHED"}
        /\ run' \in {"none", "pending"}
        /\ status' = "QUEUED" => Delayed'
    <3>1. CASE status' = "QUEUED" /\ run' = "none" /\ Delayed'
      BY <3>1
    <3>2. CASE Dispatch("none", FALSE)
      BY <3>2 DEF Dispatch, Accepted
    <3> QED BY <2>1, <3>1, <3>2
  <2>4. ClocksOK'
    BY <2>2, <2>3
  <2>5. RowsOK'
    BY <2>2, <2>3
  <2>6. PickedUpInTime'
    BY <2>2, <2>3
  <2>7. AheadOfRun'
    BY <2>3
  <2> QED BY <2>4, <2>5, <2>6, <2>7
<1> QED BY <1>1, <1>2, <1>3, <1>4, <1>5 DEF Pass

\* AgeInv is an invariant.
LEMMA AgeInductive == Spec => []AgeInv
<1>1. AgeInv /\ [Next]_vars => AgeInv'
  <2> SUFFICES ASSUME AgeInv, [Next]_vars PROVE AgeInv'
    OBVIOUS
  <2>1. CASE Next
    BY <2>1, TickKeepsAge, RunKeepsAge, PassKeepsAge DEF Next
  <2>2. CASE UNCHANGED vars
    BY <2>2 DEF vars, row, resume, clocks, AgeInv, ClocksOK, RowsOK, PickedUpInTime, AheadOfRun,
                Claimed, Delayed, Resumed
  <2> QED BY <2>1, <2>2
<1> QED BY <1>1, InitAge, PTL DEF Spec

\* Whatever the step and the gap, no live runner of an execution job that did not wait
\* is cut off by the ceiling: its age is at most pickup and run, which just fit.
THEOREM CeilingLeavesExecutions == Spec => CeilingSparesExecutions
<1>1. AgeInv /\ [Next]_vars =>
        [PassResumes /\ run = "running" /\ cause' = "HARD_TIMEOUT" => Delayed \/ kind = "HTTP_E2E"]_vars
  <2> SUFFICES ASSUME AgeInv, PassResumes, run = "running", cause' = "HARD_TIMEOUT", ~Delayed,
                      kind # "HTTP_E2E"
               PROVE  FALSE
    OBVIOUS
  <2>1. "HARD_TIMEOUT" \in Verdicts
    BY DEF PassResumes
  <2>2. age > hardTimeoutMinutes /\ (stamped \/ Claimed)
    BY <2>1, CeilingNeedsAge DEF BeyondCeiling
  <2>3. Claimed
    BY <2>2 DEF AgeInv, RowsOK, PassResumes, Judged, Active, activeJobStatuses, Claimed
  <2>4. age <= WorkflowTimeoutMinutes("EXECUTION") + dispatchGraceMinutes + PassGap
    BY <2>3 DEF AgeInv, AheadOfRun, ClocksOK
  <2> QED BY <2>2, <2>4 DEF AgeInv, ClocksOK
<1> QED BY <1>1, AgeInductive, PTL DEF Spec, CeilingSparesExecutions
-----------------------------------------------------------------------------
(***************************************************************************)
(* The delay of an attempt, and who is left alone for how long.            *)
(***************************************************************************)
\* A power of two counts the subsets of an interval.
LEMMA PowerCounts ==
  ASSUME NEW n \in Nat
  PROVE  /\ IsFiniteSet(SUBSET (1..n)) /\ Cardinality(SUBSET (1..n)) = 2^n
         /\ Cardinality(SUBSET (1..n)) \in Nat
<1>1. IsFiniteSet(1..n) /\ Cardinality(1..n) = n
  BY FS_Interval
<1>2. IsFiniteSet(SUBSET (1..n)) /\ Cardinality(SUBSET (1..n)) = 2^Cardinality(1..n)
  BY <1>1, FS_SUBSET, Zenon
<1>3. Cardinality(SUBSET (1..n)) \in Nat
  BY <1>2, FS_CardinalityType, Zenon
<1> QED
  BY <1>1, <1>2, <1>3, Zenon

\* One more doubles it: the subsets with the new element are as many as those without.
LEMMA PowerDoubles ==
  ASSUME NEW n \in Nat
  PROVE  2^n \in Nat /\ 2^n > 0 /\ 2^(n + 1) = 2 * 2^n
<1> DEFINE S == SUBSET (1..n)
           T == {s \cup {n + 1} : s \in S}
           f == [s \in S |-> s \cup {n + 1}]
<1>1. IsFiniteSet(S) /\ Cardinality(S) = 2^n /\ Cardinality(S) \in Nat
  BY PowerCounts, Zenon
<1>2. Cardinality(SUBSET (1..(n + 1))) = 2^(n + 1)
  <2>1. n + 1 \in Nat
    OBVIOUS
  <2> QED
    BY <2>1, PowerCounts, Zenon
<1>3. f \in Bijection(S, T)
  <2>1. f \in [S -> T]
    OBVIOUS
  <2>2. ASSUME NEW s \in S, NEW t \in S, f[s] = f[t] PROVE s = t
    <3>1. n + 1 \notin s /\ n + 1 \notin t
      OBVIOUS
    <3>2. s \cup {n + 1} = t \cup {n + 1}
      BY <2>2
    <3> QED
      BY <3>1, <3>2
  <2>3. ASSUME NEW t \in T PROVE \E s \in S : f[s] = t
    OBVIOUS
  <2> HIDE DEF f, T, S
  <2>4. f \in Injection(S, T)
    BY <2>1, <2>2 DEF Injection, IsInjective
  <2>5. f \in Surjection(S, T)
    BY <2>1, <2>3 DEF Surjection
  <2> QED
    BY <2>4, <2>5 DEF Bijection
<1>4. IsFiniteSet(T) /\ Cardinality(T) = Cardinality(S)
  <2> HIDE DEF f, T, S
  <2>1. ExistsBijection(S, T)
    BY <1>3 DEF ExistsBijection
  <2> QED
    BY <1>1, <2>1, FS_Bijection
<1>5. SUBSET (1..(n + 1)) = S \cup T
  <2>1. ASSUME NEW u \in SUBSET (1..(n + 1)), n + 1 \in u PROVE u \in T
    <3>1. u \ {n + 1} \in S
      OBVIOUS
    <3>2. u = (u \ {n + 1}) \cup {n + 1}
      BY <2>1
    <3> QED
      BY <3>1, <3>2
  <2>2. ASSUME NEW u \in SUBSET (1..(n + 1)), n + 1 \notin u PROVE u \in S
    BY <2>2
  <2>3. ASSUME NEW u \in T PROVE u \in SUBSET (1..(n + 1))
    <3>1. PICK s \in S : u = s \cup {n + 1}
      OBVIOUS
    <3>2. s \subseteq 1..n /\ 1..n \subseteq 1..(n + 1) /\ n + 1 \in 1..(n + 1)
      OBVIOUS
    <3> QED
      BY <3>1, <3>2
  <2>4. ASSUME NEW u \in S PROVE u \in SUBSET (1..(n + 1))
    OBVIOUS
  <2> HIDE DEF T, S
  <2> QED
    BY <2>1, <2>2, <2>3, <2>4
<1>6. S \cap T = {}
  OBVIOUS
<1> HIDE DEF S, T, f
<1>7. Cardinality(S \cap T) = 0
  BY <1>6, FS_EmptySet
<1>8. Cardinality(S \cup T) = Cardinality(S) + Cardinality(T) - 0
  BY <1>1, <1>4, <1>7, FS_Union
<1>9. PICK c \in Nat : c = Cardinality(S)
  BY <1>1
<1>10. Cardinality(S \cup T) = c + c
  BY <1>4, <1>8, <1>9
<1>12. 2^(n + 1) = c + c
  BY <1>2, <1>5, <1>10, Zenon
<1>11. 2^n = c
  BY <1>1, <1>9, Zenon
<1>13. c > 0
  <2>1. {} \in S
    BY DEF S
  <2> QED
    BY <1>1, <1>9, <2>1, FS_EmptySet
<1> QED
  BY <1>9, <1>11, <1>12, <1>13

\* A delay is a number of minutes up to the ceiling.
LEMMA DelayBounded ==
  ASSUME NEW k \in Nat
  PROVE  resumeDelayMinutes(k) \in 0..RESUME_BACKOFF_CEILING_MINUTES
<1>1. CASE k <= 1
  BY <1>1 DEF resumeDelayMinutes, RESUME_BACKOFF_CEILING_MINUTES
<1>2. CASE k > 1
  <2>1. PICK n \in Nat : n = k - 2
    BY <1>2
  <2>2. PICK p \in Nat : p = 2^n
    BY PowerDoubles
  <2>3. resumeDelayMinutes(k) = Capped(RESUME_BACKOFF_BASE_MINUTES * p)
    BY <1>2, <2>1, <2>2 DEF resumeDelayMinutes
  <2> QED
    BY <2>3 DEF Capped, RESUME_BACKOFF_BASE_MINUTES, RESUME_BACKOFF_CEILING_MINUTES
<1> QED
  BY <1>1, <1>2

Doubled(minutes) == Capped(2 * minutes)

\* The second attempt for a cause waits 15 minutes, each later one twice as long as
\* the one before, up to the ceiling.
LEMMA DelayDoubles ==
  ASSUME NEW k \in Nat, k > 1
  PROVE  resumeDelayMinutes(k) > 0
         /\ resumeDelayMinutes(k + 1) = Doubled(resumeDelayMinutes(k))
<1>1. PICK n \in Nat : n = k - 2
  OBVIOUS
<1>2. PICK p \in Nat : p = 2^n /\ p > 0 /\ 2^(n + 1) = 2 * p
  BY PowerDoubles
<1>3. resumeDelayMinutes(k) = Capped(RESUME_BACKOFF_BASE_MINUTES * p)
  BY <1>1, <1>2 DEF resumeDelayMinutes
<1>4. resumeDelayMinutes(k + 1) = Capped(RESUME_BACKOFF_BASE_MINUTES * (2 * p))
  BY <1>1, <1>2 DEF resumeDelayMinutes
<1> QED
  BY <1>2, <1>3, <1>4 DEF Capped, Doubled, RESUME_BACKOFF_BASE_MINUTES,
     RESUME_BACKOFF_CEILING_MINUTES

\* The repetitions that are not told apart all wait for the ceiling.
LEMMA DelayAtMost == resumeDelayMinutes(MaxSame) = RESUME_BACKOFF_CEILING_MINUTES
<1>1. PICK n \in Nat : n = MaxSame - 2
  BY MaxSameReachesCeiling
<1>2. PICK p \in Nat : p = 2^n
  BY PowerDoubles
<1>3. RESUME_BACKOFF_BASE_MINUTES * p >= RESUME_BACKOFF_CEILING_MINUTES
  BY <1>1, <1>2, MaxSameReachesCeiling
<1>4. resumeDelayMinutes(MaxSame) = Capped(RESUME_BACKOFF_BASE_MINUTES * p)
  BY <1>1, <1>2, MaxSameReachesCeiling DEF resumeDelayMinutes
<1> QED
  BY <1>3, <1>4 DEF Capped, RESUME_BACKOFF_BASE_MINUTES, RESUME_BACKOFF_CEILING_MINUTES

\* The row's delay is the one its repetitions call for; only a first attempt has none.
BackoffOK ==
  /\ same \in 0..MaxSame
  /\ delay = resumeDelayMinutes(same)
  /\ Resumed => same > 0
  /\ ~Resumed => same = 0

\* Every clock runs, and what a run that ended left is a conclusion.
HoldsOK ==
  /\ idleFor \in Nat /\ heldFor \in Nat /\ wait \in Int
  /\ Claimed /\ run = "completed" => conclusion \in Conclusions

\* A job whose runner is gone is as quiet as it is alone: the last pass found that
\* within the grace, or within the lease and its grace.
NotAlone ==
  /\ run = "running" => idleFor = 0
  /\ QueuedResume => idleFor <= sincePass /\ (wait > 0 => idleFor = 0)
  /\ Active /\ ~Claimed /\ ~QueuedResume => idleFor <= quiet /\ quiet <= dispatchGraceMinutes + sincePass
  /\ Claimed => /\ ~LeaseLapsed => idleFor <= heldFor
                /\ idleFor <= leaseMinutes + leaseGraceMinutes + sincePass

\* The pass that finds an attempt due starts it.
DueSoon == QueuedResume => wait + sincePass > 0

\* Whatever is recorded is of its kind.
KindsOK ==
  /\ status \in activeJobStatuses \cup {"CLOSED", "CANCELLED"}
  /\ deferred \in BOOLEAN
  /\ cause \in Causes \cup {"NONE"}
  /\ run \in {"none", "pending", "running", "completed"}
  /\ conclusion \in Conclusions \cup {"NONE"}

WatchInv == KindsOK /\ BackoffOK /\ HoldsOK /\ NotAlone /\ DueSoon

\* Nothing is overdue, repeated or alone at first.
LEMMA InitWatch == Init => WatchInv
<1> SUFFICES ASSUME Init PROVE WatchInv
  OBVIOUS
<1>1. sincePass \in Nat
  BY InitAge DEF AgeInv, ClocksOK
<1>2. resumeDelayMinutes(0) = 0
  BY DEF resumeDelayMinutes
<1>3. KindsOK
  BY DEF Init, KindsOK, activeJobStatuses
<1>4. BackoffOK
  BY <1>2, MaxSameReachesCeiling DEF Init, BackoffOK, Resumed
<1>5. HoldsOK
  BY DEF Init, HoldsOK, Claimed
<1>6. NotAlone
  BY <1>1 DEF Init, NotAlone, Claimed, QueuedResume, Resumed
<1>7. DueSoon
  BY DEF Init, DueSoon, QueuedResume, Resumed
<1> QED
  BY <1>3, <1>4, <1>5, <1>6, <1>7 DEF WatchInv

\* While time passes, the run works, the attempt waits, or the silence grows with it.
LEMMA TickWatches == AgeInv /\ WatchInv /\ Tick => WatchInv'
<1> SUFFICES ASSUME AgeInv, WatchInv, Tick PROVE WatchInv'
  OBVIOUS
<1>1. /\ status' = status /\ stamped' = stamped /\ cause' = cause /\ same' = same /\ delay' = delay
      /\ deferred' = deferred /\ run' = run /\ conclusion' = conclusion
      /\ sincePass' = sincePass + Step /\ sincePass \in Nat /\ quiet \in Nat
      /\ leaseMinutes' = leaseMinutes /\ leaseMinutes \in Nat
  BY DEF Tick, row, resume, AgeInv, ClocksOK, leaseMinutes, LeaseMinutes
<1>2. KindsOK' /\ BackoffOK'
  BY <1>1 DEF WatchInv, KindsOK, BackoffOK, Resumed
<1>3. HoldsOK'
  BY <1>1 DEF WatchInv, HoldsOK, Claimed, Tick, Until
<1>4. DueSoon'
  BY <1>1 DEF WatchInv, HoldsOK, DueSoon, QueuedResume, Resumed, Tick
<1>5. NotAlone'
  <2>1. run = "running" => idleFor' = 0
    BY DEF Tick
  <2>2. QueuedResume => idleFor' <= sincePass' /\ (wait' > 0 => idleFor' = 0)
    BY <1>1 DEF WatchInv, NotAlone, HoldsOK, QueuedResume, Resumed, Waiting, Tick
  <2>3. Active /\ ~Claimed /\ ~QueuedResume => idleFor' <= quiet' /\ quiet' <= dispatchGraceMinutes + sincePass'
    BY <1>1 DEF WatchInv, NotAlone, HoldsOK, QueuedResume, Resumed, Waiting, Claimed, Tick
  <2>4. Claimed => /\ ~LeaseLapsed' => idleFor' <= heldFor'
                   /\ idleFor' <= leaseMinutes + leaseGraceMinutes + sincePass'
    <3> SUFFICES ASSUME Claimed
                 PROVE  /\ ~LeaseLapsed' => idleFor' <= heldFor'
                        /\ idleFor' <= leaseMinutes + leaseGraceMinutes + sincePass'
      OBVIOUS
    <3>1. /\ ~LeaseLapsed => idleFor <= heldFor
          /\ idleFor <= leaseMinutes + leaseGraceMinutes + sincePass
          /\ idleFor \in Nat /\ heldFor \in Nat
      BY DEF WatchInv, NotAlone, HoldsOK
    <3>2. /\ idleFor' \in {0, idleFor + Step}
          /\ heldFor' = Until(heldFor, leaseMinutes + leaseGraceMinutes)
      BY DEF Tick, Claimed
    <3> QED
      BY <1>1, <3>1, <3>2 DEF LeaseLapsed, Until, leaseGraceMinutes
  <2> QED
    BY <1>1, <2>1, <2>2, <2>3, <2>4 DEF NotAlone, Active, Claimed, QueuedResume, Resumed
<1> QED
  BY <1>2, <1>3, <1>4, <1>5 DEF WatchInv

\* The workflow run's own steps.
LEMMA RunWatches ==
  AgeInv /\ WatchInv /\ (RunStarts \/ RunClaims \/ RunStamps \/ RunFinishes \/ RunEnds) => WatchInv'
<1> SUFFICES ASSUME AgeInv, WatchInv,
                    RunStarts \/ RunClaims \/ RunStamps \/ RunFinishes \/ RunEnds
             PROVE  WatchInv'
  OBVIOUS
<1>1. sincePass \in Nat /\ quiet \in Nat /\ RowsOK
  BY DEF AgeInv, ClocksOK
<1> USE DEF WatchInv, KindsOK, BackoffOK, HoldsOK, NotAlone, DueSoon, Claimed, QueuedResume, Resumed,
            Active, activeJobStatuses, LeaseLapsed, leaseMinutes, LeaseMinutes, leaseGraceMinutes, resume, clocks, row
<1>2. CASE RunStarts
  BY <1>1, <1>2 DEF RunStarts, RowsOK
<1>3. CASE RunClaims
  BY <1>1, <1>3 DEF RunClaims
<1>4. CASE RunStamps
  BY <1>1, <1>4 DEF RunStamps
<1>5. CASE RunFinishes
  BY <1>1, <1>5 DEF RunFinishes
<1>6. CASE RunEnds
  BY <1>1, <1>6 DEF RunEnds
<1> QED
  BY <1>2, <1>3, <1>4, <1>5, <1>6

\* What a pass lets be has a runner, or is within the grace, or within the lease and its grace.
LEMMA LetBeIsWatched ==
  ASSUME AgeInv, WatchInv, Judged, "WAIT" \in Verdicts
  PROVE  /\ ~Claimed => ~NeverStarted
         /\ Claimed /\ run # "running" => ~LeaseLapsed
<1>1. PICK view \in {stamped, FALSE} : Verdict(view) = "WAIT"
  BY DEF Verdicts, AgeInv, RowsOK
<1>2. ~Claimed => ~NeverStarted
  <2>1. ~Claimed => ~stamped /\ status \in {"QUEUED", "DISPATCHING", "DISPATCHED"}
    BY DEF AgeInv, RowsOK, Judged, Active, activeJobStatuses, Claimed
  <2>2. ~Claimed => ~view
    BY <1>1, <2>1
  <2> QED
    BY <1>1, <2>1, <2>2 DEF Verdict, Claimed
<1>3. Claimed /\ run # "running" => ~LeaseLapsed
  <2>1. Claimed /\ run # "running" => run = "completed" /\ conclusion # "WAIT"
    BY ConclusionsEndRuns DEF AgeInv, RowsOK, WatchInv, HoldsOK, Claimed
  <2> QED
    BY <1>1, <2>1 DEF Verdict, Claimed
<1> QED
  BY <1>2, <1>3

\* The cause of a next attempt is a verdict, and no verdict is to have had no cause.
LEMMA VerdictIsCause ==
  ASSUME AgeInv, WatchInv, Judged, NEW code \in Verdicts, code \notin {"WAIT", "CANCELLED"}
  PROVE  code \in Causes /\ code # "NONE"
<1>1. PICK view \in {stamped, FALSE} : code = Verdict(view)
  BY DEF Verdicts, AgeInv, RowsOK
<1>2. view => Claimed
  BY <1>1 DEF AgeInv, RowsOK, Judged, Active, activeJobStatuses, Claimed
<1>3. view /\ run = "completed" => conclusion \in Conclusions
  BY <1>2 DEF WatchInv, HoldsOK
<1>4. code \in Conclusions \cup {"NEVER_DISPATCHED", "NEVER_STARTED", "LEASE_EXPIRED", "HARD_TIMEOUT", "WAIT"}
  BY <1>1, <1>3 DEF Verdict
<1> QED
  BY <1>4, ConclusionsEndRuns DEF Causes

\* A pass leaves nothing due, nor silent beyond its grace.
LEMMA PassWatches == AgeInv /\ WatchInv /\ Pass => WatchInv'
<1> SUFFICES ASSUME AgeInv, WatchInv, Pass PROVE WatchInv'
  OBVIOUS
<1>0. sincePass \in Nat /\ quiet \in Nat /\ RowsOK
  BY DEF AgeInv, ClocksOK
<1>1. CASE PassOverWaiting
  BY <1>0, <1>1 DEF PassOverWaiting, BacksOff, WatchInv, KindsOK, BackoffOK, HoldsOK, NotAlone,
     DueSoon, Claimed,
      QueuedResume, Resumed, Active, row, resume
<1>2. CASE PassDispatches
  <2>1. /\ status' \in {"DISPATCHED", "QUEUED"} /\ run' \in {"none", "pending", "running", "completed"}
        /\ deferred' \in BOOLEAN /\ wait' \in {0, RESUME_BACKOFF_BASE_MINUTES}
        /\ status' = "QUEUED" => wait' = RESUME_BACKOFF_BASE_MINUTES
    BY <1>2 DEF PassDispatches, Dispatch, Accepted, WatchInv, KindsOK
  <2>2. /\ idleFor' = 0 /\ sincePass' = 0 /\ quiet' = 0 /\ heldFor' = heldFor /\ conclusion' = "NONE"
        /\ cause' = cause /\ same' = same /\ delay' = delay
    BY <1>2 DEF PassDispatches
  <2>3. KindsOK' /\ BackoffOK'
    BY <2>1, <2>2 DEF WatchInv, KindsOK, BackoffOK, Resumed, activeJobStatuses
  <2>4. HoldsOK'
    BY <2>1, <2>2 DEF WatchInv, HoldsOK, Claimed, RESUME_BACKOFF_BASE_MINUTES
  <2>5. NotAlone'
    BY <2>1, <2>2 DEF NotAlone, Claimed
  <2>6. DueSoon'
    BY <2>1, <2>2 DEF DueSoon, QueuedResume, RESUME_BACKOFF_BASE_MINUTES
  <2> QED
    BY <2>3, <2>4, <2>5, <2>6 DEF WatchInv
<1>3. CASE PassLetsBe
  <2>1. /\ ~Claimed => quiet <= dispatchGraceMinutes
        /\ Claimed /\ run # "running" => heldFor <= leaseMinutes + leaseGraceMinutes
    BY <1>3, LetBeIsWatched DEF PassLetsBe, NeverStarted, LeaseLapsed, leaseMinutes, LeaseMinutes,
       leaseGraceMinutes,
        WatchInv, HoldsOK, AgeInv, ClocksOK
  <2>2. sincePass' = 0 /\ ~QueuedResume /\ UNCHANGED <<row, wait, age, quiet, heldFor, runFor, idleFor, run, conclusion>>
    BY <1>3 DEF PassLetsBe, Judged
  <2>3. NotAlone'
    <3>1. Claimed => ~LeaseLapsed \/ idleFor = 0
      BY <2>1 DEF LeaseLapsed, leaseMinutes, LeaseMinutes, leaseGraceMinutes, WatchInv, HoldsOK, NotAlone
    <3> QED
      BY <1>0, <2>1, <2>2, <3>1 DEF WatchInv, HoldsOK, NotAlone, Claimed, QueuedResume, Resumed,
         Active,
          LeaseLapsed, leaseMinutes, LeaseMinutes, leaseGraceMinutes, row, resume
  <2> QED
    BY <2>2, <2>3 DEF WatchInv, KindsOK, BackoffOK, HoldsOK, DueSoon, Claimed, QueuedResume,
       Resumed, row, resume
<1>4. CASE PassParks
  BY <1>0, <1>4 DEF PassParks, WatchInv, KindsOK, BackoffOK, HoldsOK, NotAlone, DueSoon,
     Claimed, QueuedResume,
      Resumed, Active, activeJobStatuses, resume
<1>5. CASE PassResumes
  <2>1. PICK code \in Verdicts \ {"WAIT", "CANCELLED"} :
          LET repetitions == consecutiveSameCause(code)
              minutes == resumeDelayMinutes(repetitions)
          IN /\ cause' = code
             /\ same' = repetitions
             /\ delay' = minutes
             /\ IF minutes > 0
                THEN status' = "QUEUED" /\ run' = "none" /\ wait' = minutes /\ deferred' = FALSE
                ELSE Dispatch("none", FALSE)
    BY <1>5 DEF PassResumes
  <2>2. code \in Causes /\ code # "NONE"
    BY <1>5, VerdictIsCause DEF PassResumes
  <2>3. consecutiveSameCause(code) \in 1..MaxSame
    BY MaxSameReachesCeiling DEF consecutiveSameCause, WatchInv, BackoffOK
  <2>4. resumeDelayMinutes(consecutiveSameCause(code)) \in 0..RESUME_BACKOFF_CEILING_MINUTES
    BY <2>3, DelayBounded, MaxSameReachesCeiling
  <2>5. \/ Dispatch("none", FALSE)
        \/ /\ status' = "QUEUED" /\ run' = "none" /\ deferred' = FALSE
           /\ wait' = resumeDelayMinutes(consecutiveSameCause(code))
           /\ resumeDelayMinutes(consecutiveSameCause(code)) > 0
    BY <2>1, Zenon
  <2>6. /\ status' \in {"QUEUED", "DISPATCHED"} /\ run' \in {"none", "pending"}
        /\ wait' \in Int
        /\ status' = "QUEUED" => wait' > 0
    BY <2>4, <2>5 DEF Dispatch, Accepted, RESUME_BACKOFF_BASE_MINUTES,
       RESUME_BACKOFF_CEILING_MINUTES
  <2>7. deferred' \in BOOLEAN
    BY <2>5, Zenon DEF Dispatch
  <2>8. quiet' = 0 /\ heldFor' = 0 /\ idleFor' = 0 /\ sincePass' = 0 /\ conclusion' = "NONE"
    BY <1>5 DEF PassResumes
  <2>9. cause' = code /\ same' = consecutiveSameCause(code) /\ delay' = resumeDelayMinutes(same')
    BY <2>1
  <2>10. KindsOK'
    BY <2>2, <2>6, <2>7, <2>8, <2>9 DEF KindsOK, activeJobStatuses
  <2>11. BackoffOK'
    BY <2>2, <2>3, <2>9 DEF BackoffOK, Resumed
  <2>12. HoldsOK'
    BY <2>6, <2>8 DEF HoldsOK, Claimed
  <2>13. NotAlone'
    BY <2>6, <2>8 DEF NotAlone, Claimed
  <2>14. DueSoon'
    <3>1. PICK w, p : w = wait' /\ p = sincePass'
      OBVIOUS
    <3>2. w \in Int /\ p = 0 /\ (status' = "QUEUED" => w > 0)
      BY <2>6, <2>8, <3>1
    <3>3. status' = "QUEUED" => w + p > 0
      BY <3>2
    <3> QED
      BY <3>1, <3>3, Zenon DEF DueSoon, QueuedResume
  <2> QED
    BY <2>10, <2>11, <2>12, <2>13, <2>14 DEF WatchInv
<1> QED
  BY <1>1, <1>2, <1>3, <1>4, <1>5 DEF Pass

\* WatchInv, with the ages, is an invariant.
LEMMA WatchInductive == Spec => [](AgeInv /\ WatchInv)
<1>1. AgeInv /\ WatchInv /\ [Next]_vars => WatchInv'
  <2> SUFFICES ASSUME AgeInv, WatchInv, [Next]_vars PROVE WatchInv'
    OBVIOUS
  <2>1. CASE Next
    BY <2>1, TickWatches, RunWatches, PassWatches DEF Next
  <2>2. CASE UNCHANGED vars
    BY <2>2 DEF vars, row, resume, clocks, WatchInv, KindsOK, BackoffOK, HoldsOK, NotAlone,
       DueSoon,
                Claimed, QueuedResume, Resumed, Active, LeaseLapsed, leaseMinutes
  <2> QED BY <2>1, <2>2
<1> QED BY <1>1, InitWatch, AgeInductive, PTL DEF Spec

\* Rows and clocks hold what the schema and the rules can put in them.
THEOREM TypeCorrect == Spec => []TypeOK
<1>1. AgeInv /\ WatchInv => TypeOK
  <2> SUFFICES ASSUME AgeInv, WatchInv PROVE TypeOK
    OBVIOUS
  <2>1. delay \in 0..RESUME_BACKOFF_CEILING_MINUTES
    BY DelayBounded, MaxSameReachesCeiling DEF WatchInv, BackoffOK
  <2>2. /\ kind \in Kinds /\ age \in Nat /\ quiet \in Nat /\ heldFor \in Nat /\ runFor \in Nat /\ sincePass \in Nat /\ idleFor \in Nat
        /\ wait \in Int /\ stamped \in BOOLEAN
    BY DEF AgeInv, ClocksOK, RowsOK, WatchInv, HoldsOK
  <2> QED
    BY <2>1, <2>2 DEF TypeOK, WatchInv, KindsOK, BackoffOK
<1> QED BY <1>1, WatchInductive, PTL

\* An attempt that waited is dispatched before it is a whole gap overdue, whatever the
\* step, the gap, and how often GitHub refuses it.
THEOREM DueAttemptsStart == Spec => []DueAttemptStartsSoon
<1>1. AgeInv /\ WatchInv => DueAttemptStartsSoon
  BY DEF AgeInv, ClocksOK, WatchInv, HoldsOK, DueSoon, DueAttemptStartsSoon
<1> QED BY <1>1, WatchInductive, PTL

\* Work is left alone for lease, grace and a gap at most, whoever went away and whether
\* or not GitHub answers.
THEOREM StallsAreNoticed == Spec => []StallNoticedSoon
<1>1. AgeInv /\ WatchInv => StallNoticedSoon
  <2> SUFFICES ASSUME AgeInv, WatchInv, Active PROVE idleFor <= leaseMinutes + leaseGraceMinutes + PassGap
    BY DEF StallNoticedSoon
  <2>1. /\ sincePass \in 0..PassGap /\ quiet \in Nat /\ idleFor \in Nat
    BY DEF AgeInv, ClocksOK, WatchInv, HoldsOK
  <2>2. \/ idleFor <= sincePass
        \/ idleFor <= quiet /\ quiet <= dispatchGraceMinutes + sincePass
        \/ idleFor <= leaseMinutes + leaseGraceMinutes + sincePass
    BY DEF WatchInv, NotAlone
  <2> QED
    BY <2>1, <2>2 DEF leaseMinutes, LeaseMinutes, leaseGraceMinutes
<1> QED BY <1>1, WatchInductive, PTL

\* The delay starts anew with a new cause and doubles with each repetition, up to the
\* ceiling.
THEOREM DelaysDouble == Spec => BackoffDoubles
<1>1. AgeInv /\ WatchInv /\ [Next]_vars =>
        [PassResumes =>
           delay' = IF cause' # cause THEN 0
                    ELSE IF delay = 0 THEN RESUME_BACKOFF_BASE_MINUTES
                    ELSE IF 2 * delay > RESUME_BACKOFF_CEILING_MINUTES
                    THEN RESUME_BACKOFF_CEILING_MINUTES ELSE 2 * delay]_vars
  <2> SUFFICES ASSUME AgeInv, WatchInv, PassResumes
               PROVE  delay' = IF cause' # cause THEN 0
                               ELSE IF delay = 0 THEN RESUME_BACKOFF_BASE_MINUTES
                               ELSE IF 2 * delay > RESUME_BACKOFF_CEILING_MINUTES
                               THEN RESUME_BACKOFF_CEILING_MINUTES ELSE 2 * delay
    OBVIOUS
  <2>1. PICK code \in Verdicts \ {"WAIT", "CANCELLED"} :
          cause' = code /\ delay' = resumeDelayMinutes(consecutiveSameCause(code))
    BY DEF PassResumes
  <2>2. code # "NONE"
    BY <2>1, VerdictIsCause DEF PassResumes
  <2>3. same \in 0..MaxSame /\ delay = resumeDelayMinutes(same) /\ MaxSame \in Nat /\ MaxSame > 1
    BY MaxSameReachesCeiling DEF WatchInv, BackoffOK
  <2>4. resumeDelayMinutes(0) = 0 /\ resumeDelayMinutes(1) = 0
    BY DEF resumeDelayMinutes
  <2>5. CASE code # cause
    BY <2>1, <2>4, <2>5 DEF consecutiveSameCause
  <2>6. CASE code = cause
    <3>1. same > 0
      BY <2>2, <2>6 DEF WatchInv, BackoffOK, Resumed
    <3>2. CASE same = 1
      <4>1. delay' = resumeDelayMinutes(2) /\ delay = 0
        BY <2>1, <2>3, <2>4, <2>6, <3>2 DEF consecutiveSameCause
      <4>2. resumeDelayMinutes(2) = RESUME_BACKOFF_BASE_MINUTES
        BY DEF resumeDelayMinutes, Capped, RESUME_BACKOFF_BASE_MINUTES,
           RESUME_BACKOFF_CEILING_MINUTES
      <4> QED
        BY <2>1, <2>6, <4>1, <4>2
    <3>3. CASE same > 1 /\ same < MaxSame
      <4>1. delay' = resumeDelayMinutes(same + 1)
        BY <2>1, <2>3, <2>6, <3>3 DEF consecutiveSameCause
      <4>2. delay \in 0..RESUME_BACKOFF_CEILING_MINUTES /\ delay > 0 /\ delay' = Doubled(delay)
        BY <2>3, <3>3, <4>1, DelayDoubles, DelayBounded
      <4> QED
        BY <2>1, <2>6, <4>2 DEF Doubled, Capped, RESUME_BACKOFF_CEILING_MINUTES
    <3>4. CASE same = MaxSame
      <4>1. delay' = resumeDelayMinutes(MaxSame) /\ delay = resumeDelayMinutes(MaxSame)
        BY <2>1, <2>3, <2>6, <3>4 DEF consecutiveSameCause
      <4> QED
        BY <2>1, <2>6, <4>1, DelayAtMost DEF RESUME_BACKOFF_CEILING_MINUTES
    <3> QED
      BY <2>3, <3>1, <3>2, <3>3, <3>4
  <2> QED
    BY <2>5, <2>6
<1> QED BY <1>1, WatchInductive, PTL DEF Spec, BackoffDoubles
=============================================================================
