--------------------- MODULE CanonicalRepository_proofs ---------------------
(***************************************************************************)
(* The canonical repository of a project, for any number of requests,      *)
(* operations, repositories and names, any interleaving and any process    *)
(* that dies: the bindings form one line, which implements the register    *)
(* the callers are promised; a binding moves only over what its caller     *)
(* pinned; what was answered as done is there.                             *)
(*                                                                         *)
(* None of these is inductive.  Inv adds what a request carries from step  *)
(* to step: the row it read is still a row, a promotion past its judgement *)
(* has read what it pinned, and a request past its confirmation has a row  *)
(* and a report.  It is kept because rows, reports and the provider's      *)
(* redirects are never taken away (Grows).  KeepInv adds, for renames that *)
(* claim distinct names, that every name on its way into a registration    *)
(* leads to the repository registered, or is free to be made to.           *)
(***************************************************************************)
EXTENDS CanonicalRepository, TLAPS

Sight == [row : Nat, pending : BOOLEAN, name : Names \cup {"none"}, status : {"ACTIVE", "DISABLED"},
          other : Names \cup {"none"}, otherStatus : {"ACTIVE", "DISABLED"},
          project : Repositories \cup {NoRepository}, head : Nat,
          repository : Repositories \cup {NoRepository}, passed : BOOLEAN]
Request == [phase : Phases, pinHead : Nat, pinVersion : Nat, pinName : Names \cup {"none"},
            seen : Sight]

\* The provider leads from a name to a repository.
Held(n) == n \in Names /\ holder[n] \in Repositories

HasRow(o) == \E i \in DOMAIN bindings : bindings[i].op = o
HasReport(o) == call[o].tool \in DOMAIN ReportKind =>
                  \E a \in artifacts : a.kind = ReportKind[call[o].tool] /\ a.op = o
Effected(o) == (call[o].tool \in {"promote", "rollback"} => HasRow(o)) /\ HasReport(o)

\* What a request with the record r relies on from one of its steps to the next.
Carries(q, r) ==
    LET phase == r.phase
        seen == r.seen
    IN  /\ phase \notin Over \cup {"idle"} => Op(q) \in DOMAIN call
        /\ phase \in {"read", "judged", "ready"} => seen.row <= Len(bindings) /\ Held(seen.name)
        /\ phase \in {"read", "ready"} /\ Tool(q) \in Transfers => Held(seen.other)
        /\ phase = "judged" => Tool(q) = "promote"
        /\ phase \in {"judged", "ready"} /\ Tool(q) = "promote" =>
             /\ seen.repository \in Repositories
             /\ seen.row = r.pinVersion
             /\ seen.head = r.pinHead
        /\ phase = "ready" /\ Tool(q) = "rollback" => seen.row = r.pinVersion /\ seen.row > 1
        /\ phase = "ready" /\ Tool(q) = "rename" => seen.repository \in Repositories
        /\ phase = "renamed" => Tool(q) = "rename" /\ seen.repository \in Repositories
        /\ phase \in {"identified", "repointed"} => Tool(q) = "rename" /\ Held(Call(q).other)
        /\ phase = "confirmed" /\ Tool(q) \in {"promote", "rollback"} => HasRow(Op(q))
        /\ phase \in {"reported", "done", "replayed"} => Effected(Op(q))

\* Registrations lead somewhere, a dispatched transfer has two ends, what is saved took effect.
Rows ==
    /\ \A r \in Repositories : Held(registered[r])
    /\ transfers \subseteq [op : Operations, from : Repositories, to : Repositories]
    /\ \A o \in saved : Effected(o)

Inv ==
    /\ TypeOK
    /\ OneLineOfBindings
    /\ req \in [Requests -> Request]
    /\ Rows
    /\ \A q \in Requests : Carries(q, req[q])

\* Rows, reports and redirects are only added.
Grows ==
    /\ call' = call
    /\ \A n \in Names : holder[n] \in Repositories => holder'[n] \in Repositories
    /\ Len(bindings) <= Len(bindings')
    /\ \A i \in DOMAIN bindings : i \in DOMAIN bindings' /\ bindings'[i].op = bindings[i].op
    /\ artifacts \subseteq artifacts'

\* Only the one request moves.
Moves(q) == req' \in [Requests -> Request] /\ \A p \in Requests \ {q} : req'[p] = req[p]

-----------------------------------------------------------------------------
(***************************************************************************)
(* Lemmas                                                                  *)
(***************************************************************************)

\* What an operation in use asks for.
LEMMA CallType ==
    ASSUME TypeOK, NEW q \in Requests, Op(q) \in DOMAIN call
    PROVE  /\ Tool(q) \in {"promote", "rollback", "rename", "export", "verify",
                           "disable", "repoint", "handover"}
           /\ Call(q).resource \in Repositories
           /\ Tool(q) = "rename" => Call(q).other \in Names
           /\ Tool(q) \in Transfers => Call(q).other \in Repositories
<1>1. call \in [DOMAIN call -> Calls]
  BY ConstantsAssumption DEF TypeOK
<1>2. Call(q) \in Calls
  BY <1>1 DEF Call
<1> QED
  BY <1>2, ConstantsAssumption DEF Tool, Transfers

\* On one line, the ACTIVE row is the last.
LEMMA ActiveIsLast ==
    ASSUME TypeOK, OneLineOfBindings
    PROVE  /\ ActiveRow = Len(bindings)
           /\ VersionAt(ActiveRow) = Len(bindings)
           /\ Len(bindings) \in Nat /\ DOMAIN bindings = 1..Len(bindings)
<1>1. Len(bindings) \in Nat /\ DOMAIN bindings = 1..Len(bindings)
  BY DEF TypeOK
<1>2. CASE Len(bindings) = 0
  <2>1. ActiveRows = {}
    BY <1>1, <1>2 DEF ActiveRows
  <2> QED
    BY <1>1, <1>2, <2>1 DEF ActiveRow, VersionAt
<1>3. CASE Len(bindings) # 0
  <2>1. ActiveRows = {Len(bindings)}
    BY <1>1, <1>3 DEF ActiveRows, OneLineOfBindings
  <2>2. ActiveRow = Len(bindings)
    BY <2>1 DEF ActiveRow
  <2> QED
    BY <1>1, <1>3, <2>2 DEF VersionAt, OneLineOfBindings
<1> QED
  BY <1>2, <1>3

\* The version of any row a request has read.
LEMMA VersionIsRow ==
    ASSUME TypeOK, OneLineOfBindings, NEW row \in Nat, row <= Len(bindings)
    PROVE  VersionAt(row) = row /\ RestoredBy(row) = IF row = 0 THEN 0 ELSE row - 1
  BY ActiveIsLast DEF VersionAt, RestoredBy, OneLineOfBindings

\* A request that goes to a phase keeps what it read, unless it is over.
LEMMA GotoMoves ==
    ASSUME req \in [Requests -> Request], NEW q \in Requests, NEW phase \in Phases, Goto(q, phase)
    PROVE  /\ Moves(q)
           /\ req'[q].phase = phase
           /\ phase \notin Over =>
                /\ req'[q].seen = req[q].seen
                /\ req'[q].pinHead = req[q].pinHead
                /\ req'[q].pinVersion = req[q].pinVersion
                /\ req'[q].pinName = req[q].pinName
<1>1. Idle \in Request
  BY DEF Idle, Request, NoSight, Sight, Phases, Over
<1>2. [Idle EXCEPT !.phase = phase] \in Request
  BY <1>1 DEF Request
<1>3. req[q] \in Request /\ [req[q] EXCEPT !.phase = phase] \in Request
  BY DEF Request
<1>4. [Idle EXCEPT !.phase = phase].phase = phase
  BY DEF Idle
<1>5. [req[q] EXCEPT !.phase = phase].phase = phase
  BY <1>3 DEF Request
<1>6. CASE phase \in Over
  BY <1>2, <1>4, <1>6 DEF Goto, Moves
<1>7. CASE phase \notin Over
  BY <1>3, <1>5, <1>7 DEF Goto, Moves, Request
<1> QED
  BY <1>6, <1>7

\* What a name, a row or a report gives is never taken away.
LEMMA HeldStays == ASSUME Grows, NEW n, Held(n) PROVE Held(n)'
  BY DEF Grows, Held

LEMMA RowStays == ASSUME Grows, NEW o, HasRow(o) PROVE HasRow(o)'
  BY DEF Grows, HasRow

LEMMA EffectStays == ASSUME Grows, NEW o, Effected(o) PROVE Effected(o)'
<1>1. HasRow(o) => HasRow(o)'
  BY RowStays
<1>2. call'[o].tool = call[o].tool
  BY DEF Grows
<1>3. HasReport(o)'
  BY <1>2 DEF Grows, Effected, HasReport, ReportKind
<1> QED
  BY <1>1, <1>2, <1>3 DEF Effected

\* What a request carries outlasts every growth.
LEMMA CarriedOn ==
    ASSUME Inv, Grows, NEW p \in Requests, NEW r \in Request, Carries(p, r), req'[p] = r
    PROVE  Carries(p, req[p])'
<1>1. Len(bindings) \in Nat /\ Len(bindings') \in Nat
  BY ActiveIsLast DEF Inv, Grows
<1>2. Tool(p)' = Tool(p) /\ Call(p)' = Call(p) /\ (Op(p) \in DOMAIN call)' = (Op(p) \in DOMAIN call)
  BY DEF Grows, Tool, Call, Op
<1>3. HasRow(Op(p)) => HasRow(Op(p))'
  BY RowStays DEF Op
<1>4. Effected(Op(p)) => Effected(Op(p))'
  BY EffectStays DEF Op
<1>5. \A n : Held(n) => n \in Names /\ holder'[n] \in Repositories
  BY DEF Grows, Held
<1>6. Len(bindings) <= Len(bindings')
  BY DEF Grows
<1> QED
  BY <1>1, <1>2, <1>3, <1>4, <1>5, <1>6 DEF Carries, Held, Request, Sight

\* A step that adds rows, reports and redirects only, and keeps its own request sound, is sound.
LEMMA SoundStep ==
    ASSUME Inv, NEW q \in Requests, Grows, Moves(q),
           TypeOK', OneLineOfBindings', Rows', Carries(q, req[q])'
    PROVE  Inv'
<1>1. ASSUME NEW p \in Requests, p # q PROVE Carries(p, req[p])'
  <2>1. req'[p] = req[p] /\ req[p] \in Request /\ Carries(p, req[p])
    BY <1>1 DEF Moves, Inv
  <2> QED
    BY <2>1, CarriedOn
<1> QED
  BY <1>1 DEF Inv, Moves

\* Most steps read: they move their own request and nothing else.
LEMMA ReadingStep ==
    ASSUME Inv, NEW q \in Requests, UNCHANGED <<registry, provider, call>>, Moves(q),
           Carries(q, req'[q])
    PROVE  Inv'
<1> USE DEF registry, provider
<1>1. Grows
  BY ActiveIsLast DEF Inv, Grows
<1>2. TypeOK'
  BY DEF Inv, TypeOK, Moves, Request
<1>3. OneLineOfBindings'
  BY DEF Inv, OneLineOfBindings
<1>4. Rows'
  BY EffectStays, <1>1 DEF Inv, Rows, Held
<1>5. Carries(q, req[q])'
  BY <1>1, CarriedOn DEF Moves
<1> QED
  BY <1>1, <1>2, <1>3, <1>4, <1>5, SoundStep

\* A request that is refused, or dies, relies on nothing.
LEMMA EndedStep ==
    ASSUME Inv, NEW q \in Requests, UNCHANGED <<registry, provider, call>>,
           NEW phase \in {"refused", "dead"}, Goto(q, phase)
    PROVE  Inv'
<1>1. phase \in Phases /\ phase \in Over
  BY DEF Phases, Over
<1>2. Moves(q) /\ req'[q].phase = phase
  BY <1>1, GotoMoves DEF Inv
<1>3. Carries(q, req'[q])
  BY <1>1, <1>2 DEF Carries
<1> QED
  BY <1>2, <1>3, ReadingStep

-----------------------------------------------------------------------------
(***************************************************************************)
(* The steps that read                                                     *)
(***************************************************************************)

LEMMA PinSound == ASSUME Inv, NEW q \in Requests, Pin(q) PROVE Inv'
<1>1. Call(q).resource \in Repositories
  BY CallType DEF Inv, Pin
<1>2. head[Call(q).resource] \in Nat /\ registered[Call(q).resource] \in Names
  BY <1>1 DEF Inv, TypeOK
<1>3. VersionAt(ActiveRow) \in Nat
  BY ActiveIsLast DEF Inv
<1>4. req[q] \in Request
  BY DEF Inv
<1>5. Moves(q)
  BY <1>2, <1>3, <1>4 DEF Inv, Pin, Moves, Request, Phases
<1>6. req'[q].phase = "sent"
  BY <1>4 DEF Inv, Pin, Request
<1>7. Carries(q, req'[q])
  BY <1>6 DEF Carries, Pin, Over
<1> QED
  BY <1>5, <1>7, ReadingStep DEF Pin

LEMMA LookupSound == ASSUME Inv, NEW q \in Requests, Lookup(q) PROVE Inv'
<1>1. CASE Op(q) \in saved
  <2>1. Moves(q) /\ req'[q].phase = "replayed"
    BY <1>1, GotoMoves DEF Inv, Lookup, Phases, Over
  <2>2. Effected(Op(q))
    BY <1>1 DEF Inv, Rows
  <2>3. Carries(q, req'[q])
    BY <2>1, <2>2 DEF Carries, Over
  <2> QED
    BY <2>1, <2>3, ReadingStep DEF Lookup
<1>2. CASE Op(q) \notin saved
  <2>1. Moves(q) /\ req'[q].phase = "open"
    BY <1>2, GotoMoves DEF Inv, Lookup, Phases, Over
  <2>2. Op(q) \in DOMAIN call
    BY DEF Inv, Lookup, Carries, Over
  <2>3. Carries(q, req'[q])
    BY <2>1, <2>2 DEF Carries, Over
  <2> QED
    BY <2>1, <2>3, ReadingStep DEF Lookup
<1> QED
  BY <1>1, <1>2

\* A rollback is about a resource of the project's line.
LEMMA SubjectIsResource ==
    ASSUME Inv, NEW q \in Requests, Op(q) \in DOMAIN call
    PROVE  Subject(q) \in Repositories
<1>1. Call(q).resource \in Repositories
  BY CallType DEF Inv
<1>2. ASSUME RestoredBy(ActiveRow) # 0
      PROVE  bindings[RestoredBy(ActiveRow)].resource \in Repositories
  <2>1. RestoredBy(ActiveRow) = Len(bindings) - 1 /\ Len(bindings) \in Nat /\ Len(bindings) # 0
    BY <1>2, ActiveIsLast, VersionIsRow DEF Inv
  <2>2. RestoredBy(ActiveRow) \in DOMAIN bindings
    BY <1>2, <2>1, ActiveIsLast DEF Inv
  <2>3. bindings[RestoredBy(ActiveRow)] \in Binding
    BY <2>2 DEF Inv, TypeOK
  <2> QED
    BY <2>3 DEF Binding
<1> QED
  BY <1>1, <1>2 DEF Subject

LEMMA ReadRegistrySound == ASSUME Inv, NEW q \in Requests, ReadRegistry(q) PROVE Inv'
<1>1. Op(q) \in DOMAIN call
  BY DEF Inv, ReadRegistry, Carries, Over
<1>2. Subject(q) \in Repositories
  BY <1>1, SubjectIsResource
<1>3. Tool(q) \in Transfers => Call(q).other \in Repositories
  BY <1>1, CallType DEF Inv
<1>4. ActiveRow = Len(bindings) /\ Len(bindings) \in Nat
  BY ActiveIsLast DEF Inv
<1> DEFINE seen == [NoSight EXCEPT
                      !.row = ActiveRow,
                      !.pending = UnfinishedExport,
                      !.name = registered[Subject(q)],
                      !.status = status[Subject(q)],
                      !.other = IF Tool(q) \in Transfers THEN registered[Call(q).other] ELSE "none",
                      !.otherStatus = IF Tool(q) \in Transfers THEN status[Call(q).other] ELSE "ACTIVE",
                      !.project = project.resource]
<1>5. /\ registered[Subject(q)] \in Names /\ Held(registered[Subject(q)])
      /\ status[Subject(q)] \in {"ACTIVE", "DISABLED"}
      /\ project.resource \in Repositories
      /\ Tool(q) \in Transfers => /\ registered[Call(q).other] \in Names
                                  /\ Held(registered[Call(q).other])
                                  /\ status[Call(q).other] \in {"ACTIVE", "DISABLED"}
  BY <1>2, <1>3 DEF Inv, TypeOK, Rows
<1>6. UnfinishedExport \in BOOLEAN
  BY DEF UnfinishedExport
<1>7. seen \in Sight
  BY <1>4, <1>5, <1>6 DEF NoSight, Sight
<1>8. /\ seen.row = Len(bindings) /\ seen.name = registered[Subject(q)]
      /\ Tool(q) \in Transfers => seen.other = registered[Call(q).other]
  BY <1>4 DEF NoSight
<1> HIDE DEF seen
<1>9. req' = [req EXCEPT ![q].phase = "read", ![q].seen = seen]
  BY DEF ReadRegistry, seen
<1>10. Moves(q) /\ req'[q].phase = "read" /\ req'[q].seen = seen
  BY <1>7, <1>9 DEF Inv, Moves, Request, Phases
<1>11. Carries(q, req'[q])
  BY <1>1, <1>4, <1>5, <1>8, <1>10 DEF Carries
<1> QED
  BY <1>10, <1>11, ReadingStep DEF ReadRegistry

LEMMA RefuseUnreadableSound == ASSUME Inv, NEW q \in Requests, RefuseUnreadable(q) PROVE Inv'
  BY EndedStep DEF RefuseUnreadable, Refuse

LEMMA DieSound == ASSUME Inv, NEW q \in Requests, Die(q) PROVE Inv'
  BY EndedStep DEF Die

\* A request that adds what the provider showed it goes on as a request.
LEMMA ReadingMoves ==
    ASSUME req \in [Requests -> Request], NEW q \in Requests, NEW phase \in Phases, NEW s \in Sight,
           req' = [req EXCEPT ![q] = [req[q] EXCEPT !.phase = phase, !.seen = s]]
    PROVE  Moves(q) /\ req'[q].phase = phase /\ req'[q].seen = s
<1>1. req[q] \in Request
  OBVIOUS
<1>2. [req[q] EXCEPT !.phase = phase, !.seen = s] \in Request
  BY <1>1 DEF Request
<1> QED
  BY <1>1, <1>2 DEF Moves, Request

\* The provider's name table leads from a name that is held to a repository with a head.
LEMMA DescribedType ==
    ASSUME Inv, NEW n, Held(n)
    PROVE  Described(n) \in Repositories /\ head[Described(n)] \in Nat
  BY DEF Inv, TypeOK, Held, Described

LEMMA JudgePromotionSound == ASSUME Inv, NEW q \in Requests, JudgePromotion(q) PROVE Inv'
<1> DEFINE seen == req[q].seen
           judged == PromotionBlockers(q) = {} /\ PlanIsCurrent(q)
<1>1. CASE judged
  <2>1. /\ req[q] \in Request /\ seen \in Sight /\ seen.row \in Nat
        /\ Op(q) \in DOMAIN call
        /\ seen.row <= Len(bindings) /\ Held(seen.name)
    BY DEF Inv, JudgePromotion, Carries, Request, Sight, Over
  <2>2. Described(seen.name) \in Repositories /\ head[Described(seen.name)] \in Nat
    BY <2>1, DescribedType
  <2>3. seen.row = req[q].pinVersion
    BY <1>1, <2>1, VersionIsRow DEF Inv, PlanIsCurrent
  <2>4. head[Described(seen.name)] = req[q].pinHead
    BY <1>1 DEF PlanIsCurrent
  <2>5. req' = [req EXCEPT ![q].phase = "judged", ![q].seen.head = head[Described(seen.name)],
                           ![q].seen.repository = Described(seen.name)]
    BY <1>1 DEF JudgePromotion
  <2>6. Moves(q)
    <3> DEFINE shown == [seen EXCEPT !.head = head[Described(seen.name)],
                                     !.repository = Described(seen.name)]
    <3>1. shown \in Sight /\ "judged" \in Phases
      BY <2>1, <2>2 DEF Sight, Phases
    <3>2. req' = [req EXCEPT ![q] = [req[q] EXCEPT !.phase = "judged", !.seen = shown]]
      BY <2>1, <2>5 DEF Inv, Request, Sight
    <3> QED
      BY <3>1, <3>2, ReadingMoves DEF Inv
  <2>7. /\ req'[q].phase = "judged" /\ req'[q].seen.row = seen.row /\ req'[q].seen.name = seen.name
        /\ req'[q].seen.head = head[Described(seen.name)]
        /\ req'[q].seen.repository = Described(seen.name)
        /\ req'[q].pinVersion = req[q].pinVersion /\ req'[q].pinHead = req[q].pinHead
    BY <2>1, <2>5 DEF Inv, Request, Sight
  <2>8. Carries(q, req'[q])
    BY <2>1, <2>2, <2>3, <2>4, <2>7 DEF Carries, JudgePromotion
  <2> QED
    BY <2>6, <2>8, ReadingStep DEF JudgePromotion
<1>2. CASE ~judged
  BY <1>2, EndedStep DEF JudgePromotion
<1> QED
  BY <1>1, <1>2

LEMMA IdentifySound == ASSUME Inv, NEW q \in Requests, Identify(q) PROVE Inv'
<1> DEFINE seen == req[q].seen
<1>1. CASE status[Call(q).resource] = "ACTIVE"
  <2>1. /\ req[q] \in Request /\ seen \in Sight
        /\ Op(q) \in DOMAIN call /\ Carries(q, req[q])
    BY DEF Inv, Identify, Carries, Request, Over
  <2>2. Call(q).resource \in Repositories
    BY <2>1, CallType DEF Inv
  <2>3. registered[Call(q).resource] \in Names /\ Held(registered[Call(q).resource])
    BY <2>2 DEF Inv, TypeOK, Rows
  <2>4. req' = [req EXCEPT ![q].phase = "ready", ![q].seen.name = registered[Call(q).resource]]
    BY <1>1 DEF Identify
  <2>5. Moves(q)
    BY <2>1, <2>3, <2>4 DEF Inv, Moves, Request, Sight, Phases
  <2>6. /\ req'[q].phase = "ready" /\ req'[q].seen.row = seen.row
        /\ req'[q].seen.name = registered[Call(q).resource]
        /\ req'[q].seen.head = seen.head
        /\ req'[q].seen.repository = seen.repository
        /\ req'[q].pinVersion = req[q].pinVersion /\ req'[q].pinHead = req[q].pinHead
    BY <2>1, <2>4 DEF Inv, Request, Sight
  <2>7. Carries(q, req'[q])
    BY <2>1, <2>3, <2>6 DEF Carries, Identify, Transfers
  <2> QED
    BY <2>5, <2>7, ReadingStep DEF Identify
<1>2. CASE status[Call(q).resource] # "ACTIVE"
  BY <1>2, EndedStep DEF Identify
<1> QED
  BY <1>1, <1>2

LEMMA JudgeRollbackSound == ASSUME Inv, NEW q \in Requests, JudgeRollback(q) PROVE Inv'
<1> DEFINE seen == req[q].seen
           judged == /\ seen.row # 0 /\ VersionAt(seen.row) = req[q].pinVersion
                     /\ RestoredBy(seen.row) # 0 /\ seen.status = "ACTIVE"
<1>1. CASE judged
  <2>1. /\ req[q] \in Request /\ seen \in Sight /\ seen.row \in Nat
        /\ Carries(q, req[q]) /\ seen.row <= Len(bindings)
    BY DEF Inv, JudgeRollback, Carries, Request, Sight
  <2>2. seen.row = req[q].pinVersion /\ seen.row > 1
    BY <1>1, <2>1, VersionIsRow DEF Inv
  <2>3. Goto(q, "ready") /\ "ready" \in Phases /\ "ready" \notin Over
    BY <1>1 DEF JudgeRollback, Phases, Over
  <2>4. /\ Moves(q) /\ req'[q].phase = "ready" /\ req'[q].seen = seen
        /\ req'[q].pinVersion = req[q].pinVersion /\ req'[q].pinHead = req[q].pinHead
    BY <2>3, GotoMoves DEF Inv
  <2>5. Carries(q, req'[q])
    BY <2>1, <2>2, <2>4 DEF Carries, JudgeRollback, Over
  <2> QED
    BY <2>4, <2>5, ReadingStep DEF JudgeRollback
<1>2. CASE ~judged
  BY <1>2, EndedStep DEF JudgeRollback
<1> QED
  BY <1>1, <1>2

LEMMA ReadBackSound == ASSUME Inv, NEW q \in Requests, ReadBack(q) PROVE Inv'
<1>1. CASE ActiveRow # 0 /\ bindings[ActiveRow].op = Op(q)
  <2>1. HasRow(Op(q))
    BY <1>1, ActiveIsLast DEF Inv, HasRow
  <2>2. Goto(q, "confirmed") /\ "confirmed" \in Phases /\ "confirmed" \notin Over
    BY <1>1 DEF ReadBack, Phases, Over
  <2>3. Moves(q) /\ req'[q].phase = "confirmed"
    BY <2>2, GotoMoves DEF Inv
  <2>4. Op(q) \in DOMAIN call
    BY DEF Inv, ReadBack, Carries, Over
  <2>5. Carries(q, req'[q])
    BY <2>1, <2>3, <2>4 DEF Carries
  <2> QED
    BY <2>3, <2>5, ReadingStep DEF ReadBack
<1>2. CASE ~(ActiveRow # 0 /\ bindings[ActiveRow].op = Op(q))
  BY <1>2, EndedStep DEF ReadBack
<1> QED
  BY <1>1, <1>2

LEMMA JudgeRenameSound == ASSUME Inv, NEW q \in Requests, JudgeRename(q) PROVE Inv'
<1> DEFINE seen == req[q].seen
           judged == /\ seen.name = req[q].pinName
                     /\ seen.status = "ACTIVE"
                     /\ Call(q).other # seen.name
                     /\ IdentityMatches(seen.name)
                     /\ head[Described(seen.name)] # 0
                     /\ holder[Call(q).other] = NoRepository
                     /\ ResourceAt(seen.row) # Call(q).resource
                     /\ head[Described(seen.name)] = req[q].pinHead
<1>1. CASE judged
  <2>1. /\ req[q] \in Request /\ seen \in Sight
        /\ Carries(q, req[q]) /\ Held(seen.name)
    BY DEF Inv, JudgeRename, Carries, Request
  <2>2. Described(seen.name) \in Repositories /\ head[Described(seen.name)] \in Nat
    BY <2>1, DescribedType
  <2>3. req' = [req EXCEPT ![q].phase = "ready", ![q].seen.head = head[Described(seen.name)],
                           ![q].seen.repository = Described(seen.name)]
    BY <1>1 DEF JudgeRename
  <2>4. Moves(q)
    <3> DEFINE shown == [seen EXCEPT !.head = head[Described(seen.name)],
                                     !.repository = Described(seen.name)]
    <3>1. shown \in Sight /\ "ready" \in Phases
      BY <2>1, <2>2 DEF Sight, Phases
    <3>2. req' = [req EXCEPT ![q] = [req[q] EXCEPT !.phase = "ready", !.seen = shown]]
      BY <2>1, <2>3 DEF Inv, Request, Sight
    <3> QED
      BY <3>1, <3>2, ReadingMoves DEF Inv
  <2>5. /\ req'[q].phase = "ready" /\ req'[q].seen.row = seen.row /\ req'[q].seen.name = seen.name
        /\ req'[q].seen.repository = Described(seen.name)
    BY <2>1, <2>3 DEF Inv, Request, Sight
  <2>6. Carries(q, req'[q])
    BY <2>1, <2>2, <2>5 DEF Carries, JudgeRename, Transfers, Over
  <2> QED
    BY <2>4, <2>6, ReadingStep DEF JudgeRename
<1>2. CASE ~judged
  BY <1>2, EndedStep DEF JudgeRename
<1> QED
  BY <1>1, <1>2

LEMMA CheckIdentitySound == ASSUME Inv, NEW q \in Requests, CheckIdentity(q) PROVE Inv'
<1> DEFINE after == Described(Call(q).other)
           same == /\ after = req[q].seen.repository
                   /\ head[after] = req[q].seen.head
                   /\ fullName[after] = Call(q).other
<1>1. CASE same
  <2>1. Carries(q, req[q]) /\ Op(q) \in DOMAIN call /\ Tool(q) = "rename"
        /\ req[q].seen.repository \in Repositories
    BY DEF Inv, CheckIdentity, Carries, Over
  <2>2. Held(Call(q).other)
    BY <1>1, <2>1, CallType DEF Inv, Held, Described
  <2>3. Goto(q, "identified") /\ "identified" \in Phases
    BY <1>1 DEF CheckIdentity, Phases
  <2>4. Moves(q) /\ req'[q].phase = "identified"
    BY <2>3, GotoMoves DEF Inv
  <2>5. Carries(q, req'[q])
    BY <2>1, <2>2, <2>4 DEF Carries
  <2> QED
    BY <2>4, <2>5, ReadingStep DEF CheckIdentity
<1>2. CASE ~same
  BY <1>2, EndedStep DEF CheckIdentity
<1> QED
  BY <1>1, <1>2

LEMMA JudgeExportSound == ASSUME Inv, NEW q \in Requests, JudgeExport(q) PROVE Inv'
<1> DEFINE seen == req[q].seen
           judged == /\ Call(q).resource # Call(q).other
                     /\ seen.status = "ACTIVE" /\ seen.otherStatus = "ACTIVE"
                     /\ head[Described(seen.name)] # 0
                     /\ head[Described(seen.other)] = 0
                     /\ head[Described(seen.name)] = req[q].pinHead
<1>1. CASE judged
  <2>1. Carries(q, req[q]) /\ Op(q) \in DOMAIN call
    BY DEF Inv, JudgeExport, Carries, Over
  <2>2. Goto(q, "ready") /\ "ready" \in Phases /\ "ready" \notin Over
    BY <1>1 DEF JudgeExport, Phases, Over
  <2>3. Moves(q) /\ req'[q].phase = "ready" /\ req'[q].seen = seen
    BY <2>2, GotoMoves DEF Inv
  <2>4. Carries(q, req'[q])
    BY <2>1, <2>3 DEF Carries, JudgeExport
  <2> QED
    BY <2>3, <2>4, ReadingStep DEF JudgeExport
<1>2. CASE ~judged
  BY <1>2, EndedStep DEF JudgeExport
<1> QED
  BY <1>1, <1>2

LEMMA RecordVerdictSound == ASSUME Inv, NEW q \in Requests, RecordVerdict(q) PROVE Inv'
<1> DEFINE passed == IF Tool(q) = "verify" THEN TransferProved(q) ELSE req[q].seen.row # 0
<1>1. passed \in BOOLEAN
  BY DEF TransferProved, IdentityMatches
<1>2. req[q] \in Request /\ req[q].seen \in Sight /\ Op(q) \in DOMAIN call
  BY DEF Inv, RecordVerdict, Carries, Request, Over
<1>3. req' = [req EXCEPT ![q].phase = "confirmed", ![q].seen.passed = passed]
  BY DEF RecordVerdict
<1> HIDE DEF passed
<1>4. Moves(q) /\ req'[q].phase = "confirmed"
  <2> DEFINE judged == [req[q].seen EXCEPT !.passed = passed]
  <2>1. judged \in Sight
    BY <1>1, <1>2 DEF Sight
  <2>2. "confirmed" \in Phases
    BY DEF Phases
  <2>3. req' = [req EXCEPT ![q] = [req[q] EXCEPT !.phase = "confirmed", !.seen = judged]]
    BY <1>2, <1>3 DEF Inv, Request, Sight
  <2> QED
    BY <2>1, <2>2, <2>3, ReadingMoves DEF Inv
<1>5. Carries(q, req'[q])
  BY <1>2, <1>4 DEF Carries, RecordVerdict
<1> QED
  BY <1>4, <1>5, ReadingStep DEF RecordVerdict

-----------------------------------------------------------------------------
(***************************************************************************)
(* The steps that write                                                    *)
(***************************************************************************)

\* A step that leaves the bindings alone keeps their line.
LEMMA LineStays == ASSUME OneLineOfBindings, bindings' = bindings PROVE OneLineOfBindings'
  BY DEF OneLineOfBindings

\* A step that leaves bindings, names, reports and calls alone takes nothing away.
LEMMA NothingTaken ==
    ASSUME Inv, call' = call, bindings' = bindings, artifacts' = artifacts, holder' = holder
    PROVE  Grows
  BY ActiveIsLast DEF Inv, Grows

LEMMA ReportSound == ASSUME Inv, NEW q \in Requests, Report(q) PROVE Inv'
<1>1. Carries(q, req[q]) /\ Op(q) \in DOMAIN call
  BY DEF Inv, Report, Carries, Over
<1>2. artifacts \subseteq artifacts'
  BY DEF Report
<1>3. Grows
  BY <1>2, ActiveIsLast DEF Inv, Grows, Report, provider
<1>4. Goto(q, "reported") /\ "reported" \in Phases
  BY DEF Report, Phases
<1>5. Moves(q) /\ req'[q].phase = "reported" /\ req'[q] \in Request
  BY <1>4, GotoMoves DEF Inv, Moves
<1>6. TypeOK'
  BY <1>5 DEF Inv, TypeOK, Report, provider, Moves, Request
<1>7. OneLineOfBindings'
  BY LineStays DEF Inv, Report
<1>8. Rows'
  BY <1>3, EffectStays DEF Inv, Rows, Held, Report, provider
<1>9. Effected(Op(q))'
  <2>1. HasReport(Op(q))'
    <3> SUFFICES ASSUME Tool(q) \in DOMAIN ReportKind
                 PROVE  \E a \in artifacts' : a.kind = ReportKind[Tool(q)] /\ a.op = Op(q)
      BY DEF HasReport, Tool, Call, Report, ReportKind, Op
    <3> DEFINE new == [kind |-> ReportKind[Tool(q)], op |-> Op(q),
                       repository |-> req[q].seen.other, passed |-> req[q].seen.passed]
    <3>1. new \in artifacts'
      BY DEF Report
    <3>2. new.kind = ReportKind[Tool(q)] /\ new.op = Op(q)
      OBVIOUS
    <3> QED
      BY <3>1, <3>2
  <2>2. Tool(q) \in {"promote", "rollback"} => HasRow(Op(q))
    BY <1>1 DEF Carries, Report
  <2>3. HasRow(Op(q)) => HasRow(Op(q))'
    BY <1>3, RowStays DEF Op
  <2>4. call'[Op(q)].tool = Tool(q)
    BY DEF Report, Tool, Call
  <2> QED
    BY <2>1, <2>2, <2>3, <2>4 DEF Effected, Op
<1>10. Carries(q, req[q])'
  BY <1>1, <1>5, <1>9 DEF Carries, Report
<1> QED
  BY <1>3, <1>5, <1>6, <1>7, <1>8, <1>10, SoundStep

LEMMA SaveSound == ASSUME Inv, NEW q \in Requests, Save(q) PROVE Inv'
<1>1. Effected(Op(q))
  BY DEF Inv, Save, Carries
<1>2. Grows
  BY NothingTaken DEF Inv, Save, provider
<1>3. Goto(q, "done") /\ "done" \in Phases
  BY DEF Save, Phases, Over
<1>4. Moves(q) /\ req'[q].phase = "done" /\ req'[q] \in Request
  BY <1>3, GotoMoves DEF Inv, Moves
<1>5. Op(q) \in Operations
  BY ConstantsAssumption DEF Op
<1>6. TypeOK'
  BY <1>4, <1>5 DEF Inv, TypeOK, Save, provider, Moves, Request
<1>7. OneLineOfBindings'
  BY LineStays DEF Inv, Save
<1>8. \A o \in saved' : Effected(o)
  BY <1>1 DEF Inv, Rows, Save
<1>9. Rows'
  BY <1>2, <1>8, EffectStays DEF Inv, Rows, Held, Save, provider
<1>10. Carries(q, req'[q])
  BY <1>1, <1>4 DEF Carries, Over
<1>11. Carries(q, req[q])'
  BY <1>2, <1>4, <1>10, CarriedOn
<1> QED
  BY <1>2, <1>4, <1>6, <1>7, <1>9, <1>11, SoundStep

\* The row a promotion or a rollback is about to insert.
LEMMA NewBindingType ==
    ASSUME Inv, NEW q \in Requests, req[q].phase = "ready", Tool(q) \in {"promote", "rollback"}
    PROVE  /\ NewBinding(q) \in Binding
           /\ NewBinding(q).status = "ACTIVE" /\ NewBinding(q).op = Op(q)
           /\ NewBinding(q).version = req[q].seen.row + 1
           /\ NewBinding(q).supersedes = req[q].seen.row
           /\ req[q].seen.row = req[q].pinVersion
           /\ Tool(q) = "promote" => NewBinding(q).sha = req[q].pinHead
<1> DEFINE seen == req[q].seen
<1>1. /\ req[q] \in Request /\ seen \in Sight /\ seen.row \in Nat /\ seen.head \in Nat
      /\ Carries(q, req[q]) /\ seen.row <= Len(bindings) /\ Held(seen.name)
      /\ Op(q) \in DOMAIN call
  BY DEF Inv, Carries, Request, Sight, Over
<1>2. VersionAt(seen.row) = seen.row
  BY <1>1, VersionIsRow DEF Inv
<1>3. Op(q) \in Operations /\ Call(q).resource \in Repositories
  BY <1>1, CallType, ConstantsAssumption DEF Inv, Op
<1>4. CASE Tool(q) = "promote"
  <2>1. seen.repository \in Repositories /\ seen.row = req[q].pinVersion /\ seen.head = req[q].pinHead
    BY <1>1, <1>4 DEF Carries
  <2>2. NewBinding(q) = [resource |-> Call(q).resource, repository |-> seen.repository,
                         name |-> seen.name, sha |-> seen.head, status |-> "ACTIVE",
                         version |-> seen.row + 1, supersedes |-> seen.row, op |-> Op(q)]
    BY <1>2, <1>4 DEF NewBinding
  <2> QED
    BY <1>1, <1>3, <2>1, <2>2 DEF Binding, BindingStatus, Held
<1>5. CASE Tool(q) = "rollback"
  <2>1. seen.row = req[q].pinVersion /\ seen.row > 1
    BY <1>1, <1>5 DEF Carries
  <2>2. RestoredBy(seen.row) = seen.row - 1 /\ seen.row - 1 \in DOMAIN bindings
    BY <1>1, <2>1, VersionIsRow, ActiveIsLast DEF Inv
  <2> DEFINE restored == bindings[seen.row - 1]
  <2>3. restored \in Binding
    BY <2>2 DEF Inv, TypeOK
  <2>4. NewBinding(q) = [restored EXCEPT !.status = "ACTIVE", !.version = seen.row + 1,
                                         !.supersedes = seen.row, !.op = Op(q)]
    BY <1>2, <1>5, <2>2 DEF NewBinding
  <2> HIDE DEF restored
  <2>5. NewBinding(q) = [resource |-> restored.resource, repository |-> restored.repository,
                         name |-> restored.name, sha |-> restored.sha, status |-> "ACTIVE",
                         version |-> seen.row + 1, supersedes |-> seen.row, op |-> Op(q)]
    BY <2>3, <2>4 DEF Binding
  <2>6. NewBinding(q) \in Binding
    BY <1>1, <1>3, <2>3, <2>5 DEF Binding, BindingStatus
  <2> QED
    BY <1>5, <2>1, <2>5, <2>6
<1> QED
  BY <1>4, <1>5

\* What a successful compare-and-set does to the rows.
Appends(q) ==
    /\ Len(bindings') = Len(bindings) + 1
    /\ bindings' \in Seq(Binding)
    /\ bindings'[Len(bindings')] = NewBinding(q)
    /\ \A i \in 1..Len(bindings) :
          /\ bindings'[i].op = bindings[i].op
          /\ bindings'[i].version = bindings[i].version
          /\ bindings'[i].supersedes = bindings[i].supersedes
          /\ bindings'[i].status # "ACTIVE"

LEMMA SwapAppends ==
    ASSUME Inv, NEW q \in Requests, Swap(q), BindingIsCurrent(q) /\ BindingIsNew(q)
    PROVE  Appends(q)
<1>1. /\ NewBinding(q) \in Binding
      /\ Len(bindings) \in Nat /\ DOMAIN bindings = 1..Len(bindings) /\ ActiveRow = Len(bindings)
  BY NewBindingType, ActiveIsLast DEF Inv, Swap
<1>2. Displaced(q) \in BindingStatus /\ Displaced(q) # "ACTIVE"
  BY DEF Displaced, BindingStatus
<1> DEFINE old == [i \in DOMAIN bindings |->
                     IF i = ActiveRow THEN [bindings[i] EXCEPT !.status = Displaced(q)]
                     ELSE bindings[i]]
<1>3. bindings' = Append(old, NewBinding(q))
  BY DEF Swap
<1>4. ASSUME NEW i \in 1..Len(bindings)
      PROVE  /\ old[i] \in Binding
             /\ old[i].op = bindings[i].op /\ old[i].version = bindings[i].version
             /\ old[i].supersedes = bindings[i].supersedes /\ old[i].status # "ACTIVE"
  <2>1. bindings[i] \in Binding
    BY <1>1 DEF Inv, TypeOK
  <2>2. i # ActiveRow => bindings[i].status # "ACTIVE"
    BY <1>1 DEF Inv, OneLineOfBindings
  <2> QED
    BY <1>1, <1>2, <2>1, <2>2 DEF Binding
<1>5. old \in Seq(Binding) /\ Len(old) = Len(bindings)
  <2>1. \A i \in 1..Len(bindings) : old[i] \in Binding
    BY <1>4
  <2>2. old = [i \in 1..Len(bindings) |-> old[i]]
    BY <1>1
  <2> HIDE DEF old
  <2> QED
    BY <1>1, <2>1, <2>2
<1> HIDE DEF old
<1>6. Len(bindings') = Len(bindings) + 1 /\ bindings' \in Seq(Binding)
  BY <1>1, <1>3, <1>5
<1>7. bindings'[Len(bindings')] = NewBinding(q)
  BY <1>1, <1>3, <1>5
<1>8. ASSUME NEW i \in 1..Len(bindings) PROVE bindings'[i] = old[i]
  BY <1>1, <1>3, <1>5
<1> QED
  BY <1>4, <1>6, <1>7, <1>8 DEF Appends

LEMMA AppendsKeepLine ==
    ASSUME Inv, NEW q \in Requests, Swap(q), BindingIsCurrent(q) /\ BindingIsNew(q), Appends(q)
    PROVE  OneLineOfBindings'
<1> DEFINE n == Len(bindings)
<1>1. /\ n \in Nat /\ DOMAIN bindings = 1..n /\ DOMAIN bindings' = 1..(n + 1) /\ Len(bindings') = n + 1
  BY ActiveIsLast DEF Inv, Appends
<1>2. /\ bindings'[n + 1].version = n + 1 /\ bindings'[n + 1].supersedes = n
      /\ bindings'[n + 1].status = "ACTIVE" /\ bindings'[n + 1].op = Op(q)
  BY <1>1, NewBindingType, ActiveIsLast DEF Inv, Swap, BindingIsCurrent, Appends
<1>3. ASSUME NEW i \in 1..n
      PROVE  /\ bindings'[i].version = i /\ bindings'[i].supersedes = i - 1
             /\ bindings'[i].status # "ACTIVE"
             /\ bindings'[i].op # Op(q)
             /\ \A j \in 1..n : bindings'[i].op = bindings'[j].op => i = j
  BY <1>1 DEF Inv, OneLineOfBindings, Appends, BindingIsNew
<1>4. ASSUME NEW i \in 1..(n + 1) PROVE i \in 1..n \/ i = n + 1
  BY <1>1
<1>5. ASSUME NEW i \in 1..(n + 1), NEW j \in 1..(n + 1), bindings'[i].op = bindings'[j].op PROVE i = j
  BY <1>2, <1>3, <1>4, <1>5
<1>6. ASSUME NEW i \in 1..(n + 1)
      PROVE  /\ bindings'[i].version = i /\ bindings'[i].supersedes = i - 1
             /\ bindings'[i].status = "ACTIVE" <=> i = n + 1
  BY <1>1, <1>2, <1>3, <1>4
<1> QED
  BY <1>1, <1>5, <1>6 DEF OneLineOfBindings

LEMMA SwapSound == ASSUME Inv, NEW q \in Requests, Swap(q) PROVE Inv'
<1>1. CASE BindingIsCurrent(q) /\ BindingIsNew(q)
  <2>1. Appends(q)
    BY <1>1, SwapAppends
  <2>2. OneLineOfBindings'
    BY <1>1, <2>1, AppendsKeepLine
  <2>3. Len(bindings) \in Nat /\ DOMAIN bindings = 1..Len(bindings) /\ DOMAIN bindings' = 1..(Len(bindings) + 1)
    BY <2>1, ActiveIsLast DEF Inv, Appends
  <2>4. Grows
    BY <2>1, <2>3 DEF Grows, Appends, Swap, provider
  <2>5. Goto(q, "written") /\ "written" \in Phases
    BY <1>1 DEF Swap, Phases
  <2>6. Moves(q) /\ req'[q].phase = "written" /\ req'[q] \in Request
    BY <2>5, GotoMoves DEF Inv, Moves
  <2>7. TypeOK'
    BY <2>1, <2>6 DEF Inv, TypeOK, Swap, provider, Moves, Request, Appends
  <2>8. Rows'
    BY <2>4, EffectStays DEF Inv, Rows, Held, Swap, provider
  <2>9. Carries(q, req'[q])
    BY <2>6 DEF Inv, Carries, Swap, Over
  <2>10. Carries(q, req[q])'
    BY <2>4, <2>6, <2>9, CarriedOn
  <2> QED
    BY <2>2, <2>4, <2>6, <2>7, <2>8, <2>10, SoundStep
<1>2. CASE ~(BindingIsCurrent(q) /\ BindingIsNew(q))
  BY <1>2, EndedStep DEF Swap, registry
<1> QED
  BY <1>1, <1>2

\* The provider's name table gains a name; the names it had still lead somewhere.
LEMMA RenameAtProviderSound == ASSUME Inv, NEW q \in Requests, RenameAtProvider(q) PROVE Inv'
<1> DEFINE repository == Described(req[q].seen.name)
           newName == Call(q).other
<1>1. CASE \A r \in Repositories : fullName[r] = newName => r = repository
  <2>1. Carries(q, req[q]) /\ Op(q) \in DOMAIN call /\ Held(req[q].seen.name)
    BY DEF Inv, RenameAtProvider, Carries, Over
  <2>2. repository \in Repositories /\ newName \in Names
    BY <2>1, DescribedType, CallType DEF Inv, RenameAtProvider
  <2>3. /\ holder' = [holder EXCEPT ![newName] = repository]
        /\ fullName' = [fullName EXCEPT ![repository] = newName]
        /\ Goto(q, "renamed")
    BY <1>1 DEF RenameAtProvider
  <2> HIDE DEF repository, newName
  <2>4. holder' \in [Names -> Repositories \cup {NoRepository}] /\ fullName' \in [Repositories -> Names]
    BY <2>2, <2>3 DEF Inv, TypeOK
  <2>5. \A n \in Names : holder[n] \in Repositories => holder'[n] \in Repositories
    BY <2>2, <2>3 DEF Inv, TypeOK
  <2>6. Grows
    BY <2>5, ActiveIsLast DEF Inv, Grows, RenameAtProvider, registry
  <2>7. "renamed" \in Phases /\ "renamed" \notin Over
    BY DEF Phases, Over
  <2>8. Moves(q) /\ req'[q].phase = "renamed" /\ req'[q].seen = req[q].seen /\ req'[q] \in Request
    BY <2>3, <2>7, GotoMoves DEF Inv, Moves
  <2>9. TypeOK'
    BY <2>4, <2>8 DEF Inv, TypeOK, RenameAtProvider, registry, Moves, Request
  <2>10. OneLineOfBindings'
    BY LineStays DEF Inv, RenameAtProvider, registry
  <2>11. Rows'
    BY <2>6, HeldStays, EffectStays DEF Inv, Rows, RenameAtProvider, registry
  <2>12. Carries(q, req'[q])
    BY <2>1, <2>8 DEF Carries, RenameAtProvider
  <2>13. Carries(q, req[q])'
    BY <2>6, <2>8, <2>12, CarriedOn
  <2> QED
    BY <2>6, <2>8, <2>9, <2>10, <2>11, <2>13, SoundStep
<1>2. CASE ~\A r \in Repositories : fullName[r] = newName => r = repository
  BY <1>2, EndedStep DEF RenameAtProvider, provider
<1> QED
  BY <1>1, <1>2

\* A registration is only ever rewritten to a name that leads somewhere.
LEMMA RegistrationsStay ==
    ASSUME Inv, Grows, saved' = saved, transfers' = transfers, NEW r \in Repositories,
           NEW n, Held(n), registered' = [registered EXCEPT ![r] = n]
    PROVE  Rows'
<1>1. \A s \in Repositories : registered'[s] = n \/ registered'[s] = registered[s]
  BY DEF Inv, TypeOK
<1>2. ASSUME NEW s \in Repositories
      PROVE  registered'[s] \in Names /\ holder'[registered'[s]] \in Repositories
  <2>1. Held(registered[s]) /\ Held(n)
    BY DEF Inv, Rows
  <2> QED
    BY <1>1, <2>1 DEF Grows, Held
<1> QED
  BY <1>2, EffectStays DEF Inv, Rows, Held

LEMMA ReregisterSound == ASSUME Inv, NEW q \in Requests, Reregister(q) PROVE Inv'
<1>1. /\ Carries(q, req[q]) /\ Op(q) \in DOMAIN call /\ req[q] \in Request
      /\ Tool(q) = "rename" /\ Held(Call(q).other)
  BY DEF Inv, Reregister, Carries, Over
<1>2. Call(q).resource \in Repositories /\ Call(q).other \in Names
  BY <1>1, CallType DEF Inv
<1>3. Grows
  BY NothingTaken DEF Inv, Reregister, provider
<1>4. "repointed" \in Phases
  BY DEF Phases
<1>5. Moves(q) /\ req'[q].phase = "repointed" /\ req'[q] \in Request
  BY <1>4, GotoMoves DEF Inv, Moves, Reregister
<1>6. req[q].seen.status \in {"ACTIVE", "DISABLED"}
  BY <1>1 DEF Request, Sight
<1>7. TypeOK'
  BY <1>2, <1>5, <1>6 DEF Inv, TypeOK, Reregister, provider, Moves, Request
<1>8. OneLineOfBindings'
  BY LineStays DEF Inv, Reregister
<1>9. Rows'
  BY <1>1, <1>2, <1>3, RegistrationsStay DEF Reregister, provider
<1>10. Carries(q, req'[q])
  BY <1>1, <1>5 DEF Carries, Over
<1>11. Carries(q, req[q])'
  BY <1>3, <1>5, <1>10, CarriedOn
<1> QED
  BY <1>3, <1>5, <1>7, <1>8, <1>9, <1>11, SoundStep

LEMMA DisableSound == ASSUME Inv, NEW q \in Requests, Disable(q) PROVE Inv'
<1>1. /\ Carries(q, req[q]) /\ Op(q) \in DOMAIN call
      /\ Held(req[q].seen.name) /\ Tool(q) = "disable"
  BY DEF Inv, Disable, Carries, Over
<1>2. Call(q).resource \in Repositories /\ req[q].seen.name \in Names
  BY <1>1, CallType DEF Inv, Held
<1>3. Grows
  BY NothingTaken DEF Inv, Disable, provider
<1>4. "confirmed" \in Phases
  BY DEF Phases
<1>5. Moves(q) /\ req'[q].phase = "confirmed" /\ req'[q] \in Request
  BY <1>4, GotoMoves DEF Inv, Moves, Disable
<1>6. TypeOK'
  BY <1>2, <1>5 DEF Inv, TypeOK, Disable, provider, Moves, Request
<1>7. OneLineOfBindings'
  BY LineStays DEF Inv, Disable
<1>8. Rows'
  BY <1>1, <1>2, <1>3, RegistrationsStay DEF Disable, provider
<1>9. Carries(q, req'[q])
  BY <1>1, <1>5 DEF Carries, Over
<1>10. Carries(q, req[q])'
  BY <1>3, <1>5, <1>9, CarriedOn
<1> QED
  BY <1>3, <1>5, <1>6, <1>7, <1>8, <1>10, SoundStep

\* A step that ends in "confirmed" and rewrites the project row only.
LEMMA ProjectStep ==
    ASSUME Inv, NEW q \in Requests, Goto(q, "confirmed"), Op(q) \in DOMAIN call,
           Tool(q) \notin {"promote", "rollback"},
           project' \in [resource : Repositories, name : Names],
           UNCHANGED <<bindings, registered, status, artifacts, saved, provider, call>>
    PROVE  Inv'
<1>1. Grows
  BY NothingTaken DEF provider
<1>2. "confirmed" \in Phases
  BY DEF Phases
<1>3. Moves(q) /\ req'[q].phase = "confirmed" /\ req'[q] \in Request
  BY <1>2, GotoMoves DEF Inv, Moves
<1>4. TypeOK'
  BY <1>3 DEF Inv, TypeOK, provider, Moves, Request
<1>5. OneLineOfBindings'
  BY LineStays DEF Inv
<1>6. Rows'
  BY <1>1, EffectStays DEF Inv, Rows, Held, provider
<1>7. Carries(q, req'[q])
  BY <1>3 DEF Carries, Over
<1>8. Carries(q, req[q])'
  BY <1>1, <1>3, <1>7, CarriedOn
<1> QED
  BY <1>1, <1>3, <1>4, <1>5, <1>6, <1>8, SoundStep

LEMMA RenameProjectSound == ASSUME Inv, NEW q \in Requests, RenameProject(q) PROVE Inv'
<1>1. Carries(q, req[q]) /\ Op(q) \in DOMAIN call /\ Tool(q) = "rename"
  BY DEF Inv, RenameProject, Carries, Over
<1>2. Call(q).resource \in Repositories /\ Call(q).other \in Names
  BY <1>1, CallType DEF Inv
<1>3. project' \in [resource : Repositories, name : Names]
  BY <1>2 DEF Inv, TypeOK, RenameProject
<1> QED
  BY <1>1, <1>3, ProjectStep DEF RenameProject

LEMMA RepointSound == ASSUME Inv, NEW q \in Requests, Repoint(q) PROVE Inv'
<1> DEFINE judged == req[q].seen.status = "ACTIVE" /\ req[q].seen.name = req[q].pinName
<1>1. CASE judged
  <2>1. Carries(q, req[q]) /\ Op(q) \in DOMAIN call /\ Held(req[q].seen.name)
    BY DEF Inv, Repoint, Carries, Over
  <2>2. Call(q).resource \in Repositories /\ req[q].pinName \in Names
    BY <1>1, <2>1, CallType DEF Inv, Held
  <2>3. project' \in [resource : Repositories, name : Names]
    BY <1>1, <2>2 DEF Repoint
  <2> QED
    BY <1>1, <2>1, <2>3, ProjectStep DEF Repoint
<1>2. CASE ~judged
  BY <1>2, EndedStep DEF Repoint, registry
<1> QED
  BY <1>1, <1>2

LEMMA DispatchSound == ASSUME Inv, NEW q \in Requests, Dispatch(q) PROVE Inv'
<1>1. /\ Carries(q, req[q]) /\ Op(q) \in DOMAIN call /\ Tool(q) = "export"
      /\ Held(req[q].seen.name) /\ Held(req[q].seen.other)
  BY DEF Inv, Dispatch, Carries, Over, Transfers
<1>2. /\ Described(req[q].seen.name) \in Repositories
      /\ Described(req[q].seen.other) \in Repositories
      /\ Op(q) \in Operations
  BY <1>1, DescribedType, ConstantsAssumption DEF Op
<1>3. Grows
  BY NothingTaken DEF Inv, Dispatch, registry
<1>4. "confirmed" \in Phases
  BY DEF Phases
<1>5. Moves(q) /\ req'[q].phase = "confirmed" /\ req'[q] \in Request
  BY <1>4, GotoMoves DEF Inv, Moves, Dispatch
<1>6. TypeOK'
  BY <1>5 DEF Inv, TypeOK, Dispatch, registry, Moves, Request
<1>7. OneLineOfBindings'
  BY LineStays DEF Inv, Dispatch, registry
<1>8. transfers' \subseteq [op : Operations, from : Repositories, to : Repositories]
  BY <1>2 DEF Inv, Rows, Dispatch
<1>9. Rows'
  BY <1>3, <1>8, EffectStays DEF Inv, Rows, Held, Dispatch, registry
<1>10. Carries(q, req'[q])
  BY <1>1, <1>5 DEF Carries, Over
<1>11. Carries(q, req[q])'
  BY <1>3, <1>5, <1>10, CarriedOn
<1> QED
  BY <1>3, <1>5, <1>6, <1>7, <1>9, <1>11, SoundStep

-----------------------------------------------------------------------------
(***************************************************************************)
(* The provider's own steps, and every step                                *)
(***************************************************************************)

\* A step of nobody's request.
LEMMA OutsideStep ==
    ASSUME Inv, UNCHANGED <<registry, holder, fullName, call, req>>,
           head' \in [Repositories -> Nat],
           transfers' \subseteq [op : Operations, from : Repositories, to : Repositories]
    PROVE  Inv'
<1>1. Grows
  BY NothingTaken DEF registry
<1>2. TypeOK'
  BY DEF Inv, TypeOK, registry
<1>3. OneLineOfBindings'
  BY LineStays DEF Inv, registry
<1>4. Rows'
  BY <1>1, EffectStays DEF Inv, Rows, Held, registry
<1>5. ASSUME NEW p \in Requests PROVE Carries(p, req[p])'
  BY <1>1, CarriedOn DEF Inv
<1> QED
  BY <1>2, <1>3, <1>4, <1>5 DEF Inv

LEMMA TransferSound == ASSUME Inv, NEW t \in transfers, Transfer(t) PROVE Inv'
<1>1. t.from \in Repositories /\ t.to \in Repositories
  BY DEF Inv, Rows
<1>2. head' \in [Repositories -> Nat]
  BY <1>1 DEF Inv, TypeOK, Transfer
<1>3. transfers' \subseteq [op : Operations, from : Repositories, to : Repositories]
  BY DEF Inv, Rows, Transfer
<1> QED
  BY <1>2, <1>3, OutsideStep DEF Transfer

LEMMA PushSound == ASSUME Inv, NEW r \in Repositories, Push(r) PROVE Inv'
<1>1. head' \in [Repositories -> Nat]
  BY ConstantsAssumption DEF Inv, TypeOK, Push
<1> QED
  BY <1>1, OutsideStep DEF Push, Inv, Rows

LEMMA InitSound == Init => Inv
<1> SUFFICES ASSUME Init PROVE Inv
  OBVIOUS
<1>1. TypeOK /\ req \in [Requests -> Request]
  <2>1. Idle \in Request /\ Idle.phase = "idle" /\ "idle" \in Phases
    BY DEF Idle, Request, NoSight, Sight, Phases, Over
  <2>2. holder \in [Names -> Repositories \cup {NoRepository}]
    BY DEF Init
  <2> QED
    BY <2>1, <2>2, ConstantsAssumption DEF Init, TypeOK
<1>2. OneLineOfBindings
  BY DEF Init, OneLineOfBindings
<1>3. ASSUME NEW r \in Repositories PROVE Held(registered[r])
  <2>1. FirstName[r] \in Names
    BY ConstantsAssumption
  <2>2. (CHOOSE s \in Repositories : FirstName[s] = FirstName[r]) \in Repositories
    OBVIOUS
  <2> QED
    BY <2>1, <2>2 DEF Init, Held
<1>4. Rows
  BY <1>3 DEF Init, Rows
<1>5. ASSUME NEW q \in Requests PROVE Carries(q, req[q])
  BY DEF Init, Idle, Carries, Over
<1> QED
  BY <1>1, <1>2, <1>4, <1>5 DEF Inv

LEMMA StepSound == ASSUME Inv, NEW q \in Requests, Step(q) PROVE Inv'
<1>1. CASE Pin(q) \/ Lookup(q) \/ ReadRegistry(q) \/ RefuseUnreadable(q) \/ Die(q)
  BY <1>1, PinSound, LookupSound, ReadRegistrySound, RefuseUnreadableSound, DieSound
<1>2. CASE JudgePromotion(q) \/ Identify(q) \/ JudgeRollback(q) \/ Swap(q) \/ ReadBack(q)
  BY <1>2, JudgePromotionSound, IdentifySound, JudgeRollbackSound, SwapSound, ReadBackSound
<1>3. CASE JudgeRename(q) \/ RenameAtProvider(q) \/ CheckIdentity(q) \/ Reregister(q) \/ RenameProject(q)
  BY <1>3, JudgeRenameSound, RenameAtProviderSound, CheckIdentitySound, ReregisterSound,
     RenameProjectSound
<1>4. CASE JudgeExport(q) \/ Dispatch(q) \/ RecordVerdict(q)
  BY <1>4, JudgeExportSound, DispatchSound, RecordVerdictSound
<1>5. CASE Disable(q) \/ Repoint(q) \/ Report(q) \/ Save(q)
  BY <1>5, DisableSound, RepointSound, ReportSound, SaveSound
<1> QED
  BY <1>1, <1>2, <1>3, <1>4, <1>5 DEF Step

LEMMA NextSound == Inv /\ [Next]_vars => Inv'
<1> SUFFICES ASSUME Inv, [Next]_vars PROVE Inv'
  OBVIOUS
<1>1. CASE Next
  BY <1>1, StepSound, TransferSound, PushSound DEF Next
<1>2. CASE UNCHANGED vars
  BY <1>2, OutsideStep DEF vars, registry, Inv, TypeOK, Rows
<1> QED
  BY <1>1, <1>2

\* The strengthening holds in every reachable state.
THEOREM Invariant == Spec => []Inv
  BY InitSound, NextSound, PTL DEF Spec

-----------------------------------------------------------------------------
(***************************************************************************)
(* What a caller of the canonical repository may rely on                   *)
(***************************************************************************)

\* The rows of the control plane and what the requests carry always have their types
\* (packages/schemas, canonicalDevelopmentRepositorySchema).
THEOREM TypeCorrect == Spec => []TypeOK
  BY Invariant, PTL DEF Inv

\* However promotions, rollbacks and retries overlap, the rows form one line with one ACTIVE row
\* at its end (promote_canonical_repository of migration 0006).
THEOREM OneLine == Spec => []OneLineOfBindings
  BY Invariant, PTL DEF Inv

\* What is answered as done, or replayed as done, has its row and its report (mutate, promote).
THEOREM DoneIsThere == Spec => []DoneIsDurable
<1>1. Inv => DoneIsDurable
  BY DEF Inv, Carries, Effected, HasRow, HasReport, DoneIsDurable, Tool, Call
<1> QED
  BY <1>1, Invariant, PTL

\* Only the compare-and-set of a promotion or a rollback changes the rows.
LEMMA OnlySwapWrites ==
    ASSUME [Next]_vars, bindings' # bindings
    PROVE  \E q \in Requests : Swap(q) /\ BindingIsCurrent(q) /\ BindingIsNew(q)
<1>1. ASSUME NEW q \in Requests, Step(q), ~Swap(q) PROVE FALSE
  <2>1. CASE Pin(q) \/ Lookup(q) \/ ReadRegistry(q) \/ RefuseUnreadable(q) \/ Die(q)
    BY <2>1 DEF Pin, Lookup, ReadRegistry, RefuseUnreadable, Refuse, Die, registry
  <2>2. CASE JudgePromotion(q) \/ Identify(q) \/ JudgeRollback(q) \/ ReadBack(q)
    BY <2>2 DEF JudgePromotion, Identify, JudgeRollback, ReadBack, registry
  <2>3. CASE JudgeRename(q) \/ RenameAtProvider(q) \/ CheckIdentity(q) \/ Reregister(q)
             \/ RenameProject(q)
    BY <2>3 DEF JudgeRename, RenameAtProvider, CheckIdentity, Reregister, RenameProject, registry
  <2>4. CASE JudgeExport(q) \/ Dispatch(q) \/ RecordVerdict(q) \/ Disable(q) \/ Repoint(q)
             \/ Report(q) \/ Save(q)
    BY <2>4 DEF JudgeExport, Dispatch, RecordVerdict, Disable, Repoint, Report, Save, registry
  <2> QED
    BY <1>1, <2>1, <2>2, <2>3, <2>4 DEF Step
<1>2. ASSUME NEW t \in transfers, Transfer(t) PROVE FALSE
  BY <1>2 DEF Transfer, registry
<1>3. ASSUME NEW r \in Repositories, Push(r) PROVE FALSE
  BY <1>3 DEF Push, registry
<1>4. Next
  BY DEF vars
<1>5. PICK q \in Requests : Swap(q)
  BY <1>1, <1>2, <1>3, <1>4 DEF Next
<1>6. BindingIsCurrent(q) /\ BindingIsNew(q)
  BY <1>5 DEF Swap
<1> QED
  BY <1>5, <1>6

\* A binding only moves over the version its caller pinned, and a promotion only to the head its
\* caller pinned (service.ts promote).
THEOREM PinnedOnly == Spec => MovesWhatWasPinned
<1>1. ASSUME Inv, [Next]_vars
      PROVE  [Len(bindings') > Len(bindings) =>
                LET row == bindings'[Len(bindings')]
                IN  \E q \in Requests :
                       /\ Op(q) = row.op
                       /\ req[q].phase = "ready" /\ req'[q].phase = "written"
                       /\ row.version = req[q].pinVersion + 1
                       /\ Tool(q) = "promote" => row.sha = req[q].pinHead]_bindings
  <2> SUFFICES ASSUME bindings' # bindings
               PROVE  LET row == bindings'[Len(bindings')]
                      IN  \E q \in Requests :
                             /\ Op(q) = row.op
                             /\ req[q].phase = "ready" /\ req'[q].phase = "written"
                             /\ row.version = req[q].pinVersion + 1
                             /\ Tool(q) = "promote" => row.sha = req[q].pinHead
    OBVIOUS
  <2>1. PICK q \in Requests : Swap(q) /\ BindingIsCurrent(q) /\ BindingIsNew(q)
    BY <1>1, OnlySwapWrites
  <2>2. bindings'[Len(bindings')] = NewBinding(q)
    BY <1>1, <2>1, SwapAppends DEF Appends
  <2>3. /\ NewBinding(q).op = Op(q)
        /\ NewBinding(q).version = req[q].pinVersion + 1
        /\ Tool(q) = "promote" => NewBinding(q).sha = req[q].pinHead
    BY <1>1, <2>1, NewBindingType DEF Swap
  <2>4. Goto(q, "written") /\ "written" \in Phases /\ req[q].phase = "ready"
    BY <2>1 DEF Swap, Phases
  <2>5. req'[q].phase = "written"
    BY <1>1, <2>4, GotoMoves DEF Inv
  <2> QED
    BY <2>2, <2>3, <2>4, <2>5
<1> QED
  BY <1>1, Invariant, PTL DEF Spec, MovesWhatWasPinned

\* What the register shows, in one state.
LEMMA Shown ==
    TypeOK /\ OneLineOfBindings =>
        /\ ActiveRow = Len(bindings) /\ VersionAt(ActiveRow) = Len(bindings)
        /\ Len(bindings) \in Nat /\ DOMAIN bindings = 1..Len(bindings)
  BY ActiveIsLast

\* The line of bindings is the register the callers are promised: it names one repository, moves
\* one version at a time and takes an operation at most once (docs/canonical-development-
\* repository.md, "Invariants").
THEOREM ImplementsRegister == Spec => RegisterSpec
<1>1. Init => Register!Init
  BY DEF Init, Register!Init, ActiveRow, ActiveRows, ResourceAt, VersionAt
<1>2. ASSUME Inv, Inv', [Next]_vars PROVE [Register!Next]_(Register!vars)
  <2>1. CASE bindings' = bindings
    BY <2>1 DEF Register!vars, ActiveRow, ActiveRows, ResourceAt, VersionAt
  <2>2. CASE bindings' # bindings
    <3>1. PICK q \in Requests : Swap(q) /\ BindingIsCurrent(q) /\ BindingIsNew(q)
      BY <1>2, <2>2, OnlySwapWrites
    <3> DEFINE n == Len(bindings)
    <3>2. Appends(q) /\ NewBinding(q) \in Binding /\ NewBinding(q).op = Op(q)
      BY <1>2, <3>1, SwapAppends, NewBindingType DEF Swap
    <3>3. ActiveRow = n /\ VersionAt(ActiveRow) = n /\ n \in Nat /\ DOMAIN bindings = 1..n
      BY <1>2, Shown DEF Inv
    <3>4. (TypeOK /\ OneLineOfBindings =>
              /\ ActiveRow = Len(bindings) /\ VersionAt(ActiveRow) = Len(bindings)
              /\ Len(bindings) \in Nat /\ DOMAIN bindings = 1..Len(bindings))'
      BY Shown, PTL
    <3>5. /\ ActiveRow' = n + 1 /\ VersionAt(ActiveRow)' = n + 1
          /\ Len(bindings') = n + 1 /\ DOMAIN bindings' = 1..(n + 1)
      BY <1>2, <3>2, <3>4 DEF Inv, Appends
    <3>6. bindings'[n + 1] = NewBinding(q) /\ \A i \in 1..n : bindings'[i].op = bindings[i].op
      BY <3>2, <3>5 DEF Appends
    <3>7. ResourceAt(ActiveRow)' = NewBinding(q).resource
      BY <3>3, <3>5, <3>6 DEF ResourceAt
    <3>8. Op(q) \notin {bindings[i].op : i \in DOMAIN bindings}
      BY <3>1 DEF BindingIsNew
    <3>9. {bindings'[i].op : i \in DOMAIN bindings'}
            = {bindings[i].op : i \in DOMAIN bindings} \cup {Op(q)}
      <4>1. \A i : i \in 1..(n + 1) <=> i \in 1..n \/ i = n + 1
        BY <3>3
      <4> QED
        BY <3>2, <3>3, <3>5, <3>6, <4>1
    <3>10. PICK repository \in Repositories : repository = NewBinding(q).resource
      BY <3>2 DEF Binding
    <3>11. Register!Move(Op(q), repository)
      BY <3>3, <3>5, <3>7, <3>8, <3>9, <3>10 DEF Register!Move
    <3>12. Register!Next
      BY <3>11, ConstantsAssumption DEF Register!Next, Op
    <3> QED
      BY <3>12 DEF Register!vars
  <2> QED
    BY <2>1, <2>2
<1> QED
  BY <1>1, <1>2, Invariant, PTL DEF Spec, RegisterSpec, Register!Spec
-----------------------------------------------------------------------------
(***************************************************************************)
(* Where a registration leads                                              *)
(***************************************************************************)

\* What a rename or a disabling relies on: the name it read leads to its resource,
\* the name it is about to take is free or taken for that resource already.
Keeps(q, r) ==
    /\ r.phase \in {"read", "ready"} /\ Tool(q) \in {"rename", "disable"} =>
         holder[r.seen.name] = Call(q).resource
    /\ r.phase \in {"ready", "renamed"} /\ Tool(q) = "rename" =>
         r.seen.repository = Call(q).resource
    /\ r.phase = "ready" /\ Tool(q) = "rename" =>
         holder[Call(q).other] \in {NoRepository, Call(q).resource}
    /\ r.phase = "identified" => holder[Call(q).other] = Call(q).resource
KeepInv ==
    /\ \A r \in Repositories : holder[registered[r]] = r
    /\ \A q \in Requests : Keeps(q, req[q])

\* Names that lead somewhere go on leading there.
Leads ==
    /\ call' = call
    /\ \A n \in Names : holder[n] \in Repositories => holder'[n] = holder[n]
    /\ \A n \in Names, o, p \in DOMAIN call :
         /\ call[o].tool = "rename" /\ call[o].other = n
         /\ holder[n] \in {NoRepository, call[o].resource}
         => holder'[n] \in {NoRepository, call[o].resource}

\* What a request keeps outlasts a step that leaves names where they lead.
LEMMA KeptOn ==
    ASSUME Inv, Leads, NEW p \in Requests, NEW r \in Request,
           Carries(p, r), Keeps(p, r), req'[p] = r
    PROVE  Keeps(p, req[p])'
<1>1. Tool(p)' = Tool(p) /\ Call(p)' = Call(p)
  BY DEF Leads, Tool, Call, Op
<1>2. r.phase \in {"read", "ready", "renamed", "identified"} =>
        /\ Op(p) \in DOMAIN call
        /\ Call(p).resource \in Repositories
        /\ Tool(p) = "rename" => Call(p).other \in Names
  BY CallType DEF Carries, Over, Inv
<1>3. r.phase \in {"read", "ready"} => r.seen.name \in Names
  BY DEF Carries, Held
<1>4. r.phase \in {"read", "ready"} /\ Tool(p) \in {"rename", "disable"} =>
        holder'[r.seen.name] = Call(p).resource
  BY <1>2, <1>3 DEF Leads, Keeps
<1>5. r.phase = "ready" /\ Tool(p) = "rename" =>
        holder'[Call(p).other] \in {NoRepository, Call(p).resource}
  BY <1>2 DEF Leads, Keeps, Call, Tool
<1>6. r.phase = "identified" => holder'[Call(p).other] = Call(p).resource
  BY <1>2 DEF Leads, Keeps, Carries
<1> QED
  BY <1>1, <1>4, <1>5, <1>6 DEF Keeps

\* A step that leaves names where they lead, and keeps its own request's word.
LEMMA KeepStep ==
    ASSUME Inv, KeepInv, Leads, NEW q \in Requests, \A p \in Requests \ {q} : req'[p] = req[p],
           \A r \in Repositories : holder'[registered'[r]] = r, Keeps(q, req[q])'
    PROVE  KeepInv'
<1>1. ASSUME NEW p \in Requests, p # q PROVE Keeps(p, req[p])'
  <2>1. req'[p] = req[p] /\ req[p] \in Request /\ Carries(p, req[p]) /\ Keeps(p, req[p])
    BY <1>1 DEF Inv, KeepInv
  <2> QED
    BY <2>1, KeptOn
<1> QED
  BY <1>1 DEF KeepInv

\* Without a change of names, all lead where they led.
LEMMA SameLeads == ASSUME holder' = holder, call' = call PROVE Leads
  BY DEF Leads

\* A step that leaves the names alone and ends in a phase that keeps nothing.
LEMMA KeepsNothing ==
    ASSUME Inv, KeepInv, NEW q \in Requests, \A p \in Requests \ {q} : req'[p] = req[p],
           holder' = holder, call' = call, registered' = registered,
           \/ req'[q].phase \notin {"read", "ready", "renamed", "identified"}
           \/ req'[q].phase = "ready" /\ Tool(q) \notin {"rename", "disable"}
    PROVE  KeepInv'
<1>1. Leads
  BY SameLeads
<1>2. Tool(q)' = Tool(q)
  BY DEF Tool, Call, Op
<1>3. Keeps(q, req[q])'
  BY <1>2 DEF Keeps
<1> QED
  BY <1>1, <1>3, KeepStep DEF KeepInv

\* A request that goes to a phase.
LEMMA GotoOnly ==
    ASSUME Inv, NEW q \in Requests, NEW phase \in Phases, Goto(q, phase)
    PROVE  (\A p \in Requests \ {q} : req'[p] = req[p]) /\ req'[q].phase = phase
  BY GotoMoves DEF Inv, Moves

\* A step that ends in a phase in which there is nothing to keep.
Settles(q) ==
    /\ \A p \in Requests \ {q} : req'[p] = req[p]
    /\ \/ req'[q].phase \notin {"read", "ready", "renamed", "identified"}
       \/ req'[q].phase = "ready" /\ Tool(q) \notin {"rename", "disable"}

\* The steps that neither read a name to keep nor change one.
LEMMA OthersKeep ==
    ASSUME Inv, KeepInv, NEW q \in Requests,
           \/ Pin(q) \/ Lookup(q) \/ RefuseUnreadable(q) \/ Die(q)
           \/ JudgePromotion(q) \/ Identify(q) \/ JudgeRollback(q) \/ Swap(q) \/ ReadBack(q)
           \/ RenameProject(q) \/ JudgeExport(q) \/ Dispatch(q) \/ RecordVerdict(q)
           \/ Repoint(q) \/ Report(q) \/ Save(q)
    PROVE  KeepInv'
<1>1. holder' = holder /\ call' = call /\ registered' = registered
  BY DEF Pin, Lookup, RefuseUnreadable, Die, JudgePromotion, Identify, JudgeRollback, Swap,
     ReadBack,
         RenameProject, JudgeExport, Dispatch, RecordVerdict, Repoint, Report, Save, Refuse, registry, provider
<1>2. req[q] \in Request /\ req \in [Requests -> Request] /\ Carries(q, req[q])
  BY DEF Inv
<1>3. ASSUME NEW phase \in Phases \ {"read", "ready", "renamed", "identified"}, Goto(q, phase)
      PROVE  Settles(q)
  BY <1>3, GotoOnly DEF Settles
<1>4. ASSUME Goto(q, "ready"), Tool(q) \notin {"rename", "disable"} PROVE Settles(q)
  <2>1. "ready" \in Phases
    BY DEF Phases
  <2> QED
    BY <1>4, <2>1, GotoOnly DEF Settles
<1>5. {"open", "written", "confirmed", "reported"} \cup Over
        \subseteq Phases \ {"read", "ready", "renamed", "identified"}
  BY DEF Phases, Over
<1>6. ASSUME Pin(q) PROVE Settles(q)
  BY <1>2, <1>6 DEF Pin, Request, Settles
<1>7. ASSUME Lookup(q) \/ RefuseUnreadable(q) \/ Die(q) \/ Report(q) \/ Save(q) PROVE Settles(q)
  BY <1>3, <1>5, <1>7 DEF Lookup, RefuseUnreadable, Refuse, Die, Report, Save, Over
<1>8. ASSUME JudgePromotion(q) PROVE Settles(q)
  <2>1. CASE Goto(q, "refused")
    BY <1>3, <1>5, <2>1 DEF Over
  <2>2. CASE req' = [req EXCEPT ![q].phase = "judged",
                                ![q].seen.head = head[Described(req[q].seen.name)],
                                ![q].seen.repository = Described(req[q].seen.name)]
    BY <1>2, <2>2 DEF Request, Settles
  <2> QED
    BY <1>8, <2>1, <2>2 DEF JudgePromotion
<1>9. ASSUME Identify(q) PROVE Settles(q)
  <2>1. CASE Goto(q, "refused")
    BY <1>3, <1>5, <2>1 DEF Over
  <2>2. CASE req' = [req EXCEPT ![q].phase = "ready", ![q].seen.name = registered[Call(q).resource]]
    <3>1. Tool(q) = "promote"
      BY <1>2, <1>9 DEF Identify, Carries
    <3> QED
      BY <1>2, <2>2, <3>1 DEF Request, Settles
  <2> QED
    BY <1>9, <2>1, <2>2 DEF Identify
<1>10. ASSUME JudgeRollback(q) PROVE Settles(q)
  BY <1>3, <1>4, <1>5, <1>10 DEF JudgeRollback, Over
<1>11. ASSUME JudgeExport(q) PROVE Settles(q)
  BY <1>3, <1>4, <1>5, <1>11 DEF JudgeExport, Over
<1>12. ASSUME Swap(q) \/ ReadBack(q) \/ RenameProject(q) \/ Dispatch(q) \/ Repoint(q) PROVE Settles(q)
  BY <1>3, <1>5, <1>12 DEF Swap, ReadBack, RenameProject, Dispatch, Repoint, Over
<1>13. ASSUME RecordVerdict(q) PROVE Settles(q)
  BY <1>2, <1>13 DEF RecordVerdict, Request, Settles
<1>14. Settles(q)
  BY <1>6, <1>7, <1>8, <1>9, <1>10, <1>11, <1>12, <1>13
<1> QED
  BY <1>1, <1>14, KeepsNothing DEF Settles

\* A request reads where its resource is registered.
LEMMA ReadRegistryKeeps == ASSUME Inv, KeepInv, NEW q \in Requests, ReadRegistry(q) PROVE KeepInv'
<1>1. holder' = holder /\ call' = call /\ registered' = registered
  BY DEF ReadRegistry, registry, provider
<1>2. req \in [Requests -> Request] /\ Carries(q, req[q]) /\ Op(q) \in DOMAIN call
  BY DEF Inv, ReadRegistry, Carries, Over
<1>3. req'[q].phase = "read" /\ req'[q].seen.name = registered[Subject(q)]
      /\ \A p \in Requests \ {q} : req'[p] = req[p]
  BY <1>2 DEF ReadRegistry, Request, NoSight
<1>4. Tool(q) \in {"rename", "disable"} => Subject(q) = Call(q).resource /\ Call(q).resource \in Repositories
  BY <1>2, CallType DEF Subject, Inv
<1>5. Keeps(q, req[q])'
  BY <1>1, <1>3, <1>4 DEF Keeps, KeepInv, Tool, Call, Op
<1> QED
  BY <1>1, <1>3, <1>5, SameLeads, KeepStep DEF KeepInv

\* A rename that is judged has described its own resource, and found the new name free.
LEMMA JudgeRenameKeeps == ASSUME Inv, KeepInv, NEW q \in Requests, JudgeRename(q) PROVE KeepInv'
<1>1. holder' = holder /\ call' = call /\ registered' = registered
  BY DEF JudgeRename, registry, provider
<1>2. req \in [Requests -> Request] /\ Keeps(q, req[q]) /\ req[q].phase = "read" /\ Tool(q) = "rename"
  BY DEF Inv, KeepInv, JudgeRename
<1>3. CASE Goto(q, "refused")
  <2>1. "refused" \in Phases
    BY DEF Phases, Over
  <2> QED
    BY <1>1, <1>3, <2>1, GotoOnly, KeepsNothing
<1>4. CASE /\ holder[Call(q).other] = NoRepository
           /\ req' = [req EXCEPT ![q].phase = "ready",
                                 ![q].seen.head = head[Described(req[q].seen.name)],
                                 ![q].seen.repository = Described(req[q].seen.name)]
  <2>1. /\ req'[q].phase = "ready" /\ req'[q].seen.repository = holder[req[q].seen.name]
        /\ req'[q].seen.name = req[q].seen.name
        /\ \A p \in Requests \ {q} : req'[p] = req[p]
    BY <1>2, <1>4 DEF Request, Sight, Described
  <2>2. holder[req[q].seen.name] = Call(q).resource
    BY <1>2 DEF Keeps
  <2>3. Keeps(q, req[q])'
    BY <1>1, <1>4, <2>1, <2>2 DEF Keeps, Tool, Call, Op
  <2> QED
    BY <1>1, <2>1, <2>3, SameLeads, KeepStep DEF KeepInv
<1> QED
  BY <1>3, <1>4 DEF JudgeRename

\* The provider takes the name for the resource it is claimed for.
LEMMA RenameAtProviderKeeps ==
    ASSUME Inv, KeepInv, NamesAreClaimedOnce, NEW q \in Requests, RenameAtProvider(q)
    PROVE  KeepInv'
<1>1. /\ req[q].phase = "ready" /\ Tool(q) = "rename" /\ Op(q) \in DOMAIN call
      /\ call' = call /\ registered' = registered
  BY DEF RenameAtProvider, Inv, Carries, Over, registry
<1>2. Call(q).resource \in Repositories /\ Call(q).other \in Names
  BY <1>1, CallType DEF Inv
<1>3. CASE Goto(q, "refused") /\ holder' = holder
  <2>1. "refused" \in Phases
    BY DEF Phases, Over
  <2> QED
    BY <1>1, <1>3, <2>1, GotoOnly, KeepsNothing
<1>4. CASE Goto(q, "renamed") /\ holder' = [holder EXCEPT ![Call(q).other] = Described(req[q].seen.name)]
  <2>1. Described(req[q].seen.name) = Call(q).resource /\ req[q].seen.repository = Call(q).resource
        /\ holder[Call(q).other] \in {NoRepository, Call(q).resource}
    BY <1>1 DEF KeepInv, Keeps, Described
  <2>2. PICK new, resource : new = Call(q).other /\ resource = Call(q).resource
    OBVIOUS
  <2>3. \A n \in Names : holder'[n] = IF n = new THEN resource ELSE holder[n]
    BY <1>4, <2>1, <2>2 DEF Inv, TypeOK
  <2>4. \A n \in Names : holder[n] \in Repositories => holder'[n] = holder[n]
    BY <2>1, <2>2, <2>3, ConstantsAssumption
  <2>5. ASSUME NEW o \in DOMAIN call, call[o].tool = "rename", call[o].other = new
        PROVE  call[o].resource = resource
    <3>1. call[Op(q)].tool = "rename" /\ call[Op(q)].other = new /\ call[Op(q)].resource = resource
      BY <1>1, <2>2 DEF Tool, Call
    <3> QED
      BY <1>1, <2>5, <3>1 DEF NamesAreClaimedOnce
  <2>6. Leads
    BY <1>1, <2>3, <2>4, <2>5 DEF Leads
  <2>7. "renamed" \in Phases /\ "renamed" \notin Over
    BY DEF Phases, Over
  <2>8. /\ req'[q].phase = "renamed" /\ req'[q].seen = req[q].seen
        /\ \A p \in Requests \ {q} : req'[p] = req[p]
    BY <1>4, <2>7, GotoMoves DEF Inv, Moves
  <2>9. Keeps(q, req[q])'
    BY <1>1, <2>1, <2>8 DEF Keeps, Tool, Call, Op
  <2>10. \A r \in Repositories : holder'[registered'[r]] = r
    BY <1>1, <2>4 DEF KeepInv, Inv, TypeOK
  <2> QED
    BY <2>6, <2>8, <2>9, <2>10, KeepStep
<1> QED
  BY <1>3, <1>4 DEF RenameAtProvider

\* An identified rename has its new name lead to its resource.
LEMMA CheckIdentityKeeps == ASSUME Inv, KeepInv, NEW q \in Requests, CheckIdentity(q) PROVE KeepInv'
<1>1. holder' = holder /\ call' = call /\ registered' = registered
  BY DEF CheckIdentity, registry, provider
<1>2. req[q].phase = "renamed" /\ Tool(q) = "rename" /\ Keeps(q, req[q])
  BY DEF Inv, KeepInv, Carries, CheckIdentity
<1>3. "refused" \in Phases /\ "identified" \in Phases
  BY DEF Phases, Over
<1>4. CASE Goto(q, "refused")
  BY <1>1, <1>3, <1>4, GotoOnly, KeepsNothing
<1>5. CASE Goto(q, "identified") /\ Described(Call(q).other) = req[q].seen.repository
  <2>1. req'[q].phase = "identified" /\ \A p \in Requests \ {q} : req'[p] = req[p]
    BY <1>3, <1>5, GotoOnly
  <2>2. holder[Call(q).other] = Call(q).resource
    BY <1>2, <1>5 DEF Keeps, Described
  <2>3. Keeps(q, req[q])'
    BY <1>1, <2>1, <2>2 DEF Keeps, Tool, Call, Op
  <2> QED
    BY <1>1, <2>1, <2>3, SameLeads, KeepStep DEF KeepInv
<1> QED
  BY <1>4, <1>5 DEF CheckIdentity

\* A registration is rewritten to a name that leads to its resource.
LEMMA RegistrationsKeep ==
    ASSUME Inv, KeepInv, NEW q \in Requests, Reregister(q) \/ Disable(q)
    PROVE  KeepInv'
<1>1. holder' = holder /\ call' = call
  BY DEF Reregister, Disable, provider
<1>2. PICK n : registered' = [registered EXCEPT ![Call(q).resource] = n] /\ holder[n] = Call(q).resource
  <2>1. CASE Reregister(q)
    BY <2>1 DEF Reregister, KeepInv, Keeps
  <2>2. CASE Disable(q)
    BY <2>2 DEF Disable, KeepInv, Keeps
  <2> QED
    BY <2>1, <2>2
<1>3. \A r \in Repositories : holder'[registered'[r]] = r
  BY <1>1, <1>2 DEF KeepInv, Inv, TypeOK
<1>4. PICK phase \in {"repointed", "confirmed"} : Goto(q, phase)
  BY DEF Reregister, Disable
<1>5. req'[q].phase = phase /\ \A p \in Requests \ {q} : req'[p] = req[p]
  <2>1. phase \in Phases
    BY <1>4 DEF Phases
  <2> QED
    BY <1>4, <2>1, GotoOnly
<1>6. Keeps(q, req[q])'
  BY <1>4, <1>5 DEF Keeps
<1> QED
  BY <1>1, <1>3, <1>5, <1>6, SameLeads, KeepStep

\* At first every resource is registered where the provider holds it.
LEMMA InitKeeps == Init => KeepInv
<1> SUFFICES ASSUME Init PROVE KeepInv
  OBVIOUS
<1>1. ASSUME NEW r \in Repositories PROVE holder[registered[r]] = r
  <2>1. FirstName[r] \in Names /\ \A s \in Repositories : FirstName[s] = FirstName[r] => s = r
    BY ConstantsAssumption
  <2>2. (CHOOSE s \in Repositories : FirstName[s] = FirstName[r]) = r
    BY <2>1
  <2> QED
    BY <2>1, <2>2 DEF Init
<1>2. ASSUME NEW q \in Requests PROVE Keeps(q, req[q])
  BY DEF Init, Idle, Keeps
<1> QED
  BY <1>1, <1>2 DEF KeepInv

\* No step makes a registration lead elsewhere.
LEMMA NextKeeps ==
    Inv /\ (NamesAreClaimedOnce => KeepInv) /\ [Next]_vars => (NamesAreClaimedOnce => KeepInv)'
<1> SUFFICES ASSUME Inv, NamesAreClaimedOnce => KeepInv, [Next]_vars, NamesAreClaimedOnce' PROVE KeepInv'
  OBVIOUS
<1>1. call' = call
  <2>1. CASE Next
    <3>1. ASSUME NEW q \in Requests, Step(q) PROVE call' = call
      BY <3>1 DEF Step, Pin, Lookup, ReadRegistry, RefuseUnreadable, Die, JudgePromotion,
         Identify, JudgeRollback,
           Swap, ReadBack, JudgeRename, RenameAtProvider, CheckIdentity, Reregister, RenameProject, JudgeExport,
           Dispatch, RecordVerdict, Disable, Repoint, Report, Save, Refuse
    <3> QED
      BY <2>1, <3>1 DEF Next, Transfer, Push
  <2> QED
    BY <2>1 DEF vars
<1>2. NamesAreClaimedOnce /\ KeepInv
  BY <1>1 DEF NamesAreClaimedOnce
<1>3. ASSUME NEW q \in Requests, Step(q) PROVE KeepInv'
  BY <1>2, <1>3, OthersKeep, ReadRegistryKeeps, JudgeRenameKeeps, RenameAtProviderKeeps,
     CheckIdentityKeeps,
     RegistrationsKeep DEF Step
<1>4. ASSUME holder' = holder, registered' = registered, req' = req PROVE KeepInv'
  BY <1>1, <1>2, <1>4 DEF KeepInv, Keeps, Tool, Call, Op
<1>5. CASE \E t \in transfers : Transfer(t)
  BY <1>4, <1>5 DEF Transfer, registry
<1>6. CASE \E r \in Repositories : Push(r)
  BY <1>4, <1>6 DEF Push, registry
<1>7. CASE UNCHANGED vars
  BY <1>4, <1>7 DEF vars
<1> QED
  BY <1>3, <1>5, <1>6, <1>7 DEF Next

\* However renames, disablings and re-pointings overlap and die: as long as no new name is wanted
\* for two repositories, each registration leads to the repository it was registered for
\* (rename.ts, assertRenamePreservedIdentity).
THEOREM RegistrationsLead == Spec => []RegistrationKeepsRepository
<1>1. KeepInv => \A r \in Repositories : holder[registered[r]] = r
  BY DEF KeepInv
<1>2. (NamesAreClaimedOnce => KeepInv) => RegistrationKeepsRepository
  BY <1>1 DEF RegistrationKeepsRepository
<1>3. Init => (NamesAreClaimedOnce => KeepInv)
  BY InitKeeps
<1> QED
  BY <1>2, <1>3, NextKeeps, Invariant, PTL DEF Spec
=============================================================================
