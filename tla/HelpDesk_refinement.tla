------------------------- MODULE HelpDesk_refinement -------------------------
(***************************************************************************)
(* With one handler or job run at a time the desk implements TicketWorkflow.*)
(*                                                                         *)
(* The argument: whoever is at work is alone (Alone), so the row he is     *)
(* about to write is still the one he read (StillSeen); therefore a ticket *)
(* is paused exactly while it is on hold (PausedOnHold), its status moves  *)
(* along the table and the time held is neither lost nor counted twice.    *)
(***************************************************************************)
EXTENDS HelpDesk_proofs

Alone ==
    /\ \A r, q \in Requests : req[r].pc # "idle" /\ req[q].pc # "idle" => r = q
    /\ \A w, v \in Workers : job[w].pc # "idle" /\ job[v].pc # "idle" => w = v
    /\ \A r \in Requests, w \in Workers : req[r].pc = "idle" \/ job[w].pc = "idle"

\* h: a handler, rows: the ticket table.
HandSees(h, rows) ==
    /\ h.pc = "write" => h.seen = View(rows[h.id])
    /\ h.pc = "assign" => h.seen.status = rows[h.id].status

JobSees(j, rows) == j.pc = "write" => j.seen = View(rows[j.id])

StillSeen ==
    /\ \A r \in Requests : HandSees(req[r], ticket)
    /\ \A w \in Workers : JobSees(job[w], ticket)

PausedRight(row) == row.pausedAt # NoTime <=> row.status = "ON_HOLD"

PausedOnHold == \A t \in Existing : PausedRight(ticket[t])

OneByOne == Alone /\ StillSeen /\ PausedOnHold

AllIdle == (\A r \in Requests : req[r].pc = "idle") /\ (\A w \in Workers : job[w].pc = "idle")

-----------------------------------------------------------------------------
(* What is in hand after a step.                                           *)

\* Handler r goes on with h, having been at work or having found nobody so.
HandStepsTo(r, h) ==
    /\ req' = [req EXCEPT ![r] = h] /\ job' = job
    /\ req[r].pc # "idle" \/ AllIdle
    /\ h.pc \in {"write", "assign"} => ticket' = ticket /\ HandSees(h, ticket)

JobStepsTo(w, j) ==
    /\ job' = [job EXCEPT ![w] = j] /\ req' = req
    /\ job[w].pc # "idle" \/ AllIdle
    /\ j.pc = "write" => ticket' = ticket /\ JobSees(j, ticket)

LEMMA ArriveHand ==
    ASSUME Serial, NEW r \in Requests, Arrive(r)
    PROVE  \E h : HandStepsTo(r, h)
<1>1. PICK u \in Users, t \in TicketIds :
         \/ \E a \in Users \cup {Nobody}, due \in {now + h : h \in SlaTargets} \cup {NoTime} :
               Create(r, u, t, a, due)
         \/ \E to \in Status : RequestTransition(r, u, t, to)
         \/ RequestResolve(r, u, t)
         \/ \E a \in Users : RequestAssign(r, u, t, a)
         \/ RequestComment(r, u, t)
         \/ \E a \in Users \cup {Nobody} : RequestUpdate(r, u, t, a)
  BY DEF Arrive, Start
<1>2. job' = job /\ \A w \in Workers : job[w].pc = "idle"
  BY DEF Arrive, slaVars
<1>3. ASSUME NEW h, CanStart(r), Continue(r, h),
             h.pc \in {"write", "assign"} => ticket' = ticket /\ HandSees(h, ticket)
      PROVE  HandStepsTo(r, h)
  BY <1>2, <1>3 DEF HandStepsTo, AllIdle, CanStart, Continue
<1>4. ASSUME NEW a, NEW due, Create(r, u, t, a, due) PROVE \E h : HandStepsTo(r, h)
  BY <1>3, <1>4 DEF Create, AuditNext, Idle
<1>5. ASSUME NEW to \in Status, RequestTransition(r, u, t, to) PROVE \E h : HandStepsTo(r, h)
  BY <1>3, <1>5 DEF RequestTransition, Idle
<1>6. CASE RequestResolve(r, u, t)
  BY <1>3, <1>6 DEF RequestResolve, Idle
<1>7. ASSUME NEW a \in Users, RequestAssign(r, u, t, a) PROVE \E h : HandStepsTo(r, h)
  <2> DEFINE h == [Idle EXCEPT !.pc = "assign", !.actor = u, !.id = t, !.assignee = a,
                               !.seen = [NothingSeen EXCEPT !.status = ticket[t].status]]
  <2>1. h.pc = "assign" /\ h.id = t /\ h.seen.status = ticket[t].status
    BY DEF Idle, NothingSeen
  <2>2. CanStart(r) /\ Continue(r, h) /\ ticket' = ticket
    BY <1>7 DEF RequestAssign
  <2> HIDE DEF h
  <2>3. HandSees(h, ticket)
    BY <2>1 DEF HandSees
  <2> QED BY <1>3, <2>2, <2>3
<1>8. CASE RequestComment(r, u, t)
  BY <1>3, <1>8 DEF RequestComment, Idle
<1>9. ASSUME NEW a, RequestUpdate(r, u, t, a) PROVE \E h : HandStepsTo(r, h)
  BY <1>3, <1>9 DEF RequestUpdate, Idle
<1> QED BY <1>1, <1>4, <1>5, <1>6, <1>7, <1>8, <1>9

LEMMA GoOnHand ==
    ASSUME Typed, NEW r \in Requests, GoOn(r)
    PROVE  \E h : HandStepsTo(r, h)
<1>1. job' = job /\ req[r] \in Request /\ req[r].pc # "idle"
  BY DEF GoOn, slaVars, Proceed, TransitionRead, TransitionWrite, AssignWrite, CommentWrite,
         UpdateWrite, Audit, Fail, Typed, TypeOK
<1>2. ASSUME NEW h, Continue(r, h),
             h.pc \in {"write", "assign"} => ticket' = ticket /\ HandSees(h, ticket)
      PROVE  HandStepsTo(r, h)
  BY <1>1, <1>2 DEF HandStepsTo, Continue
<1>3. Idle.pc = "idle" /\ \A t : AuditNext(t).pc = "audit"
  BY DEF Idle, AuditNext
<1>4. CASE TransitionRead(r)
  <2> DEFINE h == [req[r] EXCEPT !.pc = "write", !.seen = View(ticket[req[r].id])]
  <2>1. h.pc = "write" /\ h.id = req[r].id /\ h.seen = View(ticket[req[r].id])
    BY <1>1 DEF Request
  <2>2. ticket' = ticket /\ (Continue(r, h) \/ Continue(r, Idle))
    BY <1>4 DEF TransitionRead
  <2> HIDE DEF h
  <2>3. HandSees(h, ticket)
    BY <2>1 DEF HandSees
  <2> QED BY <1>2, <1>3, <2>2, <2>3
<1>5. CASE ~TransitionRead(r)
  <2>1. Continue(r, Idle) \/ Continue(r, AuditNext(req[r].id))
    BY <1>5 DEF GoOn, Proceed, TransitionWrite, AssignWrite, CommentWrite, UpdateWrite, Audit, Fail
  <2> QED BY <1>2, <1>3, <2>1
<1> QED BY <1>4, <1>5

LEMMA SlaHand ==
    ASSUME Typed, Serial, NEW w \in Workers, SlaNext(w)
    PROVE  \E j : JobStepsTo(w, j)
<1>1. req' = req /\ job[w] \in Job
  BY DEF SlaNext, RunOn, StartWarnings, StartEscalations, FlagWarning, SendWarning,
         EscalateRead, EscalateWrite, EscalateAudit, RaiseLevel, JobFail, deskVars, Typed, TypeOK
<1>2. job[w].pc # "idle" \/ AllIdle
  BY DEF SlaNext, RunOn, StartWarnings, StartEscalations, FlagWarning, SendWarning,
         EscalateRead, EscalateWrite, EscalateAudit, RaiseLevel, JobFail, JobCanStart, AllIdle
<1>3. ASSUME NEW j, Carry(w, j), j.pc = "write" => ticket' = ticket /\ JobSees(j, ticket)
      PROVE  JobStepsTo(w, j)
  BY <1>1, <1>2, <1>3 DEF JobStepsTo, Carry
<1>4. ASSUME NEW todo, NEW pc \in {"warn", "sweep"}, LoopOn(w, pc, todo)
      PROVE  \E j : JobStepsTo(w, j)
  BY <1>3, <1>4 DEF LoopOn, NoJob
<1>5. ASSUME NEW t \in TicketIds, FlagWarning(w, t) PROVE \E j : JobStepsTo(w, j)
  BY <1>3, <1>4, <1>5 DEF FlagWarning, NoJob
<1>6. ASSUME NEW t \in TicketIds, EscalateRead(w, t) PROVE \E j : JobStepsTo(w, j)
  <2> DEFINE j == [pc |-> "write", todo |-> job[w].todo \ {t}, id |-> t, seen |-> View(ticket[t])]
  <2>1. JobSees(j, ticket)
    BY DEF JobSees
  <2>2. ticket' = ticket /\ (Carry(w, j) \/ LoopOn(w, "sweep", job[w].todo \ {t}))
    BY <1>6 DEF EscalateRead, deskVars
  <2> HIDE DEF j
  <2> QED BY <1>3, <1>4, <2>1, <2>2
<1>7. CASE EscalateWrite(w) \/ EscalateAudit(w)
  <2>1. \A pc \in {"audit", "level"} : /\ [job[w] EXCEPT !.pc = pc, !.seen = NothingSeen].pc # "write"
                                       /\ [job[w] EXCEPT !.pc = pc].pc # "write"
    BY <1>1 DEF Job
  <2> QED BY <1>3, <1>4, <1>7, <2>1 DEF EscalateWrite, EscalateAudit
<1>8. CASE StartWarnings(w) \/ StartEscalations(w) \/ SendWarning(w) \/ RaiseLevel(w)
  BY <1>4, <1>8 DEF StartWarnings, StartEscalations, SendWarning, RaiseLevel
<1>9. CASE JobFail(w)
  BY <1>3, <1>4, <1>9 DEF JobFail, NoJob
<1> QED BY <1>5, <1>6, <1>7, <1>8, <1>9 DEF SlaNext, RunOn

-----------------------------------------------------------------------------
(* The invariant.                                                          *)

LEMMA HandStays ==
    ASSUME Typed, Alone, StillSeen, NEW r \in Requests, NEW h, HandStepsTo(r, h)
    PROVE  Alone' /\ StillSeen'
<1>1. /\ req \in [Requests -> Request] /\ job' = job
      /\ req'[r] = h /\ \A q \in Requests : q # r => req'[q] = req[q]
  BY DEF HandStepsTo, Typed, TypeOK
<1>2. /\ \A q \in Requests : q # r => req[q].pc = "idle"
      /\ \A w \in Workers : job[w].pc = "idle"
  BY DEF HandStepsTo, AllIdle, Alone
<1>3. Alone'
  BY <1>1, <1>2 DEF Alone
<1>4. StillSeen'
  <2>1. \A q \in Requests : q # r => HandSees(req[q], ticket)'
    BY <1>1, <1>2 DEF HandSees
  <2>2. HandSees(req[r], ticket)'
    BY <1>1 DEF HandSees, HandStepsTo
  <2>3. \A w \in Workers : JobSees(job[w], ticket)'
    BY <1>1, <1>2 DEF JobSees
  <2> QED BY <2>1, <2>2, <2>3 DEF StillSeen
<1> QED BY <1>3, <1>4

LEMMA JobStays ==
    ASSUME Typed, Alone, StillSeen, NEW w \in Workers, NEW j, JobStepsTo(w, j)
    PROVE  Alone' /\ StillSeen'
<1>1. /\ job \in [Workers -> Job] /\ req' = req
      /\ job'[w] = j /\ \A v \in Workers : v # w => job'[v] = job[v]
  BY DEF JobStepsTo, Typed, TypeOK
<1>2. /\ \A v \in Workers : v # w => job[v].pc = "idle"
      /\ \A r \in Requests : req[r].pc = "idle"
  BY DEF JobStepsTo, AllIdle, Alone
<1>3. Alone'
  BY <1>1, <1>2 DEF Alone
<1>4. StillSeen'
  <2>1. \A v \in Workers : v # w => JobSees(job[v], ticket)'
    BY <1>1, <1>2 DEF JobSees
  <2>2. JobSees(job[w], ticket)'
    BY <1>1 DEF JobSees, JobStepsTo
  <2>3. \A r \in Requests : HandSees(req[r], ticket)'
    BY <1>1, <1>2 DEF HandSees
  <2> QED BY <2>1, <2>2, <2>3 DEF StillSeen
<1> QED BY <1>3, <1>4

LEMMA AloneStays ==
    ASSUME Serial, Typed, Alone, StillSeen, [Next]_vars
    PROVE  Alone' /\ StillSeen'
<1>1. ASSUME NEW r \in Requests, Arrive(r) \/ GoOn(r) PROVE Alone' /\ StillSeen'
  BY <1>1, ArriveHand, GoOnHand, HandStays
<1>2. ASSUME NEW w \in Workers, SlaNext(w) PROVE Alone' /\ StillSeen'
  BY <1>2, SlaHand, JobStays
<1>3. CASE ClockTick \/ UNCHANGED vars
  <2>1. UNCHANGED <<req, job, ticket>>
    BY <1>3 DEF ClockTick, Tick, vars, deskVars, slaVars
  <2> QED BY <2>1 DEF Alone, StillSeen
<1> QED BY <1>1, <1>2, <1>3 DEF Next

\* One write of the state machine on the row as it is.
LEMMA MovedHeld ==
    ASSUME NEW row \in TicketRow, NEW seen, seen = View(row), NEW to \in Status,
           CanTransition(row.status, to), PausedRight(row), now \in Nat, PauseStarted(row, now),
           FitsColumn(row, seen)
    PROVE  /\ Moved(row, seen, to).status = to
           /\ PausedRight(Moved(row, seen, to))
           /\ Held(Moved(row, seen, to)) = Held(row)
<1>1. /\ seen.status = row.status /\ seen.pausedAt = row.pausedAt
  BY DEF View
<1>2. LeavesHold(seen) <=> row.status = "ON_HOLD"
  BY <1>1 DEF LeavesHold, PausedRight
<1>3. row.status = "ON_HOLD" => to # "ON_HOLD"
  BY DEF CanTransition, Allowed, Status
<1> DEFINE new == Moved(row, seen, to)
<1>4. /\ new.status = to
      /\ new.pausedAt = IF LeavesHold(seen) THEN NoTime ELSE IF to = "ON_HOLD" THEN now ELSE row.pausedAt
      /\ new.pausedMs = row.pausedMs + Elapsed(seen)
  BY DEF Moved, TicketRow
<1> HIDE DEF new
<1>5. row.pausedMs \in Int /\ row.pausedAt \in Nat \cup {NoTime} /\ now # NoTime
  BY NoTimeAssumption DEF TicketRow, OptTime
<1>6. CASE row.status = "ON_HOLD"
  <2>1. row.pausedAt \in Nat /\ new.pausedAt = NoTime /\ new.pausedMs = row.pausedMs + (now - row.pausedAt)
    BY <1>1, <1>2, <1>4, <1>5, <1>6 DEF Elapsed, PausedRight
  <2>2. Held(new) = Held(row)
    BY <1>5, <2>1, NoTimeAssumption DEF Held
  <2> QED BY <1>3, <1>4, <1>6, <2>1, <2>2 DEF PausedRight, new
<1>7. CASE row.status # "ON_HOLD"
  <2>1. row.pausedAt = NoTime /\ ~LeavesHold(seen) /\ new.pausedMs = row.pausedMs
    BY <1>2, <1>4, <1>5, <1>7 DEF Elapsed, PausedRight
  <2>2. new.pausedAt = IF to = "ON_HOLD" THEN now ELSE NoTime
    BY <1>4, <2>1
  <2>3. Held(new) = Held(row)
    BY <1>5, <2>1, <2>2 DEF Held
  <2> QED BY <1>4, <1>5, <2>2, <2>3 DEF PausedRight, new
<1> QED BY <1>6, <1>7

-----------------------------------------------------------------------------
(* What a step does to the row of one ticket, as TicketWorkflow sees it.   *)

StatusOf(row) == IF row = NoTicket THEN NoStatus ELSE row.status
HeldOf(row) == IF row = NoTicket THEN 0 ELSE Held(row)

\* Nothing that shows, a creation or a move along the table.
Shows(old, new, held) ==
    /\ held = HeldOf(old)
    /\ \/ StatusOf(new) = StatusOf(old)
       \/ StatusOf(old) = NoStatus /\ StatusOf(new) \in {"NEW", "ASSIGNED"}
       \/ /\ StatusOf(old) \in Status /\ StatusOf(new) \in Status
          /\ CanTransition(StatusOf(old), StatusOf(new))

LEMMA RowShows ==
    ASSUME Typed, OneByOne, [Next]_vars, now' = now, NEW t \in TicketIds
    PROVE  /\ Shows(ticket[t], ticket'[t], HeldOf(ticket'[t]))
           /\ t \in Existing' => PausedRight(ticket'[t])
<1>1. /\ RowChange(t) /\ now \in Nat
      /\ t \in Existing => ticket[t] \in TicketRow /\ PauseStarted(ticket[t], now) /\ PausedRight(ticket[t])
      /\ ticket[t] # NoTicket <=> t \in Existing
      /\ ticket'[t] # NoTicket <=> t \in Existing'
      /\ req \in [Requests -> Request] /\ job \in [Workers -> Job]
  BY RowChanges DEF Typed, TypeOK, InHand, OneByOne, PausedOnHold, Existing
<1>2. CASE Kept(t)
  BY <1>1, <1>2 DEF Kept, Shows
<1>3. CASE Created(t)
  <2>1. PICK row : /\ ticket'[t] = row /\ ticket[t] = NoTicket
                   /\ row.pausedAt = NoTime /\ row.pausedMs = 0 /\ row.status \in {"NEW", "ASSIGNED"}
    BY <1>3 DEF Created
  <2>2. HeldOf(row) = 0 /\ HeldOf(ticket[t]) = 0 /\ StatusOf(ticket[t]) = NoStatus
    BY <2>1 DEF HeldOf, Held, StatusOf
  <2>3. StatusOf(row) \in {"NEW", "ASSIGNED"} \/ StatusOf(row) = NoStatus
    BY <2>1 DEF StatusOf
  <2>4. PausedRight(row)
    BY <2>1 DEF PausedRight
  <2> QED BY <2>1, <2>2, <2>3, <2>4 DEF Shows
<1>4. ASSUME NEW seen, NEW to, NEW by, t \in Existing, t \in Existing',
             MovedAs(t, seen, to, by), seen = View(ticket[t])
      PROVE  Shows(ticket[t], ticket'[t], HeldOf(ticket'[t])) /\ PausedRight(ticket'[t])
  <2>1. /\ ticket[t] \in TicketRow /\ ticket[t].status \in Status /\ seen.status = ticket[t].status
        /\ CanTransition(ticket[t].status, to) /\ to \in Status /\ FitsColumn(ticket[t], seen)
        /\ ticket'[t] = Moved(ticket[t], seen, to)
    BY <1>1, <1>4 DEF MovedAs, View, Accepted, TicketRow
  <2>2. /\ ticket'[t].status = to /\ PausedRight(ticket'[t])
        /\ Held(ticket'[t]) = Held(ticket[t])
    BY <1>1, <1>4, <2>1, MovedHeld
  <2> QED BY <1>1, <1>4, <2>1, <2>2 DEF Shows, StatusOf, HeldOf
<1>5. ASSUME t \in Existing, t \in Existing',
             ticket'[t].status = ticket[t].status \/ CanTransition(ticket[t].status, ticket'[t].status),
             ticket'[t].status \in Status,
             ticket'[t].status # ticket[t].status => "ON_HOLD" \notin {ticket[t].status, ticket'[t].status},
             ticket'[t].pausedAt = ticket[t].pausedAt, ticket'[t].pausedMs = ticket[t].pausedMs
      PROVE  Shows(ticket[t], ticket'[t], HeldOf(ticket'[t])) /\ PausedRight(ticket'[t])
  <2>1. PausedRight(ticket'[t]) /\ ticket[t].status \in Status
    BY <1>1, <1>5 DEF PausedRight, TicketRow
  <2>2. Held(ticket'[t]) = Held(ticket[t])
    BY <1>5 DEF Held
  <2> QED BY <1>1, <1>5, <2>1, <2>2 DEF Shows, StatusOf, HeldOf
<1>6. CASE t \in Existing /\ t \in Existing' /\ MovedByRequest(t)
  <2>1. PICK r \in Requests : /\ req[r].pc = "write" /\ req[r].id = t
                              /\ MovedAs(t, req[r].seen, req[r].to, req[r].actor)
    BY <1>6 DEF MovedByRequest
  <2>2. req[r].seen = View(ticket[t])
    BY <2>1 DEF OneByOne, StillSeen, HandSees
  <2> QED BY <1>4, <1>6, <2>1, <2>2
<1>7. CASE t \in Existing /\ t \in Existing' /\ MovedBySweep(t)
  <2>1. PICK w \in Workers : /\ job[w].pc = "write" /\ job[w].id = t
                             /\ MovedAs(t, job[w].seen, "ESCALATED", System)
    BY <1>7 DEF MovedBySweep
  <2>2. job[w].seen = View(ticket[t])
    BY <2>1 DEF OneByOne, StillSeen, JobSees
  <2> QED BY <1>4, <1>7, <2>1, <2>2
<1>8. CASE t \in Existing /\ t \in Existing' /\ Assigned(t)
  <2>1. PICK r \in Requests :
           /\ req[r].pc = "assign" /\ req[r].id = t
           /\ ticket'[t] = [ticket[t] EXCEPT !.assignee = req[r].assignee,
                                             !.status = AssignedStatus(req[r].seen.status)]
    BY <1>8 DEF Assigned
  <2>2. req[r].seen.status = ticket[t].status
    BY <2>1 DEF OneByOne, StillSeen, HandSees
  <2>3. ticket[t] \in TicketRow /\ ticket[t].status \in Status
    BY <1>1, <1>8 DEF TicketRow
  <2>4. /\ ticket'[t].status = AssignedStatus(ticket[t].status)
        /\ ticket'[t].pausedAt = ticket[t].pausedAt /\ ticket'[t].pausedMs = ticket[t].pausedMs
    BY <2>1, <2>2, <2>3 DEF TicketRow
  <2>5. CanTransition("NEW", "ASSIGNED")
    BY DEF CanTransition, Allowed, Status
  <2>6. /\ ticket'[t].status = ticket[t].status \/ CanTransition(ticket[t].status, ticket'[t].status)
        /\ ticket'[t].status \in Status
        /\ ticket'[t].status # ticket[t].status => "ON_HOLD" \notin {ticket[t].status, ticket'[t].status}
    BY <2>3, <2>4, <2>5 DEF AssignedStatus, Status
  <2> QED BY <1>5, <1>8, <2>4, <2>6
<1>9. CASE t \in Existing /\ t \in Existing' /\ Edited(t)
  <2>1. ticket[t] \in TicketRow /\ ticket[t].status \in Status
    BY <1>1, <1>9 DEF TicketRow
  <2>2. /\ ticket'[t].status = ticket[t].status
        /\ ticket'[t].pausedAt = ticket[t].pausedAt /\ ticket'[t].pausedMs = ticket[t].pausedMs
    BY <1>9, <2>1 DEF Edited, TicketRow
  <2> QED BY <1>5, <1>9, <2>1, <2>2
<1> QED BY <1>1, <1>2, <1>3, <1>6, <1>7, <1>8, <1>9 DEF RowChange

LEMMA OneByOneStays ==
    ASSUME Serial, Typed, OneByOne, [Next]_vars
    PROVE  OneByOne'
<1>1. Alone' /\ StillSeen'
  BY AloneStays DEF OneByOne
<1>2. CASE ClockTick
  <2>1. ticket' = ticket
    BY <1>2 DEF ClockTick, Tick
  <2> QED BY <1>1, <2>1 DEF OneByOne, PausedOnHold, Existing
<1>3. CASE now' = now
  <2>1. \A t \in TicketIds : t \in Existing' => PausedRight(ticket'[t])
    BY <1>3, RowShows
  <2>2. PausedOnHold'
    BY <2>1 DEF PausedOnHold, Existing, PausedRight
  <2> QED BY <1>1, <2>2 DEF OneByOne
<1> QED BY <1>2, <1>3, OnlyTicks

LEMMA OneByOneInit == Init => OneByOne
<1> SUFFICES ASSUME Init PROVE OneByOne
  OBVIOUS
<1>1. /\ \A r \in Requests : req[r].pc = "idle"
      /\ \A w \in Workers : job[w].pc = "idle"
      /\ Existing = {}
  BY DEF Init, DeskInit, SlaInit, Idle, NoJob, Existing
<1> QED BY <1>1 DEF OneByOne, Alone, StillSeen, HandSees, JobSees, PausedOnHold

-----------------------------------------------------------------------------
(* The refinement.                                                         *)

AbsStatus == [t \in TicketIds |-> IF ticket[t] = NoTicket THEN NoStatus ELSE ticket[t].status]
AbsHeld == [t \in TicketIds |-> IF ticket[t] = NoTicket THEN 0 ELSE Held(ticket[t])]

\* At most one row is written in a step.
LEMMA OneRow ==
    ASSUME Typed, [Next]_vars
    PROVE  UNCHANGED ticket \/ \E t \in TicketIds : \E row : ticket' = [ticket EXCEPT ![t] = row]
<1>1. ASSUME NEW r \in Requests, Arrive(r)
      PROVE  UNCHANGED ticket \/ \E t \in TicketIds : \E row : ticket' = [ticket EXCEPT ![t] = row]
  <2>1. \/ \E u \in Users, s \in TicketIds, a \in Users \cup {Nobody},
              due \in {now + h : h \in SlaTargets} \cup {NoTime} : Create(r, u, s, a, due)
        \/ UNCHANGED ticket
    BY <1>1 DEF Arrive, Start, RequestTransition, RequestResolve, RequestAssign,
                RequestComment, RequestUpdate
  <2> QED BY <2>1 DEF Create
<1>2. ASSUME NEW r \in Requests, GoOn(r)
      PROVE  UNCHANGED ticket \/ \E t \in TicketIds : \E row : ticket' = [ticket EXCEPT ![t] = row]
  <2>1. req[r].pc # "idle" => req[r].id \in TicketIds /\ ticket[req[r].id] \in TicketRow
    BY DEF Typed, TypeOK, InHand, HandOK, Existing
  <2>2. \/ TransitionWrite(r) \/ AssignWrite(r) \/ UpdateWrite(r)
        \/ UNCHANGED ticket
    BY <1>2 DEF GoOn, Proceed, TransitionRead, CommentWrite, Audit, Fail
  <2>3. CASE AssignWrite(r)
    <3>1. PICK id, a, st : /\ id = req[r].id
                           /\ ticket' = [ticket EXCEPT ![id].assignee = a, ![id].status = st]
      BY <2>3 DEF AssignWrite
    <3>2. id \in TicketIds /\ ticket \in [TicketIds -> TicketRow \cup {NoTicket}]
      BY <2>1, <2>3, <3>1 DEF AssignWrite, Typed, TypeOK
    <3>3. ticket' = [ticket EXCEPT ![id] = [ticket[id] EXCEPT !.assignee = a, !.status = st]]
      BY <3>1, <3>2
    <3> QED BY <3>2, <3>3
  <2> QED BY <2>1, <2>2, <2>3 DEF TransitionWrite, WriteStatus, UpdateWrite
<1>3. ASSUME NEW w \in Workers, SlaNext(w)
      PROVE  UNCHANGED ticket \/ \E t \in TicketIds : \E row : ticket' = [ticket EXCEPT ![t] = row]
  <2>1. job[w].pc = "write" => job[w].id \in TicketIds
    BY DEF Typed, InHand, JobOK, Existing
  <2>2. \/ \E s \in TicketIds : FlagWarning(w, s)
        \/ EscalateWrite(w)
        \/ UNCHANGED ticket
    BY <1>3 DEF SlaNext, RunOn, StartWarnings, StartEscalations, SendWarning, EscalateRead,
                EscalateAudit, RaiseLevel, JobFail, deskVars
  <2> QED BY <2>1, <2>2 DEF FlagWarning, EscalateWrite, WriteStatus
<1>4. CASE ClockTick \/ UNCHANGED vars
  BY <1>4 DEF ClockTick, Tick, vars, deskVars
<1> QED BY <1>1, <1>2, <1>3, <1>4 DEF Next

\* The same at clock n.
HeldAt(row, n) ==
    IF row = NoTicket THEN 0
    ELSE row.pausedMs + (IF row.pausedAt = NoTime THEN 0 ELSE n - row.pausedAt)

LEMMA OneTickLonger ==
    ASSUME NEW row, NEW n \in Nat, row # NoTicket => row \in TicketRow /\ PausedRight(row)
    PROVE  HeldAt(row, n + 1) = IF StatusOf(row) = "ON_HOLD" THEN HeldAt(row, n) + 1 ELSE HeldAt(row, n)
<1>1. CASE row = NoTicket
  BY <1>1 DEF HeldAt, StatusOf, NoStatus
<1>2. CASE row # NoTicket /\ row.pausedAt = NoTime
  BY <1>2 DEF HeldAt, StatusOf, PausedRight
<1>3. CASE row # NoTicket /\ row.pausedAt # NoTime
  <2>1. row.pausedMs \in Int /\ row.pausedAt \in Int /\ StatusOf(row) = "ON_HOLD"
    BY <1>3 DEF TicketRow, OptTime, PausedRight, StatusOf
  <2>2. /\ HeldAt(row, n) = row.pausedMs + (n - row.pausedAt)
        /\ HeldAt(row, n + 1) = row.pausedMs + (n + 1 - row.pausedAt)
    BY <1>3, <2>1 DEF HeldAt
  <2> QED BY <2>1, <2>2
<1> QED BY <1>1, <1>2, <1>3

LEMMA Mapping ==
    /\ AbsStatus = [t \in TicketIds |-> StatusOf(ticket[t])]
    /\ AbsHeld = [t \in TicketIds |-> HeldAt(ticket[t], now)]
    /\ AbsStatus' = [t \in TicketIds |-> StatusOf(ticket'[t])]
    /\ AbsHeld' = [t \in TicketIds |-> HeldAt(ticket'[t], now')]
BY DEF AbsStatus, AbsHeld, StatusOf, HeldAt, Held

LEMMA TickRefines ==
    ASSUME Typed, OneByOne, ClockTick
    PROVE  Workflow!TimePasses
<1>1. ticket' = ticket /\ now' = now + 1 /\ now \in Nat
  BY DEF ClockTick, Tick, Typed, TypeOK
<1>2. AbsStatus' = AbsStatus
  BY <1>1 DEF AbsStatus
<1>3. AbsHeld' = [t \in TicketIds |-> IF AbsStatus[t] = "ON_HOLD" THEN AbsHeld[t] + 1 ELSE AbsHeld[t]]
  <2>1. ASSUME NEW t \in TicketIds
        PROVE  HeldAt(ticket[t], now + 1) = IF AbsStatus[t] = "ON_HOLD" THEN AbsHeld[t] + 1 ELSE AbsHeld[t]
    <3>1. ticket[t] # NoTicket => ticket[t] \in TicketRow /\ PausedRight(ticket[t])
      BY DEF Typed, TypeOK, OneByOne, PausedOnHold, Existing
    <3>2. AbsStatus[t] = StatusOf(ticket[t]) /\ AbsHeld[t] = HeldAt(ticket[t], now)
      BY Mapping
    <3> QED BY <1>1, <3>1, <3>2, OneTickLonger
  <2>2. AbsHeld' = [t \in TicketIds |-> HeldAt(ticket[t], now + 1)]
    BY <1>1, Mapping
  <2> QED BY <2>1, <2>2
<1> QED BY <1>2, <1>3 DEF Workflow!TimePasses, AbsStatus, AbsHeld

\* The abstract workflow reads the same table.
LEMMA SameTable ==
    Status = Workflow!Status /\ \A from, to : CanTransition(from, to) <=> Workflow!CanTransition(from, to)
BY DEF CanTransition, Allowed, Status, Workflow!CanTransition, Workflow!Allowed, Workflow!Status

LEMMA StepRefines ==
    ASSUME Typed, OneByOne, [Next]_vars, now' = now
    PROVE  [Workflow!WfNext]_(Workflow!wfVars)
<1>1. AbsHeld' = AbsHeld
  <2>1. ASSUME NEW t \in TicketIds PROVE HeldAt(ticket'[t], now') = HeldAt(ticket[t], now)
    BY RowShows DEF Shows, HeldOf, Held, HeldAt
  <2> QED BY <2>1, Mapping
<1>2. CASE UNCHANGED ticket
  <2>1. AbsStatus' = AbsStatus
    BY <1>2 DEF AbsStatus
  <2> QED BY <1>1, <2>1 DEF Workflow!wfVars, AbsStatus, AbsHeld
<1>3. ASSUME NEW t \in TicketIds, NEW row, ticket' = [ticket EXCEPT ![t] = row]
      PROVE  [Workflow!WfNext]_(Workflow!wfVars)
  <2>1. ticket \in [TicketIds -> TicketRow \cup {NoTicket}]
    BY DEF Typed, TypeOK
  <2>2. AbsStatus' = [AbsStatus EXCEPT ![t] = StatusOf(row)]
    <3>1. ASSUME NEW s \in TicketIds PROVE StatusOf(ticket'[s]) = IF s = t THEN StatusOf(row) ELSE StatusOf(ticket[s])
      BY <1>3, <2>1
    <3> QED BY <3>1, Mapping
  <2>3. Shows(ticket[t], row, HeldOf(row))
    <3>1. ticket'[t] = row
      BY <1>3, <2>1
    <3> QED BY <3>1, RowShows
  <2>4. AbsStatus[t] = StatusOf(ticket[t]) /\ AbsStatus = [AbsStatus EXCEPT ![t] = AbsStatus[t]]
    BY Mapping
  <2>5. CASE StatusOf(row) = StatusOf(ticket[t])
    <3>1. AbsStatus' = AbsStatus
      BY <2>2, <2>4, <2>5
    <3> QED BY <1>1, <3>1 DEF Workflow!wfVars, AbsStatus, AbsHeld
  <2>6. CASE StatusOf(ticket[t]) = NoStatus /\ StatusOf(row) \in {"NEW", "ASSIGNED"}
    <3>1. Workflow!Raise(t)
      BY <1>1, <2>2, <2>4, <2>6 DEF Workflow!Raise, AbsStatus, AbsHeld, NoStatus, Workflow!NoStatus
    <3> QED BY <3>1 DEF Workflow!WfNext
  <2>7. CASE /\ StatusOf(ticket[t]) \in Status /\ StatusOf(row) \in Status
             /\ CanTransition(StatusOf(ticket[t]), StatusOf(row))
    <3>1. Workflow!Move(t, StatusOf(row))
      BY <1>1, <2>2, <2>4, <2>7, SameTable DEF Workflow!Move, AbsStatus, AbsHeld
    <3> QED BY <2>7, <3>1, SameTable DEF Workflow!WfNext
  <2> QED BY <2>3, <2>5, <2>6, <2>7 DEF Shows
<1> QED BY <1>2, <1>3, OneRow

LEMMA InitRefines == Init => Workflow!WfInit
<1> SUFFICES ASSUME Init PROVE Workflow!WfInit
  OBVIOUS
<1>1. ticket = [t \in TicketIds |-> NoTicket]
  BY DEF Init, DeskInit
<1>2. AbsStatus = [t \in TicketIds |-> NoStatus] /\ AbsHeld = [t \in TicketIds |-> 0]
  BY <1>1 DEF AbsStatus, AbsHeld
<1> QED BY <1>2 DEF Workflow!WfInit, AbsStatus, AbsHeld, NoStatus, Workflow!NoStatus

(* With one handler or job run at a time every ticket moves along the       *)
(* transition table of ticket-state-machine.service.ts and nowhere else, and *)
(* slaPausedMs with the pause under way is the time it has spent on hold.   *)
THEOREM SerialImplements == ASSUME Serial PROVE Spec => ImplementsWorkflow
<1>1. ASSUME Typed, OneByOne, [Next]_vars
      PROVE  [Workflow!WfNext]_(Workflow!wfVars)
  <2>1. CASE ClockTick
    BY <1>1, <2>1, TickRefines DEF Workflow!WfNext
  <2>2. CASE now' = now
    BY <1>1, <2>2, StepRefines
  <2> QED BY <1>1, <2>1, <2>2, OnlyTicks
<1>2. ASSUME Typed, OneByOne, [Next]_vars PROVE OneByOne'
  BY <1>2, OneByOneStays
<1> QED
  BY AlwaysTyped, OneByOneInit, <1>1, <1>2, InitRefines, PTL
     DEF Spec, ImplementsWorkflow, Workflow!WfSpec
=============================================================================
