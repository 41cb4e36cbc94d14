--------------------------- MODULE HelpDesk_proofs ---------------------------
(***************************************************************************)
(* Proofs about HelpDesk, for every number of users, requests, job runs    *)
(* and tickets, and for every clock.                                       *)
(*                                                                         *)
(* Four parts: the types and what handlers and job runs have in hand; what *)
(* the history and the dates of a ticket say; when it is warned about; and *)
(* which records a cut-off costs.                                          *)
(***************************************************************************)
EXTENDS HelpDesk, FiniteSetTheorems, TLAPS

(* What the proofs use of the transition table. *)
LEMMA TableFacts ==
    ASSUME NEW s \in Status, NEW to, CanTransition(s, to)
    PROVE  /\ to \in Status \ {"NEW"}
           /\ to = "CLOSED" => s = "RESOLVED"
           /\ to = "REOPENED" => s \in {"RESOLVED", "CLOSED"}
BY DEF CanTransition, Allowed, Status

(* The row the state machine writes is a row of the table. *)
LEMMA MovedType ==
    ASSUME NEW row \in TicketRow, NEW seen \in Seen, NEW to \in Status,
           now \in Nat, PauseStarted(seen, now), FitsColumn(row, seen)
    PROVE  /\ Moved(row, seen, to) \in TicketRow
           /\ Moved(row, seen, to).status = to
           /\ Moved(row, seen, to).pausedMs >= row.pausedMs
           /\ PauseStarted(row, now) => PauseStarted(Moved(row, seen, to), now)
<1> USE NoTimeAssumption, BoundsAssumption
<1>1. Elapsed(seen) \in Nat
  BY DEF Elapsed, LeavesHold, Seen, OptTime, PauseStarted
<1>2. row.pausedMs + Elapsed(seen) \in 0..IntMax
  BY <1>1 DEF FitsColumn, TicketRow
<1>3. now \in OptTime /\ NoTime \in OptTime
  BY DEF OptTime
<1>4. Moved(row, seen, to) \in TicketRow
  BY <1>2, <1>3 DEF Moved, TicketRow
<1>5. QED
  BY <1>1, <1>4 DEF Moved, TicketRow, PauseStarted

(***************************************************************************)
(* Types and what is in hand.  TypeOK and InHand are proved together: the  *)
(* type of a written row depends on what the writer carries, and what it   *)
(* carries points at rows of the table.                                    *)
(***************************************************************************)
Typed == TypeOK /\ InHand

(* What is in hand stays valid while the table grows and the clock advances. *)
LEMMA Lasting ==
    ASSUME NEW m \in Nat, NEW n \in Nat, m <= n, NEW S, NEW T, S \subseteq T
    PROVE  /\ \A h \in Request : HandOK(h, S, m) => HandOK(h, T, n)
           /\ \A j \in Job : JobOK(j, S, m) => JobOK(j, T, n)
           /\ \A row \in TicketRow : PauseStarted(row, m) => PauseStarted(row, n)
<1> USE NoTimeAssumption
<1>1. \A s \in Seen : PauseStarted(s, m) => PauseStarted(s, n)
  BY DEF PauseStarted, Seen, OptTime
<1>2. \A row \in TicketRow : PauseStarted(row, m) => PauseStarted(row, n)
  BY DEF PauseStarted, TicketRow, OptTime
<1>3. \A h \in Request : HandOK(h, S, m) => HandOK(h, T, n)
  BY <1>1 DEF HandOK, Request
<1>4. \A j \in Job : JobOK(j, S, m) => JobOK(j, T, n)
  BY <1>1 DEF JobOK, Job
<1>5. QED BY <1>2, <1>3, <1>4

(* The table grew or stayed, and so did the clock. *)
Growing == now' \in Nat /\ now <= now' /\ Existing \subseteq Existing'

(* A slot takes up a valid handler. *)
LEMMA HandStep ==
    ASSUME Typed, NEW r \in Requests, NEW h \in Request, HandOK(h, Existing', now'),
           Continue(r, h), Growing
    PROVE  /\ req' \in [Requests -> Request]
           /\ \A q \in Requests : HandOK(req'[q], Existing', now')
<1>1. req \in [Requests -> Request] /\ now \in Nat
      /\ \A q \in Requests : HandOK(req[q], Existing, now)
  BY DEF Typed, TypeOK, InHand
<1>2. req' = [req EXCEPT ![r] = h]
  BY DEF Continue
<1>3. \A q \in Requests : HandOK(req[q], Existing', now')
  BY <1>1, Lasting DEF Growing
<1>4. QED BY <1>1, <1>2, <1>3

(* So does a worker. *)
LEMMA JobStep ==
    ASSUME Typed, NEW w \in Workers, NEW j \in Job, JobOK(j, Existing', now'),
           Carry(w, j), Growing
    PROVE  /\ job' \in [Workers -> Job]
           /\ \A v \in Workers : JobOK(job'[v], Existing', now')
<1>1. job \in [Workers -> Job] /\ now \in Nat
      /\ \A v \in Workers : JobOK(job[v], Existing, now)
  BY DEF Typed, TypeOK, InHand
<1>2. job' = [job EXCEPT ![w] = j]
  BY DEF Carry
<1>3. \A v \in Workers : JobOK(job[v], Existing', now')
  BY <1>1, Lasting DEF Growing
<1>4. QED BY <1>1, <1>2, <1>3

(* One row is written. *)
LEMMA RowStep ==
    ASSUME Typed, NEW t \in TicketIds, NEW row \in TicketRow, PauseStarted(row, now),
           ticket' = [ticket EXCEPT ![t] = row]
    PROVE  /\ ticket' \in [TicketIds -> TicketRow \cup {NoTicket}]
           /\ Existing' = Existing \cup {t}
           /\ \A s \in Existing' : PauseStarted(ticket'[s], now)
<1>1. ticket \in [TicketIds -> TicketRow \cup {NoTicket}]
      /\ \A s \in Existing : PauseStarted(ticket[s], now)
  BY DEF Typed, TypeOK, InHand
<1>2. QED BY <1>1, NoTicketAssumption DEF Existing

(* Nothing but the hands, the counters and the clock moves. *)
LEMMA ClockStep ==
    ASSUME Typed, now' \in Nat, now <= now', ticket' = ticket
    PROVE  Growing /\ Existing' = Existing
           /\ \A s \in Existing' : PauseStarted(ticket'[s], now')
<1>1. Existing' = Existing
  BY DEF Existing
<1>2. \A s \in Existing : ticket[s] \in TicketRow
  BY DEF Existing, Typed, TypeOK
<1>3. QED BY <1>1, <1>2, Lasting DEF Growing, Typed, TypeOK, InHand

(* Jobs that are left alone stay valid, and so do handlers. *)
LEMMA OthersKeep ==
    ASSUME Typed, Growing
    PROVE  /\ UNCHANGED job => /\ job' \in [Workers -> Job]
                                /\ \A w \in Workers : JobOK(job'[w], Existing', now')
           /\ UNCHANGED req => /\ req' \in [Requests -> Request]
                                /\ \A r \in Requests : HandOK(req'[r], Existing', now')
BY Lasting DEF Typed, TypeOK, InHand, Growing

(* The records handlers put in hand are of their types and valid.              *)
LEMMA HandFacts ==
    /\ Idle \in Request
    /\ \A ids, time : HandOK(Idle, ids, time)
    /\ \A t \in TicketIds : AuditNext(t) \in Request
    /\ \A ids, time : \A t \in ids : HandOK(AuditNext(t), ids, time)
    /\ \A row \in TicketRow : View(row) \in Seen /\ View(row).status \in Status
    /\ \A row, time : PauseStarted(row, time) => PauseStarted(View(row), time)
    /\ NothingSeen \in Seen
    /\ \A s \in Status : [NothingSeen EXCEPT !.status = s] \in Seen
    /\ Existing \subseteq TicketIds
<1>1. NothingSeen \in Seen /\ \A s \in Status : [NothingSeen EXCEPT !.status = s] \in Seen
  BY DEF NothingSeen, Seen, OptTime
<1>2. Idle \in Request
  BY <1>1, BoundsAssumption DEF Request, PC, Idle
<1>3. ASSUME NEW t \in TicketIds PROVE AuditNext(t) \in Request
  <2>1. t \in 0..MaxTickets
    BY BoundsAssumption DEF TicketIds
  <2>2. QED BY <1>1, <2>1 DEF AuditNext, Idle, Request, PC
<1>4. \A ids, time : HandOK(Idle, ids, time)
  BY DEF HandOK, PauseStarted, Idle, NothingSeen
<1>5. \A ids, time : \A t \in ids : HandOK(AuditNext(t), ids, time)
  BY DEF HandOK, PauseStarted, AuditNext, Idle, NothingSeen
<1>6. \A row \in TicketRow : View(row) \in Seen /\ View(row).status \in Status
  BY DEF View, TicketRow, Seen
<1>7. \A row, time : PauseStarted(row, time) => PauseStarted(View(row), time)
  BY DEF View, PauseStarted
<1>8. Existing \subseteq TicketIds
  BY DEF Existing
<1>9. QED BY <1>1, <1>2, <1>3, <1>4, <1>5, <1>6, <1>7, <1>8

(* A handler that reads: only its own slot changes. *)
LEMMA ReadTyped ==
    ASSUME Typed, NEW r \in Requests, NEW h \in Request, HandOK(h, Existing, now),
           Continue(r, h), UNCHANGED slaVars,
           UNCHANGED <<now, ticket, lastRow>>,
           comments' \in [TicketIds -> Nat], unaudited' \in [TicketIds -> Int], faults' \in Nat
    PROVE  Typed'
<1>1. Growing /\ Existing' = Existing /\ \A s \in Existing' : PauseStarted(ticket'[s], now')
  BY ClockStep DEF Typed, TypeOK
<1>2. HandOK(h, Existing', now')
  BY <1>1
<1>3. /\ req' \in [Requests -> Request]
      /\ \A q \in Requests : HandOK(req'[q], Existing', now')
  BY <1>1, <1>2, HandStep
<1>4. /\ job' \in [Workers -> Job]
      /\ \A w \in Workers : JobOK(job'[w], Existing', now')
  BY <1>1, OthersKeep DEF slaVars
<1>5. TypeOK'
  BY <1>3, <1>4 DEF Typed, TypeOK, slaVars
<1>6. QED BY <1>1, <1>3, <1>4, <1>5 DEF Typed, InHand

(* A handler that writes one row of the table. *)
LEMMA WriteTyped ==
    ASSUME Typed, NEW r \in Requests, NEW t \in TicketIds, NEW row \in TicketRow,
           PauseStarted(row, now), ticket' = [ticket EXCEPT ![t] = row],
           Continue(r, AuditNext(t)), UNCHANGED slaVars, UNCHANGED <<now, comments, faults>>,
           unaudited' = [unaudited EXCEPT ![t] = @ + 1],
           lastRow' \in [TicketIds -> HistoryRow \cup {NoTicket}]
    PROVE  Typed'
<1>1. /\ ticket' \in [TicketIds -> TicketRow \cup {NoTicket}]
      /\ Existing' = Existing \cup {t}
      /\ \A s \in Existing' : PauseStarted(ticket'[s], now')
  BY RowStep
<1>2. Growing
  BY <1>1 DEF Growing, Typed, TypeOK
<1>3. HandOK(AuditNext(t), Existing', now') /\ AuditNext(t) \in Request
  BY <1>1, HandFacts
<1>4. /\ req' \in [Requests -> Request]
      /\ \A q \in Requests : HandOK(req'[q], Existing', now')
  BY <1>2, <1>3, HandStep
<1>5. /\ job' \in [Workers -> Job]
      /\ \A w \in Workers : JobOK(job'[w], Existing', now')
  BY <1>2, OthersKeep DEF slaVars
<1>6. TypeOK'
  BY <1>1, <1>4, <1>5 DEF Typed, TypeOK, slaVars
<1>7. QED BY <1>1, <1>4, <1>5, <1>6 DEF Typed, InHand

(* Every arriving request keeps the types. *)
LEMMA ArriveTyped ==
    ASSUME Typed, NEW r \in Requests, Arrive(r)
    PROVE  Typed'
<1> USE DEF Typed
<1>0. now \in Nat /\ \A t \in Existing : ticket[t] \in TicketRow
  BY DEF TypeOK, Existing
<1>1. PICK u \in Users, t \in TicketIds :
         \/ \E a \in Users \cup {Nobody}, due \in {now + h : h \in SlaTargets} \cup {NoTime} :
               Create(r, u, t, a, due)
         \/ \E to \in Status : RequestTransition(r, u, t, to)
         \/ RequestResolve(r, u, t)
         \/ \E a \in Users : RequestAssign(r, u, t, a)
         \/ RequestComment(r, u, t)
         \/ \E a \in Users \cup {Nobody} : RequestUpdate(r, u, t, a)
  BY DEF Arrive, Start
<1>a. t \in 0..MaxTickets /\ NothingSeen \in Seen
  BY BoundsAssumption, HandFacts DEF TicketIds
<1>2. UNCHANGED slaVars
  BY DEF Arrive
<1>3. ASSUME NEW a \in Users \cup {Nobody},
             NEW due \in {now + h : h \in SlaTargets} \cup {NoTime}, Create(r, u, t, a, due)
      PROVE  Typed'
  <2> DEFINE first == IF a = Nobody THEN "NEW" ELSE "ASSIGNED"
             row == [status |-> first, requester |-> u, assignee |-> a,
                     created |-> now, due |-> due, pausedAt |-> NoTime, pausedMs |-> 0,
                     resolved |-> FALSE, closedAt |-> NoTime, warned |-> FALSE]
             h == [from |-> NoStatus, to |-> first, by |-> u]
  <2>1. due \in OptTime /\ NoTime \in OptTime /\ first \in Status
    BY <1>0, BoundsAssumption DEF OptTime, Status
  <2>2. row \in TicketRow
    BY <1>0, <2>1, BoundsAssumption DEF TicketRow
  <2>3. PauseStarted(row, now)
    BY DEF PauseStarted
  <2>4. h \in HistoryRow
    BY <2>1 DEF HistoryRow
  <2>5. ticket' = [ticket EXCEPT ![t] = row] /\ lastRow' = [lastRow EXCEPT ![t] = h]
    BY <1>3 DEF Create
  <2>6. lastRow' \in [TicketIds -> HistoryRow \cup {NoTicket}]
    BY <2>4, <2>5 DEF TypeOK
  <2> HIDE DEF row, h
  <2>7. QED BY <1>2, <1>3, <2>2, <2>3, <2>5, <2>6, WriteTyped DEF Create
<1>4. ASSUME NEW to \in Status, RequestTransition(r, u, t, to)
      PROVE  Typed'
  <2> DEFINE h == [Idle EXCEPT !.pc = "transition", !.actor = u, !.id = t, !.to = to]
  <2>1. h \in Request
    BY <1>a DEF Idle, Request, PC
  <2>2. HandOK(h, Existing, now)
    BY <1>4 DEF Idle, NothingSeen, HandOK, PauseStarted, RequestTransition
  <2> HIDE DEF h
  <2>3. QED BY <1>2, <1>4, <2>1, <2>2, ReadTyped DEF RequestTransition, h, TypeOK
<1>5. CASE RequestResolve(r, u, t)
  <2> DEFINE h == [Idle EXCEPT !.pc = "transition", !.actor = u, !.id = t, !.to = "RESOLVED"]
  <2>1. h \in Request
    BY <1>a DEF Idle, Request, PC, Status
  <2>2. HandOK(h, Existing, now)
    BY <1>5 DEF Idle, NothingSeen, HandOK, PauseStarted, RequestResolve, Status
  <2> HIDE DEF h
  <2>3. QED BY <1>2, <1>5, <2>1, <2>2, ReadTyped DEF RequestResolve, h, TypeOK
<1>6. ASSUME NEW a \in Users, RequestAssign(r, u, t, a)
      PROVE  Typed'
  <2> DEFINE seen == [NothingSeen EXCEPT !.status = ticket[t].status]
             h == [Idle EXCEPT !.pc = "assign", !.actor = u, !.id = t, !.assignee = a, !.seen = seen]
  <2>1. t \in Existing /\ ticket[t].status \in Status
    BY <1>0, <1>6 DEF RequestAssign, TicketRow
  <2>2. seen \in Seen /\ seen.status \in Status /\ PauseStarted(seen, now)
    BY <2>1 DEF NothingSeen, PauseStarted, Seen, OptTime
  <2> HIDE DEF seen
  <2>3. h \in Request
    BY <1>a, <2>2 DEF Idle, Request, PC
  <2>4. HandOK(h, Existing, now)
    BY <2>1, <2>2 DEF Idle, HandOK
  <2> HIDE DEF h
  <2>5. Continue(r, h)
    BY <1>6 DEF RequestAssign, h, seen
  <2>6. QED BY <1>2, <1>6, <2>3, <2>4, <2>5, ReadTyped DEF RequestAssign, TypeOK
<1>7. CASE RequestComment(r, u, t)
  <2> DEFINE h == [Idle EXCEPT !.pc = "comment", !.actor = u, !.id = t]
  <2>1. h \in Request
    BY <1>a DEF Idle, Request, PC
  <2>2. HandOK(h, Existing, now)
    BY <1>7 DEF Idle, NothingSeen, HandOK, PauseStarted, RequestComment
  <2> HIDE DEF h
  <2>3. QED BY <1>2, <1>7, <2>1, <2>2, ReadTyped DEF RequestComment, h, TypeOK
<1>8. ASSUME NEW a \in Users \cup {Nobody}, RequestUpdate(r, u, t, a)
      PROVE  Typed'
  <2> DEFINE h == [Idle EXCEPT !.pc = "update", !.actor = u, !.id = t, !.assignee = a]
  <2>1. h \in Request
    BY <1>a DEF Idle, Request, PC
  <2>2. HandOK(h, Existing, now)
    BY <1>8 DEF Idle, NothingSeen, HandOK, PauseStarted, RequestUpdate
  <2> HIDE DEF h
  <2>3. QED BY <1>2, <1>8, <2>1, <2>2, ReadTyped DEF RequestUpdate, h, TypeOK
<1>9. QED BY <1>1, <1>3, <1>4, <1>5, <1>6, <1>7, <1>8

(* Every request in progress keeps the types. *)
LEMMA GoOnTyped ==
    ASSUME Typed, NEW r \in Requests, GoOn(r)
    PROVE  Typed'
<1> DEFINE h == req[r]
<1>1. /\ h \in Request
      /\ HandOK(h, Existing, now)
      /\ now \in Nat
      /\ \A t \in Existing : ticket[t] \in TicketRow /\ PauseStarted(ticket[t], now)
      /\ Existing \subseteq TicketIds
      /\ comments \in [TicketIds -> Nat] /\ unaudited \in [TicketIds -> Int] /\ faults \in Nat
      /\ lastRow \in [TicketIds -> HistoryRow \cup {NoTicket}]
  BY DEF Typed, TypeOK, InHand, Existing
<1>2. UNCHANGED slaVars
  BY DEF GoOn
<1>3. h.pc # "idle" => h.id \in Existing /\ h.id \in TicketIds /\ ticket[h.id] \in TicketRow
  BY <1>1 DEF HandOK
<1>4. /\ Idle \in Request /\ HandOK(Idle, Existing, now)
      /\ h.pc # "idle" => /\ AuditNext(h.id) \in Request
                          /\ HandOK(AuditNext(h.id), Existing, now)
  BY <1>3, HandFacts
<1> HIDE DEF h
<1>5. CASE TransitionRead(r)
  <2> DEFINE seen == View(ticket[h.id])
             next == IF CanTransition(seen.status, h.to)
                     THEN [h EXCEPT !.pc = "write", !.seen = seen] ELSE Idle
  <2>1. h.pc = "transition"
    BY <1>5 DEF TransitionRead, h
  <2>2. seen \in Seen /\ seen.status \in Status /\ PauseStarted(seen, now)
    BY <1>1, <1>3, <2>1, HandFacts
  <2> HIDE DEF seen
  <2>3. next \in Request
    BY <1>1, <1>4, <2>2 DEF Request, PC
  <2>4. HandOK(next, Existing, now)
    BY <1>1, <1>4, <2>1, <2>2 DEF HandOK, Request
  <2>5. Continue(r, next)
    BY <1>5 DEF TransitionRead, h, seen
  <2> HIDE DEF next
  <2>6. QED BY <1>1, <1>2, <1>5, <2>3, <2>4, <2>5, ReadTyped DEF TransitionRead
<1>6. CASE TransitionWrite(r) /\ Accepted(h.id, h.seen, h.to)
  <2> DEFINE row == Moved(ticket[h.id], h.seen, h.to)
             line == [from |-> h.seen.status, to |-> h.to, by |-> h.actor]
  <2>1. /\ h.pc = "write" /\ h.seen \in Seen /\ PauseStarted(h.seen, now)
        /\ h.to \in Status /\ h.actor \in Users /\ h.seen.status \in Status
        /\ FitsColumn(ticket[h.id], h.seen)
    BY <1>1, <1>6 DEF TransitionWrite, h, HandOK, Request, Accepted
  <2>2. row \in TicketRow /\ PauseStarted(row, now)
    BY <1>1, <1>3, <2>1, MovedType
  <2>3. ticket' = [ticket EXCEPT ![h.id] = row] /\ lastRow' = [lastRow EXCEPT ![h.id] = line]
        /\ unaudited' = [unaudited EXCEPT ![h.id] = @ + 1] /\ Continue(r, AuditNext(h.id))
        /\ UNCHANGED <<now, comments, faults>>
    BY <1>6 DEF TransitionWrite, WriteStatus, h
  <2>4. line \in HistoryRow
    BY <2>1 DEF HistoryRow
  <2>5. lastRow' \in [TicketIds -> HistoryRow \cup {NoTicket}]
    BY <1>1, <2>3, <2>4
  <2> HIDE DEF row, line
  <2>6. QED BY <1>2, <1>3, <2>1, <2>2, <2>3, <2>5, WriteTyped
<1>7. CASE TransitionWrite(r) /\ ~Accepted(h.id, h.seen, h.to)
  BY <1>1, <1>2, <1>4, <1>7, ReadTyped DEF TransitionWrite, h
<1>8. CASE AssignWrite(r)
  <2> DEFINE status == AssignedStatus(h.seen.status)
             row == [ticket[h.id] EXCEPT !.assignee = h.assignee, !.status = status]
             line == [from |-> h.seen.status, to |-> status, by |-> h.actor]
  <2>1. /\ h.pc = "assign" /\ h.actor \in Users /\ h.seen.status \in Status
        /\ h.assignee \in Users \cup {Nobody}
    BY <1>1, <1>8 DEF AssignWrite, h, HandOK, Request
  <2>2. status \in Status
    BY <2>1 DEF AssignedStatus, Status
  <2>3. row \in TicketRow /\ PauseStarted(row, now)
    BY <1>1, <1>3, <2>1, <2>2 DEF TicketRow, PauseStarted
  <2>4. line \in HistoryRow
    BY <2>1, <2>2 DEF HistoryRow
  <2>5. /\ ticket' = [ticket EXCEPT ![h.id] = row] /\ lastRow' = [lastRow EXCEPT ![h.id] = line]
        /\ unaudited' = [unaudited EXCEPT ![h.id] = @ + 1] /\ Continue(r, AuditNext(h.id))
        /\ UNCHANGED <<now, comments, faults>>
    <3>1. ticket \in [TicketIds -> TicketRow \cup {NoTicket}]
      BY DEF Typed, TypeOK
    <3>2. QED BY <1>3, <1>8, <2>1, <3>1 DEF AssignWrite, h
  <2>6. lastRow' \in [TicketIds -> HistoryRow \cup {NoTicket}]
    BY <1>1, <2>4, <2>5
  <2> HIDE DEF row, line
  <2>7. QED BY <1>2, <1>3, <2>1, <2>3, <2>5, <2>6, WriteTyped
<1>9. CASE CommentWrite(r)
  <2>1. h.pc = "comment" /\ Continue(r, Idle) /\ comments' = [comments EXCEPT ![h.id] = @ + 1]
        /\ UNCHANGED <<now, ticket, lastRow, unaudited, faults>>
    BY <1>9 DEF CommentWrite, h
  <2>2. comments' \in [TicketIds -> Nat]
    BY <1>1, <1>3, <2>1
  <2>3. QED BY <1>1, <1>2, <1>4, <2>1, <2>2, ReadTyped
<1>10. CASE UpdateWrite(r)
  <2> DEFINE row == [ticket[h.id] EXCEPT !.assignee = h.assignee]
  <2>1. h.pc = "update" /\ h.assignee \in Users \cup {Nobody}
    BY <1>1, <1>10 DEF UpdateWrite, h, Request
  <2>2. row \in TicketRow /\ PauseStarted(row, now)
    BY <1>1, <1>3, <2>1 DEF TicketRow, PauseStarted
  <2>3. ticket' = [ticket EXCEPT ![h.id] = row] /\ UNCHANGED lastRow
        /\ unaudited' = [unaudited EXCEPT ![h.id] = @ + 1] /\ Continue(r, AuditNext(h.id))
        /\ UNCHANGED <<now, comments, faults>>
    BY <1>10 DEF UpdateWrite, h
  <2> HIDE DEF row
  <2>4. QED BY <1>1, <1>2, <1>3, <2>1, <2>2, <2>3, WriteTyped
<1>11. CASE Audit(r)
  <2>1. h.pc = "audit" /\ Continue(r, Idle) /\ unaudited' = [unaudited EXCEPT ![h.id] = @ - 1]
        /\ UNCHANGED <<now, ticket, lastRow, comments, faults>>
    BY <1>11 DEF Audit, WriteAudit, h
  <2>2. unaudited' \in [TicketIds -> Int]
    BY <1>1, <1>3, <2>1
  <2>3. QED BY <1>1, <1>2, <1>4, <2>1, <2>2, ReadTyped
<1>12. CASE Fail(r)
  BY <1>1, <1>2, <1>4, <1>12, ReadTyped DEF Fail
<1>13. QED BY <1>5, <1>6, <1>7, <1>8, <1>9, <1>10, <1>11, <1>12 DEF GoOn, Proceed

(* A job run that leaves the table alone: only its own slot and counters change. *)
LEMMA JobReadTyped ==
    ASSUME Typed, NEW w \in Workers, NEW j \in Job, JobOK(j, Existing, now), Carry(w, j),
           UNCHANGED <<now, ticket, lastRow, comments, req>>,
           unaudited' \in [TicketIds -> Int], faults' \in Nat,
           warnings' \in [TicketIds -> Nat], levelLag' \in [TicketIds -> Int]
    PROVE  Typed'
<1>1. Growing /\ Existing' = Existing /\ \A s \in Existing' : PauseStarted(ticket'[s], now')
  BY ClockStep DEF Typed, TypeOK
<1>2. JobOK(j, Existing', now')
  BY <1>1
<1>3. /\ job' \in [Workers -> Job]
      /\ \A v \in Workers : JobOK(job'[v], Existing', now')
  BY <1>1, <1>2, JobStep
<1>4. /\ req' \in [Requests -> Request]
      /\ \A q \in Requests : HandOK(req'[q], Existing', now')
  BY <1>1, OthersKeep
<1>5. TypeOK'
  BY <1>3, <1>4 DEF Typed, TypeOK
<1>6. QED BY <1>1, <1>3, <1>4, <1>5 DEF Typed, InHand

(* A job run that writes one row of the table. *)
LEMMA JobWriteTyped ==
    ASSUME Typed, NEW w \in Workers, NEW j \in Job, NEW t \in Existing, NEW row \in TicketRow,
           JobOK(j, Existing, now), Carry(w, j),
           PauseStarted(row, now), ticket' = [ticket EXCEPT ![t] = row],
           UNCHANGED <<now, comments, req, faults, warnings>>,
           lastRow' \in [TicketIds -> HistoryRow \cup {NoTicket}],
           unaudited' \in [TicketIds -> Int], levelLag' \in [TicketIds -> Int]
    PROVE  Typed'
<1>1. /\ ticket' \in [TicketIds -> TicketRow \cup {NoTicket}]
      /\ Existing' = Existing
      /\ \A s \in Existing' : PauseStarted(ticket'[s], now')
  BY RowStep DEF Existing
<1>2. Growing
  BY <1>1 DEF Growing, Typed, TypeOK
<1>3. /\ job' \in [Workers -> Job]
      /\ \A v \in Workers : JobOK(job'[v], Existing', now')
  BY <1>1, <1>2, JobStep
<1>4. /\ req' \in [Requests -> Request]
      /\ \A q \in Requests : HandOK(req'[q], Existing', now')
  BY <1>2, OthersKeep
<1>5. TypeOK'
  BY <1>1, <1>3, <1>4 DEF Typed, TypeOK
<1>6. QED BY <1>1, <1>3, <1>4, <1>5 DEF Typed, InHand

(* Where a loop over tickets of the table goes on, it holds a valid job. *)
LEMMA LoopFacts ==
    ASSUME NEW todo \in SUBSET Existing, NEW pc \in JobPC, pc \in {"warn", "sweep"}
    PROVE  LET j == IF todo = {} THEN NoJob ELSE [NoJob EXCEPT !.pc = pc, !.todo = todo] IN
           /\ j \in Job
           /\ JobOK(j, Existing, now)
           /\ \A w : LoopOn(w, pc, todo) <=> Carry(w, j)
<1>1. todo \subseteq TicketIds /\ NothingSeen \in Seen /\ 0 \in 0..MaxTickets
  BY HandFacts, BoundsAssumption
<1>2. NoJob \in Job /\ [NoJob EXCEPT !.pc = pc, !.todo = todo] \in Job
  BY <1>1 DEF NoJob, Job, JobPC
<1>3. JobOK(NoJob, Existing, now) /\ JobOK([NoJob EXCEPT !.pc = pc, !.todo = todo], Existing, now)
  BY DEF JobOK, NoJob, NothingSeen, PauseStarted
<1>4. QED BY <1>2, <1>3 DEF LoopOn

(* Going on with the loop and leaving the table alone keeps the types. *)
LEMMA LoopTyped ==
    ASSUME Typed, NEW w \in Workers, NEW todo \in SUBSET Existing, NEW pc \in {"warn", "sweep"},
           LoopOn(w, pc, todo),
           UNCHANGED <<now, ticket, lastRow, comments, req>>,
           unaudited' \in [TicketIds -> Int], faults' \in Nat,
           warnings' \in [TicketIds -> Nat], levelLag' \in [TicketIds -> Int]
    PROVE  Typed'
<1> DEFINE j == IF todo = {} THEN NoJob ELSE [NoJob EXCEPT !.pc = pc, !.todo = todo]
<1>1. j \in Job /\ JobOK(j, Existing, now) /\ Carry(w, j)
  BY LoopFacts DEF JobPC
<1> HIDE DEF j
<1>2. QED BY <1>1, JobReadTyped

(* Every step of an SLA job run keeps the types. *)
LEMMA SlaTyped ==
    ASSUME Typed, NEW w \in Workers, SlaNext(w)
    PROVE  Typed'
<1> DEFINE j == job[w]
<1>1. /\ j \in Job
      /\ JobOK(j, Existing, now)
      /\ now \in Nat
      /\ \A t \in Existing : ticket[t] \in TicketRow /\ PauseStarted(ticket[t], now)
      /\ Existing \subseteq TicketIds
      /\ unaudited \in [TicketIds -> Int] /\ faults \in Nat
      /\ warnings \in [TicketIds -> Nat] /\ levelLag \in [TicketIds -> Int]
      /\ lastRow \in [TicketIds -> HistoryRow \cup {NoTicket}]
  BY DEF Typed, TypeOK, InHand, Existing
<1>2. j.todo \in SUBSET Existing
  BY <1>1 DEF JobOK
<1>3. j.pc \in {"flagged", "write", "audit", "level"} =>
        j.id \in Existing /\ j.id \in TicketIds /\ j.id \in 0..MaxTickets
  BY <1>1 DEF JobOK, Job
<1>4. NothingSeen \in Seen /\ PauseStarted(NothingSeen, now)
  BY HandFacts DEF NothingSeen, PauseStarted
<1> HIDE DEF j
<1>5. CASE StartWarnings(w)
  BY <1>1, <1>5, LoopTyped DEF StartWarnings, deskVars
<1>6. CASE StartEscalations(w)
  BY <1>1, <1>6, LoopTyped DEF StartEscalations, deskVars
<1>7. ASSUME NEW t \in TicketIds, FlagWarning(w, t)
      PROVE  Typed'
  <2> DEFINE row == [ticket[t] EXCEPT !.warned = TRUE]
             rest == j.todo \ {t}
             going == IF rest = {} THEN NoJob ELSE [NoJob EXCEPT !.pc = "warn", !.todo = rest]
             flagged == [NoJob EXCEPT !.pc = "flagged", !.todo = rest, !.id = t]
  <2>1. t \in Existing /\ rest \in SUBSET Existing
    BY <1>2, <1>7 DEF FlagWarning, j
  <2>2. row \in TicketRow /\ PauseStarted(row, now)
    BY <1>1, <2>1 DEF TicketRow, PauseStarted
  <2>3. going \in Job /\ JobOK(going, Existing, now)
        /\ (LoopOn(w, "warn", rest) <=> Carry(w, going))
    BY <2>1, LoopFacts DEF JobPC
  <2>4. flagged \in Job /\ JobOK(flagged, Existing, now)
    <3>1. t \in 0..MaxTickets
      BY BoundsAssumption DEF TicketIds
    <3>2. rest \subseteq TicketIds
      BY <1>1, <2>1
    <3>3. QED BY <1>4, <2>1, <3>1, <3>2 DEF NoJob, Job, JobPC, JobOK
  <2>5. /\ ticket' = [ticket EXCEPT ![t] = row]
        /\ Carry(w, going) \/ Carry(w, flagged)
        /\ UNCHANGED <<now, lastRow, comments, unaudited, req, faults, warnings, levelLag>>
    BY <1>7, <2>3 DEF FlagWarning, j
  <2> HIDE DEF row, going, flagged
  <2>6. QED BY <1>1, <2>1, <2>2, <2>3, <2>4, <2>5, JobWriteTyped
<1>8. CASE SendWarning(w)
  <2>1. /\ j.pc = "flagged" /\ warnings' = [warnings EXCEPT ![j.id] = @ + 1]
        /\ LoopOn(w, "warn", j.todo)
        /\ UNCHANGED <<now, ticket, lastRow, comments, unaudited, req, faults, levelLag>>
    BY <1>8 DEF SendWarning, deskVars, j
  <2>2. warnings' \in [TicketIds -> Nat]
    BY <1>1, <1>3, <2>1
  <2>3. QED BY <1>1, <1>2, <2>1, <2>2, LoopTyped
<1>9. ASSUME NEW t \in TicketIds, EscalateRead(w, t)
      PROVE  Typed'
  <2> DEFINE seen == View(ticket[t])
             rest == j.todo \ {t}
             next == [pc |-> "write", todo |-> rest, id |-> t, seen |-> seen]
  <2>1. t \in Existing /\ rest \in SUBSET Existing
    BY <1>2, <1>9 DEF EscalateRead, j
  <2>2. seen \in Seen /\ seen.status \in Status /\ PauseStarted(seen, now)
    BY <1>1, <2>1, HandFacts
  <2>3. CASE CanTransition(seen.status, "ESCALATED")
    <3>1. Carry(w, next)
      BY <1>9, <2>3 DEF EscalateRead, j
    <3>2. t \in 0..MaxTickets
      BY BoundsAssumption DEF TicketIds
    <3>3. rest \subseteq TicketIds
      BY <1>1, <2>1
    <3> HIDE DEF seen
    <3>4. next \in Job
      BY <2>2, <3>2, <3>3 DEF Job, JobPC
    <3>5. JobOK(next, Existing, now)
      BY <2>1, <2>2, <2>3 DEF JobOK
    <3> HIDE DEF next
    <3>6. QED BY <1>1, <1>9, <3>1, <3>4, <3>5, JobReadTyped DEF EscalateRead, deskVars
  <2>4. CASE ~CanTransition(seen.status, "ESCALATED")
    <3>1. LoopOn(w, "sweep", rest)
      BY <1>9, <2>4 DEF EscalateRead, j
    <3>2. QED BY <1>1, <1>9, <2>1, <3>1, LoopTyped DEF EscalateRead, deskVars
  <2>5. QED BY <2>3, <2>4
<1>10. CASE EscalateWrite(w) /\ Accepted(j.id, j.seen, "ESCALATED")
  <2> DEFINE row == Moved(ticket[j.id], j.seen, "ESCALATED")
             line == [from |-> j.seen.status, to |-> "ESCALATED", by |-> System]
             next == [j EXCEPT !.pc = "audit", !.seen = NothingSeen]
  <2>1. /\ j.pc = "write" /\ j.seen \in Seen /\ PauseStarted(j.seen, now)
        /\ j.seen.status \in Status /\ "ESCALATED" \in Status
        /\ FitsColumn(ticket[j.id], j.seen)
    BY <1>1, <1>10 DEF EscalateWrite, j, JobOK, Job, Accepted, Status
  <2>2. row \in TicketRow /\ PauseStarted(row, now)
    BY <1>1, <1>3, <2>1, MovedType
  <2>3. ticket' = [ticket EXCEPT ![j.id] = row] /\ lastRow' = [lastRow EXCEPT ![j.id] = line]
        /\ unaudited' = [unaudited EXCEPT ![j.id] = @ + 1]
        /\ levelLag' = [levelLag EXCEPT ![j.id] = @ + 1] /\ Carry(w, next)
        /\ UNCHANGED <<now, comments, req, faults, warnings>>
    BY <1>10 DEF EscalateWrite, WriteStatus, j
  <2>4. next \in Job
    BY <1>1, <1>4 DEF Job, JobPC
  <2>5. JobOK(next, Existing, now)
    BY <1>1, <1>3, <1>4, <2>1 DEF JobOK, Job
  <2>6. line \in HistoryRow
    BY <2>1 DEF HistoryRow
  <2> HIDE DEF row, line, next
  <2>7. /\ lastRow' \in [TicketIds -> HistoryRow \cup {NoTicket}]
        /\ unaudited' \in [TicketIds -> Int] /\ levelLag' \in [TicketIds -> Int]
    BY <1>1, <1>3, <2>1, <2>3, <2>6
  <2>8. QED BY <1>3, <2>1, <2>2, <2>3, <2>4, <2>5, <2>7, JobWriteTyped
<1>11. CASE EscalateWrite(w) /\ ~Accepted(j.id, j.seen, "ESCALATED")
  BY <1>1, <1>2, <1>11, LoopTyped DEF EscalateWrite, j
<1>12. CASE EscalateAudit(w)
  <2> DEFINE next == [j EXCEPT !.pc = "level"]
  <2>1. /\ j.pc = "audit" /\ unaudited' = [unaudited EXCEPT ![j.id] = @ - 1] /\ Carry(w, next)
        /\ UNCHANGED <<now, ticket, lastRow, comments, req, faults, warnings, levelLag>>
    BY <1>12 DEF EscalateAudit, WriteAudit, j
  <2>2. next \in Job
    BY <1>1 DEF Job, JobPC
  <2>3. JobOK(next, Existing, now)
    BY <1>1, <1>3, <2>1 DEF JobOK, Job
  <2> HIDE DEF next
  <2>4. unaudited' \in [TicketIds -> Int]
    BY <1>1, <1>3, <2>1
  <2>5. QED BY <1>1, <2>1, <2>2, <2>3, <2>4, JobReadTyped
<1>13. CASE RaiseLevel(w)
  <2>1. /\ j.pc = "level" /\ levelLag' = [levelLag EXCEPT ![j.id] = @ - 1]
        /\ LoopOn(w, "sweep", j.todo)
        /\ UNCHANGED <<now, ticket, lastRow, comments, unaudited, req, faults, warnings>>
    BY <1>13 DEF RaiseLevel, deskVars, j
  <2>2. levelLag' \in [TicketIds -> Int]
    BY <1>1, <1>3, <2>1
  <2>3. QED BY <1>1, <1>2, <2>1, <2>2, LoopTyped
<1>14. CASE JobFail(w)
  <2>1. PICK todo \in SUBSET Existing : LoopOn(w, "sweep", todo)
    <3>1. Carry(w, NoJob) => LoopOn(w, "sweep", {})
      BY DEF LoopOn
    <3>2. QED BY <1>2, <1>14, <3>1 DEF JobFail, j
  <2>2. QED BY <1>1, <1>14, <2>1, LoopTyped DEF JobFail
<1>15. QED BY <1>5, <1>6, <1>7, <1>8, <1>9, <1>10, <1>11, <1>12, <1>13, <1>14
           DEF SlaNext, RunOn

(* The empty desk is well typed.                                              *)
LEMMA InitTyped == Init => Typed
<1> SUFFICES ASSUME Init PROVE Typed
  OBVIOUS
<1>1. Existing = {}
  BY DEF Init, DeskInit, Existing
<1>2. Idle \in Request /\ HandOK(Idle, Existing, now)
  BY HandFacts
<1>3. NoJob \in Job /\ JobOK(NoJob, Existing, now)
  BY LoopFacts DEF JobPC
<1>4. QED BY <1>1, <1>2, <1>3 DEF Init, DeskInit, SlaInit, Typed, TypeOK, InHand

(* Typed is inductive: one lemma above per group of steps.                    *)
LEMMA NextTyped == Typed /\ [Next]_vars => Typed'
<1> SUFFICES ASSUME Typed, [Next]_vars PROVE Typed'
  OBVIOUS
<1>1. ASSUME NEW r \in Requests, Arrive(r) PROVE Typed'
  BY <1>1, ArriveTyped
<1>2. ASSUME NEW r \in Requests, GoOn(r) PROVE Typed'
  BY <1>2, GoOnTyped
<1>3. ASSUME NEW w \in Workers, SlaNext(w) PROVE Typed'
  BY <1>3, SlaTyped
<1>4. CASE ClockTick \/ UNCHANGED vars
  <2>1. /\ now' \in Nat /\ now <= now'
        /\ UNCHANGED <<ticket, lastRow, comments, unaudited, req, faults, job, warnings, levelLag>>
    BY <1>4 DEF ClockTick, Tick, vars, deskVars, slaVars, Typed, TypeOK
  <2>2. Growing /\ Existing' = Existing /\ \A s \in Existing' : PauseStarted(ticket'[s], now')
    BY <2>1, ClockStep
  <2>3. /\ \A w \in Workers : JobOK(job'[w], Existing', now')
        /\ \A r \in Requests : HandOK(req'[r], Existing', now')
    BY <2>1, <2>2, OthersKeep
  <2>4. QED BY <2>1, <2>2, <2>3 DEF Typed, TypeOK, InHand
<1>5. QED BY <1>1, <1>2, <1>3, <1>4 DEF Next

(* The two together are an invariant of the desk. *)
THEOREM AlwaysTyped == Spec => []Typed
BY InitTyped, NextTyped, PTL DEF Spec

(* Every row, handler and job run keeps its type: in particular slaPausedMs  *)
(* stays within its column, whatever stale marker a handler adds it up from. *)
THEOREM TypeCorrect == Spec => []TypeOK
<1>1. Typed => TypeOK
  BY DEF Typed
<1>2. QED BY <1>1, AlwaysTyped, PTL
-----------------------------------------------------------------------------
(***************************************************************************)
(* Safety of the desk: what the history and the dates of a ticket say, who *)
(* changed it and when, however handlers and job runs interleave.          *)
(*                                                                         *)
(* The argument: a step changes one row in one of five ways (RowChanges),  *)
(* and leaves what a handler or job run has in hand alone or advances it   *)
(* in one of a few ways (HandChanges, JobChanges).  Each part of the       *)
(* invariant is then checked against the ways that can disturb it.         *)
(***************************************************************************)
Kept(t) == ticket'[t] = ticket[t] /\ lastRow'[t] = lastRow[t]

Created(t) ==
    /\ ticket[t] = NoTicket
    /\ \E u \in Users, a \in Users \cup {Nobody}, due \in OptTime, first \in {"NEW", "ASSIGNED"} :
         /\ ticket'[t] = [status |-> first, requester |-> u, assignee |-> a,
                          created |-> now, due |-> due, pausedAt |-> NoTime, pausedMs |-> 0,
                          resolved |-> FALSE, closedAt |-> NoTime, warned |-> FALSE]
         /\ lastRow'[t] = [from |-> NoStatus, to |-> first, by |-> u]

\* The write of the state machine, on what was seen.
MovedAs(t, seen, to, by) ==
    /\ seen \in Seen /\ seen.status \in Status /\ to \in Status /\ PauseStarted(seen, now)
    /\ CanTransition(seen.status, to)
    /\ Accepted(t, seen, to)
    /\ ticket'[t] = Moved(ticket[t], seen, to)
    /\ lastRow'[t] = [from |-> seen.status, to |-> to, by |-> by]

MovedByRequest(t) ==
    \E r \in Requests : /\ req[r].pc = "write" /\ req[r].id = t /\ req[r].actor \in Users
                        /\ MovedAs(t, req[r].seen, req[r].to, req[r].actor)

MovedBySweep(t) ==
    \E w \in Workers : /\ job[w].pc = "write" /\ job[w].id = t
                       /\ MovedAs(t, job[w].seen, "ESCALATED", System)

Assigned(t) ==
    \E r \in Requests :
        LET h == req[r] IN
        /\ h.pc = "assign" /\ h.id = t /\ h.actor \in Users /\ h.seen.status \in Status
        /\ ticket'[t] = [ticket[t] EXCEPT !.assignee = h.assignee,
                                          !.status = AssignedStatus(h.seen.status)]
        /\ lastRow'[t] = [from |-> h.seen.status, to |-> AssignedStatus(h.seen.status), by |-> h.actor]

\* Only the warning job sets the flag.
FlaggedNow(t) == \E w \in Workers : FlagWarning(w, t)

Edited(t) ==
    /\ lastRow'[t] = lastRow[t]
    /\ \E a, warned : /\ ticket'[t] = [ticket[t] EXCEPT !.assignee = a, !.warned = warned]
                      /\ warned = ticket[t].warned \/ (warned = TRUE /\ FlaggedNow(t))

\* What one step may do to the row of t.
RowChange(t) ==
    \/ Kept(t)
    \/ Created(t)
    \/ /\ t \in Existing /\ t \in Existing' /\ ticket[t] \in TicketRow
       /\ MovedByRequest(t) \/ MovedBySweep(t) \/ Assigned(t) \/ Edited(t)

(* A step changes each row of the ticket table in one of the ways above.     *)
LEMMA RowChanges ==
    ASSUME Typed, [Next]_vars, NEW t \in TicketIds
    PROVE  RowChange(t)
<1>1. /\ ticket \in [TicketIds -> TicketRow \cup {NoTicket}]
      /\ lastRow \in [TicketIds -> HistoryRow \cup {NoTicket}]
      /\ req \in [Requests -> Request] /\ job \in [Workers -> Job] /\ now \in Nat
      /\ t \in Existing => ticket[t] \in TicketRow
  BY DEF Typed, TypeOK, Existing
<1>2. Typed'
  BY NextTyped
<1>a. ticket'[t] # NoTicket => t \in Existing'
  BY DEF Existing
<1>3. CASE UNCHANGED <<ticket, lastRow>>
  BY <1>3 DEF RowChange, Kept
<1>4. ASSUME NEW r \in Requests, NEW u \in Users, NEW s \in TicketIds,
             NEW a \in Users \cup {Nobody},
             NEW due \in {now + h : h \in SlaTargets} \cup {NoTime}, Create(r, u, s, a, due)
      PROVE  RowChange(t)
  <2>1. CASE s # t
    BY <1>1, <1>4, <2>1 DEF RowChange, Kept, Create
  <2>2. CASE s = t
    <3>1. due \in OptTime
      BY <1>1, BoundsAssumption DEF OptTime
    <3>2. t \notin Existing
      BY <1>4, <2>2, BoundsAssumption DEF Create, IsNextId, TicketIds
    <3>3. ticket[t] = NoTicket
      BY <3>2 DEF Existing
    <3>4. Created(t)
      <4> DEFINE first == IF a = Nobody THEN "NEW" ELSE "ASSIGNED"
      <4>1. first \in {"NEW", "ASSIGNED"}
        OBVIOUS
      <4>2. /\ ticket'[t] = [status |-> first, requester |-> u, assignee |-> a,
                             created |-> now, due |-> due, pausedAt |-> NoTime, pausedMs |-> 0,
                             resolved |-> FALSE, closedAt |-> NoTime, warned |-> FALSE]
            /\ lastRow'[t] = [from |-> NoStatus, to |-> first, by |-> u]
        BY <1>1, <1>4, <2>2 DEF Create
      <4> HIDE DEF first
      <4>3. QED BY <3>1, <3>3, <4>1, <4>2 DEF Created
    <3>5. QED BY <3>4 DEF RowChange
  <2>3. QED BY <2>1, <2>2
<1>5. ASSUME NEW r \in Requests, TransitionWrite(r), ~UNCHANGED <<ticket, lastRow>>
      PROVE  RowChange(t)
  <2> DEFINE h == req[r]
  <2>1. /\ h.pc = "write" /\ Accepted(h.id, h.seen, h.to) /\ WriteStatus(h.id, h.seen, h.to, h.actor)
        /\ h.id \in Existing /\ h.actor \in Users /\ h.to \in Status /\ h.seen \in Seen
        /\ h.seen.status \in Status /\ CanTransition(h.seen.status, h.to) /\ PauseStarted(h.seen, now)
    BY <1>1, <1>5 DEF TransitionWrite, Typed, InHand, HandOK, Request
  <2>2. CASE h.id # t
    BY <1>1, <2>1, <2>2 DEF RowChange, Kept, WriteStatus
  <2>3. CASE h.id = t
    <3>1. /\ ticket'[t] = Moved(ticket[t], h.seen, h.to)
          /\ lastRow'[t] = [from |-> h.seen.status, to |-> h.to, by |-> h.actor]
      BY <1>1, <2>1, <2>3 DEF WriteStatus
    <3>2. ticket'[t] \in TicketRow
      BY <1>1, <2>1, <2>3, <3>1, MovedType DEF Accepted
    <3>3. t \in Existing'
      BY <1>a, <3>2, NoTicketAssumption
    <3>4. QED BY <1>1, <2>1, <2>3, <3>1, <3>3 DEF RowChange, MovedByRequest, MovedAs
  <2>4. QED BY <2>2, <2>3
<1>6. ASSUME NEW w \in Workers, EscalateWrite(w), ~UNCHANGED <<ticket, lastRow>>
      PROVE  RowChange(t)
  <2> DEFINE j == job[w]
  <2>1. /\ j.pc = "write" /\ Accepted(j.id, j.seen, "ESCALATED")
        /\ WriteStatus(j.id, j.seen, "ESCALATED", System)
        /\ j.id \in Existing /\ j.seen \in Seen /\ "ESCALATED" \in Status
        /\ j.seen.status \in Status /\ CanTransition(j.seen.status, "ESCALATED")
        /\ PauseStarted(j.seen, now)
    BY <1>1, <1>6 DEF EscalateWrite, Typed, InHand, JobOK, Job, Status
  <2>2. CASE j.id # t
    BY <1>1, <2>1, <2>2 DEF RowChange, Kept, WriteStatus
  <2>3. CASE j.id = t
    <3>1. /\ ticket'[t] = Moved(ticket[t], j.seen, "ESCALATED")
          /\ lastRow'[t] = [from |-> j.seen.status, to |-> "ESCALATED", by |-> System]
      BY <1>1, <2>1, <2>3 DEF WriteStatus
    <3>2. ticket'[t] \in TicketRow
      BY <1>1, <2>1, <2>3, <3>1, MovedType DEF Accepted
    <3>3. t \in Existing'
      BY <1>a, <3>2, NoTicketAssumption
    <3>4. QED BY <1>1, <2>1, <2>3, <3>1, <3>3 DEF RowChange, MovedBySweep, MovedAs
  <2>4. QED BY <2>2, <2>3
<1>7. ASSUME NEW r \in Requests, AssignWrite(r)
      PROVE  RowChange(t)
  <2> DEFINE h == req[r]
             status == AssignedStatus(h.seen.status)
  <2>1. /\ h.pc = "assign" /\ h.id \in Existing /\ h.actor \in Users /\ h.seen.status \in Status
        /\ ticket' = [ticket EXCEPT ![h.id].assignee = h.assignee, ![h.id].status = status]
        /\ lastRow' = [lastRow EXCEPT ![h.id] = [from |-> h.seen.status, to |-> status, by |-> h.actor]]
    BY <1>1, <1>7 DEF AssignWrite, Typed, InHand, HandOK
  <2>2. CASE h.id # t
    BY <1>1, <2>1, <2>2 DEF RowChange, Kept
  <2>3. CASE h.id = t
    <3>1. /\ ticket'[t] = [ticket[t] EXCEPT !.assignee = h.assignee, !.status = status]
          /\ lastRow'[t] = [from |-> h.seen.status, to |-> status, by |-> h.actor]
      BY <1>1, <2>1, <2>3
    <3>2. Assigned(t)
      BY <2>1, <2>3, <3>1 DEF Assigned
    <3>3. ticket'[t] \in TicketRow
      <4>1. h.assignee \in Users \cup {Nobody}
        BY <1>1 DEF Request
      <4>2. status \in Status
        BY <2>1 DEF AssignedStatus, Status
      <4>3. QED BY <1>1, <2>1, <2>3, <3>1, <4>1, <4>2 DEF TicketRow
    <3>4. QED BY <1>1, <1>a, <2>1, <2>3, <3>2, <3>3, NoTicketAssumption DEF RowChange
  <2>4. QED BY <2>2, <2>3
<1>8. ASSUME NEW r \in Requests, UpdateWrite(r)
      PROVE  RowChange(t)
  <2> DEFINE h == req[r]
  <2>1. /\ h.pc = "update" /\ h.id \in Existing /\ h.assignee \in Users \cup {Nobody}
        /\ ticket' = [ticket EXCEPT ![h.id].assignee = h.assignee] /\ lastRow' = lastRow
    BY <1>1, <1>8 DEF UpdateWrite, Typed, InHand, HandOK, Request
  <2>2. CASE h.id # t
    BY <1>1, <2>1, <2>2 DEF RowChange, Kept
  <2>3. CASE h.id = t
    <3>1. ticket'[t] = [ticket[t] EXCEPT !.assignee = h.assignee] /\ ticket[t] \in TicketRow
      BY <1>1, <2>1, <2>3
    <3>2. ticket'[t] = [ticket[t] EXCEPT !.assignee = h.assignee, !.warned = ticket[t].warned]
      BY <3>1 DEF TicketRow
    <3>3. ticket'[t] \in TicketRow
      BY <2>1, <3>1 DEF TicketRow
    <3>4. QED BY <1>1, <1>a, <2>1, <2>3, <3>2, <3>3, NoTicketAssumption DEF RowChange, Edited
  <2>4. QED BY <2>2, <2>3
<1>9. ASSUME NEW w \in Workers, NEW s \in TicketIds, FlagWarning(w, s)
      PROVE  RowChange(t)
  <2>1. /\ s \in Existing /\ ticket' = [ticket EXCEPT ![s].warned = TRUE] /\ lastRow' = lastRow
    BY <1>1, <1>9 DEF FlagWarning, Typed, InHand, JobOK
  <2>2. CASE s # t
    BY <1>1, <2>1, <2>2 DEF RowChange, Kept
  <2>3. CASE s = t
    <3>1. ticket'[t] = [ticket[t] EXCEPT !.warned = TRUE] /\ ticket[t] \in TicketRow
      BY <1>1, <2>1, <2>3
    <3>2. ticket'[t] = [ticket[t] EXCEPT !.assignee = ticket[t].assignee, !.warned = TRUE]
      BY <3>1 DEF TicketRow
    <3>3. ticket'[t] \in TicketRow
      BY <3>1 DEF TicketRow
    <3>4. FlaggedNow(t)
      BY <1>9, <2>3 DEF FlaggedNow
    <3>5. Edited(t)
      BY <2>1, <3>2, <3>4 DEF Edited
    <3>6. QED BY <1>1, <1>a, <2>1, <2>3, <3>3, <3>5, NoTicketAssumption DEF RowChange
  <2>4. QED BY <2>2, <2>3
<1>10. ASSUME NEW r \in Requests, Arrive(r) PROVE RowChange(t)
  <2>1. \/ \E u \in Users, s \in TicketIds, a \in Users \cup {Nobody},
              due \in {now + h : h \in SlaTargets} \cup {NoTime} : Create(r, u, s, a, due)
        \/ UNCHANGED <<ticket, lastRow>>
    BY <1>10 DEF Arrive, Start, RequestTransition, RequestResolve, RequestAssign,
                 RequestComment, RequestUpdate
  <2>2. QED BY <1>3, <1>4, <2>1
<1>11. ASSUME NEW r \in Requests, GoOn(r) PROVE RowChange(t)
  <2>1. \/ TransitionWrite(r) \/ AssignWrite(r) \/ UpdateWrite(r)
        \/ UNCHANGED <<ticket, lastRow>>
    BY <1>11 DEF GoOn, Proceed, TransitionRead, CommentWrite, Audit, Fail
  <2>2. QED BY <1>3, <1>5, <1>7, <1>8, <2>1
<1>12. ASSUME NEW w \in Workers, SlaNext(w) PROVE RowChange(t)
  <2>1. \/ \E s \in TicketIds : FlagWarning(w, s)
        \/ EscalateWrite(w)
        \/ UNCHANGED <<ticket, lastRow>>
    BY <1>12 DEF SlaNext, RunOn, StartWarnings, StartEscalations, SendWarning, EscalateRead,
                 EscalateAudit, RaiseLevel, JobFail, deskVars
  <2>2. QED BY <1>3, <1>6, <1>9, <2>1
<1>13. CASE ClockTick \/ UNCHANGED vars
  BY <1>3, <1>13 DEF ClockTick, Tick, vars, deskVars
<1>14. QED BY <1>10, <1>11, <1>12, <1>13 DEF Next

-----------------------------------------------------------------------------
(* What one step may do to what a handler or a job run has in hand.        *)

HandChange(r) ==
    LET h == req[r]
        k == req'[r] IN
    \/ k = h
    \/ k.pc \notin {"transition", "write", "assign"}
    \/ /\ UNCHANGED <<ticket, now>>
       /\ \/ /\ k.pc = "transition" /\ k.id \in Existing
             /\ \/ MayTransition(ticket[k.id], k.actor, k.to)
                \/ /\ HasRole(k.actor, {"AGENT", "L2_L3", "IT_ADMIN", "SYS_ADMIN"})
                   /\ k.to = "RESOLVED"
          \/ /\ k.pc = "assign" /\ k.id \in Existing
             /\ HasRole(k.actor, {"IT_ADMIN", "SYS_ADMIN"})
             /\ k.seen.status = ticket[k.id].status
          \/ /\ h.pc = "transition" /\ h.id \in Existing
             /\ k = [h EXCEPT !.pc = "write", !.seen = View(ticket[h.id])]

(* A step changes what each handler has in hand in one of the ways above.    *)
LEMMA HandChanges ==
    ASSUME Typed, [Next]_vars, NEW r \in Requests
    PROVE  HandChange(r)
<1>1. req \in [Requests -> Request] /\ \A q \in Requests : HandOK(req[q], Existing, now)
  BY DEF Typed, TypeOK, InHand
<1>3. CASE UNCHANGED req
  BY <1>3 DEF HandChange
<1>4. ASSUME NEW q \in Requests, Arrive(q) PROVE HandChange(r)
  <2>1. PICK u \in Users, t \in TicketIds :
           \/ \E a \in Users \cup {Nobody}, due \in {now + h : h \in SlaTargets} \cup {NoTime} :
                 Create(q, u, t, a, due)
           \/ \E to \in Status : RequestTransition(q, u, t, to)
           \/ RequestResolve(q, u, t)
           \/ \E a \in Users : RequestAssign(q, u, t, a)
           \/ RequestComment(q, u, t)
           \/ \E a \in Users \cup {Nobody} : RequestUpdate(q, u, t, a)
    BY <1>4 DEF Arrive, Start
  <2>2. ASSUME NEW a, NEW due, Create(q, u, t, a, due) PROVE HandChange(r)
    BY <1>1, <2>2 DEF Continue, HandChange, Create, AuditNext, Idle
  <2>3. ASSUME NEW to \in Status, RequestTransition(q, u, t, to) PROVE HandChange(r)
    BY <1>1, <2>3 DEF Continue, HandChange, RequestTransition, Idle
  <2>4. CASE RequestResolve(q, u, t)
    BY <1>1, <2>4 DEF Continue, HandChange, RequestResolve, Idle
  <2>5. ASSUME NEW a \in Users, RequestAssign(q, u, t, a) PROVE HandChange(r)
    BY <1>1, <2>5 DEF Continue, HandChange, RequestAssign, Idle, NothingSeen
  <2>6. CASE RequestComment(q, u, t)
    BY <1>1, <2>6 DEF Continue, HandChange, RequestComment, Idle
  <2>7. ASSUME NEW a, RequestUpdate(q, u, t, a) PROVE HandChange(r)
    BY <1>1, <2>7 DEF Continue, HandChange, RequestUpdate, Idle
  <2>8. QED BY <2>1, <2>2, <2>3, <2>4, <2>5, <2>6, <2>7
<1>5. ASSUME NEW q \in Requests, GoOn(q) PROVE HandChange(r)
  <2>1. CASE TransitionRead(q)
    BY <1>1, <2>1 DEF Continue, HandChange, TransitionRead, HandOK, Idle
  <2>2. CASE ~TransitionRead(q)
    <3>1. CASE Continue(q, Idle)
      BY <1>1, <3>1 DEF Continue, HandChange, Idle
    <3>2. CASE Continue(q, AuditNext(req[q].id))
      BY <1>1, <3>2 DEF Continue, HandChange, Idle, AuditNext
    <3>3. Continue(q, Idle) \/ Continue(q, AuditNext(req[q].id))
      BY <1>5, <2>2 DEF GoOn, Proceed, TransitionWrite, AssignWrite, CommentWrite, UpdateWrite,
                        Audit, Fail
    <3>4. QED BY <3>1, <3>2, <3>3
  <2>3. QED BY <2>1, <2>2
<1>6. ASSUME NEW w \in Workers, SlaNext(w) PROVE UNCHANGED req
  BY <1>6 DEF SlaNext, RunOn, StartWarnings, StartEscalations, FlagWarning, SendWarning,
              EscalateRead, EscalateWrite, EscalateAudit, RaiseLevel, JobFail, deskVars
<1>7. CASE ClockTick \/ UNCHANGED vars
  BY <1>3, <1>7 DEF ClockTick, Tick, vars, deskVars
<1>8. QED BY <1>3, <1>4, <1>5, <1>6, <1>7 DEF Next

\* The tickets a sweep holds: those still to do and the one in hand.
Sweeping(j) == j.pc \in {"sweep", "write", "audit", "level"}
InSweep(j) == j.todo \cup (IF j.pc = "write" THEN {j.id} ELSE {})

JobChange(w) ==
    LET i == job[w]
        j == job'[w] IN
    \/ j = i
    \/ ~Sweeping(j)
    \/ Sweeping(i) /\ InSweep(j) \subseteq InSweep(i)
    \/ UNCHANGED <<ticket, now>> /\ j.pc = "sweep" /\ \A t \in j.todo : PastDue(ticket[t], now)

(* A step changes each job run in one of the ways above.                      *)
LEMMA JobChanges ==
    ASSUME Typed, [Next]_vars, NEW w \in Workers
    PROVE  JobChange(w)
<1>1. job \in [Workers -> Job] /\ \A v \in Workers : JobOK(job[v], Existing, now)
  BY DEF Typed, TypeOK, InHand
<1>3. CASE UNCHANGED job
  BY <1>3 DEF JobChange
<1>4. ASSUME NEW v \in Workers, NEW todo, LoopOn(v, "warn", todo) PROVE JobChange(w)
  BY <1>1, <1>4 DEF Carry, LoopOn, JobChange, Sweeping, NoJob
<1>5. ASSUME NEW v \in Workers, NEW todo, LoopOn(v, "sweep", todo),
             Sweeping(job[v]), todo \subseteq job[v].todo
      PROVE  JobChange(w)
  BY <1>1, <1>5 DEF Carry, LoopOn, JobChange, Sweeping, InSweep, NoJob
<1>6. ASSUME NEW v \in Workers, SlaNext(v) PROVE JobChange(w)
  <2>1. CASE StartWarnings(v)
    BY <1>4, <2>1 DEF StartWarnings
  <2>2. CASE StartEscalations(v)
    <3> DEFINE listed == {t \in Existing : Breached(ticket[t])}
    <3>1. \A t \in listed : PastDue(ticket[t], now)
      BY DEF Breached, PastDue
    <3>2. LoopOn(v, "sweep", listed) /\ UNCHANGED <<ticket, now>>
      BY <2>2 DEF StartEscalations, deskVars
    <3> HIDE DEF listed
    <3>3. QED BY <1>1, <3>1, <3>2 DEF Carry, LoopOn, JobChange, Sweeping, NoJob
  <2>3. ASSUME NEW t \in TicketIds, FlagWarning(v, t) PROVE JobChange(w)
    <3>1. CASE ticket[t].warned
      BY <1>4, <2>3, <3>1 DEF FlagWarning
    <3>2. CASE ~ticket[t].warned
      BY <1>1, <2>3, <3>2 DEF Carry, FlagWarning, JobChange, Sweeping, NoJob
    <3>3. QED BY <3>1, <3>2
  <2>4. CASE SendWarning(v)
    BY <1>4, <2>4 DEF SendWarning
  <2>5. ASSUME NEW t \in TicketIds, EscalateRead(v, t) PROVE JobChange(w)
    <3> DEFINE rest == job[v].todo \ {t}
               next == [pc |-> "write", todo |-> rest, id |-> t, seen |-> View(ticket[t])]
    <3>1. job[v].pc = "sweep" /\ t \in job[v].todo /\ rest \subseteq job[v].todo
      BY <2>5 DEF EscalateRead
    <3>2. Carry(v, next) \/ LoopOn(v, "sweep", rest)
      BY <2>5 DEF EscalateRead
    <3>3. InSweep(next) \subseteq InSweep(job[v])
      BY <3>1 DEF InSweep
    <3> HIDE DEF rest, next
    <3>4. CASE Carry(v, next)
      BY <1>1, <3>1, <3>3, <3>4 DEF Carry, JobChange, Sweeping
    <3>5. CASE LoopOn(v, "sweep", rest)
      BY <1>5, <3>1, <3>5 DEF Sweeping
    <3>6. QED BY <3>2, <3>4, <3>5
  <2>6. CASE EscalateWrite(v)
    <3> DEFINE next == [job[v] EXCEPT !.pc = "audit", !.seen = NothingSeen]
    <3>1. job[v].pc = "write" /\ (Carry(v, next) \/ LoopOn(v, "sweep", job[v].todo))
      BY <2>6 DEF EscalateWrite
    <3>2. InSweep(next) \subseteq InSweep(job[v])
      BY <1>1 DEF InSweep, Job
    <3> HIDE DEF next
    <3>3. QED BY <1>1, <1>5, <3>1, <3>2 DEF Carry, JobChange, Sweeping
  <2>7. CASE EscalateAudit(v)
    <3> DEFINE next == [job[v] EXCEPT !.pc = "level"]
    <3>1. job[v].pc = "audit" /\ Carry(v, next)
      BY <2>7 DEF EscalateAudit
    <3>2. InSweep(next) \subseteq InSweep(job[v])
      BY <1>1 DEF InSweep, Job
    <3> HIDE DEF next
    <3>3. QED BY <1>1, <3>1, <3>2 DEF Carry, JobChange, Sweeping
  <2>8. CASE RaiseLevel(v)
    BY <1>5, <2>8 DEF RaiseLevel, Sweeping
  <2>9. CASE JobFail(v)
    <3>1. CASE Carry(v, NoJob)
      BY <1>1, <3>1 DEF Carry, JobChange, Sweeping, NoJob
    <3>2. CASE job[v].pc \in {"write", "audit", "level"} /\ LoopOn(v, "sweep", job[v].todo)
      BY <1>5, <3>2 DEF Sweeping
    <3>3. ASSUME NEW t, job[v].pc = "sweep", LoopOn(v, "sweep", job[v].todo \ {t})
          PROVE  JobChange(w)
      BY <1>5, <3>3 DEF Sweeping
    <3>4. QED BY <2>9, <3>1, <3>2, <3>3 DEF JobFail
  <2>10. QED BY <1>6, <2>1, <2>2, <2>3, <2>4, <2>5, <2>6, <2>7, <2>8, <2>9 DEF SlaNext, RunOn
<1>7. ASSUME NEW r \in Requests, Arrive(r) \/ GoOn(r) PROVE UNCHANGED job
  BY <1>7 DEF Arrive, GoOn, slaVars
<1>8. CASE ClockTick \/ UNCHANGED vars
  BY <1>3, <1>8 DEF ClockTick, vars, slaVars
<1>9. QED BY <1>3, <1>6, <1>7, <1>8 DEF Next

-----------------------------------------------------------------------------
(* What every way of changing a row leaves alone or only adds to.          *)

RowLasts(t) ==
    /\ t \in Existing' /\ ticket'[t] \in TicketRow
    /\ ticket'[t].requester = ticket[t].requester
    /\ ticket'[t].due = ticket[t].due /\ ticket'[t].created = ticket[t].created
    /\ ticket'[t].pausedMs >= ticket[t].pausedMs
    /\ ticket[t].warned => ticket'[t].warned
    /\ ticket'[t].warned => ticket[t].warned \/ FlaggedNow(t)
    /\ ticket[t].resolved => ticket'[t].resolved
    /\ ticket'[t].closedAt \in {ticket[t].closedAt, now}

(* Rows stay; requester and deadline are fixed, dates are never taken off.    *)
LEMMA RowsLast ==
    ASSUME Typed, [Next]_vars, NEW t \in Existing
    PROVE  RowLasts(t)
<1>1. t \in TicketIds /\ ticket[t] \in TicketRow /\ ticket[t] # NoTicket /\ now \in Nat
  BY DEF Existing, Typed, TypeOK
<1>2. RowChange(t)
  BY <1>1, RowChanges
<1>3. t \in Existing' => ticket'[t] \in TicketRow
  BY NextTyped DEF Typed, TypeOK, Existing
<1>4. CASE Kept(t)
  BY <1>1, <1>3, <1>4 DEF Kept, RowLasts, TicketRow, Existing
<1>5. ASSUME NEW seen, NEW to, NEW by, t \in Existing', MovedAs(t, seen, to, by)
      PROVE  RowLasts(t)
  <2>1. ticket'[t].pausedMs >= ticket[t].pausedMs
    BY <1>1, <1>5, MovedType DEF MovedAs, Accepted
  <2>2. QED BY <1>1, <1>3, <1>5, <2>1 DEF MovedAs, Moved, RowLasts, TicketRow
<1>6. CASE t \in Existing' /\ Assigned(t)
  BY <1>1, <1>3, <1>6 DEF Assigned, RowLasts, TicketRow
<1>7. CASE t \in Existing' /\ Edited(t)
  <2>1. PICK a, warned : /\ ticket'[t] = [ticket[t] EXCEPT !.assignee = a, !.warned = warned]
                         /\ warned = ticket[t].warned \/ (warned = TRUE /\ FlaggedNow(t))
    BY <1>7 DEF Edited
  <2>2. ticket'[t].warned = ticket[t].warned \/ (ticket'[t].warned = TRUE /\ FlaggedNow(t))
    BY <1>1, <2>1 DEF TicketRow
  <2>3. QED BY <1>1, <1>3, <1>7, <2>1, <2>2 DEF RowLasts, TicketRow
<1>8. QED BY <1>1, <1>2, <1>4, <1>5, <1>6, <1>7
          DEF RowChange, Created, MovedByRequest, MovedBySweep

(* Only the tick moves the clock.                                             *)
LEMMA OnlyTicks ==
    ASSUME [Next]_vars
    PROVE  UNCHANGED now \/ ClockTick
<1>1. ASSUME NEW r \in Requests, Arrive(r) PROVE UNCHANGED now
  <2>1. ASSUME NEW u, NEW t, NEW a, NEW due, Create(r, u, t, a, due) PROVE UNCHANGED now
    BY <2>1 DEF Create
  <2>2. ASSUME NEW u, NEW t, NEW to, RequestTransition(r, u, t, to) PROVE UNCHANGED now
    BY <2>2 DEF RequestTransition
  <2>3. ASSUME NEW u, NEW t, RequestResolve(r, u, t) PROVE UNCHANGED now
    BY <2>3 DEF RequestResolve
  <2>4. ASSUME NEW u, NEW t, NEW a, RequestAssign(r, u, t, a) PROVE UNCHANGED now
    BY <2>4 DEF RequestAssign
  <2>5. ASSUME NEW u, NEW t, RequestComment(r, u, t) PROVE UNCHANGED now
    BY <2>5 DEF RequestComment
  <2>6. ASSUME NEW u, NEW t, NEW a, RequestUpdate(r, u, t, a) PROVE UNCHANGED now
    BY <2>6 DEF RequestUpdate
  <2>7. QED BY <1>1, <2>1, <2>2, <2>3, <2>4, <2>5, <2>6 DEF Arrive, Start
<1>2. ASSUME NEW r \in Requests, GoOn(r) PROVE UNCHANGED now
  <2>1. TransitionRead(r) \/ TransitionWrite(r) => UNCHANGED now
    BY DEF TransitionRead, TransitionWrite
  <2>2. AssignWrite(r) \/ CommentWrite(r) \/ UpdateWrite(r) => UNCHANGED now
    BY DEF AssignWrite, CommentWrite, UpdateWrite
  <2>3. Audit(r) \/ Fail(r) => UNCHANGED now
    BY DEF Audit, Fail
  <2>4. QED BY <1>2, <2>1, <2>2, <2>3 DEF GoOn, Proceed
<1>3. ASSUME NEW w \in Workers, SlaNext(w) PROVE UNCHANGED now
  <2>1. StartWarnings(w) \/ StartEscalations(w) => UNCHANGED now
    BY DEF StartWarnings, StartEscalations, deskVars
  <2>2. ASSUME NEW t, FlagWarning(w, t) \/ EscalateRead(w, t) PROVE UNCHANGED now
    BY <2>2 DEF FlagWarning, EscalateRead, deskVars
  <2>3. SendWarning(w) => UNCHANGED now
    BY DEF SendWarning, deskVars
  <2>4. EscalateWrite(w) \/ EscalateAudit(w) => UNCHANGED now
    BY DEF EscalateWrite, EscalateAudit
  <2>5. RaiseLevel(w) \/ JobFail(w) => UNCHANGED now
    BY DEF RaiseLevel, JobFail, deskVars
  <2>6. QED BY <1>3, <2>1, <2>2, <2>3, <2>4, <2>5 DEF SlaNext, RunOn
<1>4. QED BY <1>1, <1>2, <1>3 DEF Next, vars, deskVars

(* The clock never goes back, so what was past due stays past due.            *)
LEMMA ClockLasts ==
    ASSUME Typed, [Next]_vars
    PROVE  now \in Nat /\ now' \in Nat /\ now <= now'
<1>1. now \in Nat
  BY DEF Typed, TypeOK
<1>2. QED BY <1>1, OnlyTicks DEF ClockTick, Tick

-----------------------------------------------------------------------------
(* The inductive invariant: the invariants to be shown, the types, and what    *)
(* each handler and job run knows of the ticket it is about to write.          *)
Safe ==
    /\ Typed
    /\ HistoryExplainsStatus
    /\ DatesStamped
    /\ RowsWithinAuthority
    /\ EscalatedOnlyPastDue
    /\ InEffect

(* A row that is there afterwards was created by the step or was there before. *)
LEMMA Cases ==
    ASSUME Typed, [Next]_vars, NEW t \in TicketIds, t \in Existing'
    PROVE  \/ Created(t)
           \/ t \in Existing /\ (Kept(t) \/ MovedByRequest(t) \/ MovedBySweep(t)
                                         \/ Assigned(t) \/ Edited(t))
BY RowChanges DEF RowChange, Kept, Existing

(* What an assignment writes, and what the table lets a write do. *)
LEMMA AssignFacts ==
    ASSUME NEW s \in Status
    PROVE  /\ AssignedStatus(s) \in Status \ {"NEW"}
           /\ s = "NEW" => AssignedStatus(s) = "ASSIGNED" /\ CanTransition(s, AssignedStatus(s))
           /\ s # "NEW" => AssignedStatus(s) = s
BY DEF AssignedStatus, Status, CanTransition, Allowed

(* HistoryExplainsStatus: every write sets status and history row together.   *)
LEMMA HistoryNext == Safe /\ [Next]_vars => HistoryExplainsStatus'
<1> SUFFICES ASSUME Safe, [Next]_vars, NEW t \in TicketIds, t \in Existing'
             PROVE  LegalRow(lastRow'[t]) /\ lastRow'[t].to = ticket'[t].status
  BY DEF HistoryExplainsStatus, Existing
<1>1. Typed /\ (t \in Existing => LegalRow(lastRow[t]) /\ lastRow[t].to = ticket[t].status
                                  /\ ticket[t] \in TicketRow)
  BY DEF Safe, HistoryExplainsStatus, Typed, TypeOK, Existing
<1>2. CASE Created(t)
  BY <1>2 DEF Created, LegalRow
<1>3. ASSUME NEW seen, NEW to, NEW by, t \in Existing, MovedAs(t, seen, to, by)
      PROVE  LegalRow(lastRow'[t]) /\ lastRow'[t].to = ticket'[t].status
  BY <1>1, <1>3 DEF MovedAs, Moved, LegalRow, TicketRow
<1>4. CASE t \in Existing /\ Assigned(t)
  BY <1>1, <1>4, AssignFacts DEF Assigned, LegalRow, TicketRow
<1>5. CASE t \in Existing /\ (Kept(t) \/ Edited(t))
  BY <1>1, <1>5 DEF Kept, Edited, TicketRow
<1>6. QED BY <1>1, <1>2, <1>3, <1>4, <1>5, Cases DEF MovedByRequest, MovedBySweep

(* What a handler with something in hand knows of its ticket. *)
LEMMA HandKnows ==
    ASSUME Safe, NEW r \in Requests
    PROVE  /\ req[r] \in Request
           /\ HandOK(req[r], Existing, now)
           /\ Remembers(req[r], ticket[req[r].id])
           /\ Entitled(req[r], ticket[req[r].id])
BY DEF Safe, Typed, TypeOK, InHand, InEffect

(* DatesStamped: an assignment writes back CLOSED or RESOLVED only over a row *)
(* that has the date already, for dates are never taken off (Remembers).      *)
LEMMA DatesNext == Safe /\ [Next]_vars => DatesStamped'
<1> SUFFICES ASSUME Safe, [Next]_vars, NEW t \in TicketIds, t \in Existing'
             PROVE  /\ ticket'[t].status = "CLOSED" => ticket'[t].closedAt # NoTime
                    /\ ticket'[t].status = "RESOLVED" => ticket'[t].resolved
  BY DEF DatesStamped, Existing
<1>1. /\ Typed /\ now \in Nat
      /\ t \in Existing => /\ ticket[t].status = "CLOSED" => ticket[t].closedAt # NoTime
                           /\ ticket[t].status = "RESOLVED" => ticket[t].resolved
                           /\ ticket[t] \in TicketRow
  BY DEF Safe, DatesStamped, Typed, TypeOK, Existing
<1>2. CASE Created(t)
  BY <1>2 DEF Created
<1>3. ASSUME NEW seen, NEW to, NEW by, t \in Existing, MovedAs(t, seen, to, by)
      PROVE  /\ ticket'[t].status = "CLOSED" => ticket'[t].closedAt # NoTime
             /\ ticket'[t].status = "RESOLVED" => ticket'[t].resolved
  <2>1. now # NoTime
    BY <1>1, NoTimeAssumption
  <2>2. /\ ticket'[t].status = to
        /\ ticket'[t].closedAt = IF to = "CLOSED" THEN now ELSE ticket[t].closedAt
    BY <1>1, <1>3 DEF MovedAs, Moved, TicketRow
  <2>3. ticket'[t].resolved = (ticket[t].resolved \/ to = "RESOLVED")
    BY <1>1, <1>3 DEF MovedAs, Moved, TicketRow
  <2>4. QED BY <2>1, <2>2, <2>3
<1>4. CASE t \in Existing /\ Assigned(t)
  <2>1. PICK r \in Requests :
           /\ req[r].pc = "assign" /\ req[r].id = t /\ req[r].seen.status \in Status
           /\ ticket'[t] = [ticket[t] EXCEPT !.assignee = req[r].assignee,
                                             !.status = AssignedStatus(req[r].seen.status)]
    BY <1>4 DEF Assigned
  <2>2. /\ req[r].seen.status = "CLOSED" => ticket[t].closedAt # NoTime
        /\ req[r].seen.status = "RESOLVED" => ticket[t].resolved
    BY <2>1, HandKnows DEF Remembers
  <2>3. QED BY <1>1, <1>4, <2>1, <2>2, AssignFacts DEF TicketRow
<1>5. CASE t \in Existing /\ (Kept(t) \/ Edited(t))
  BY <1>1, <1>5 DEF Kept, Edited, TicketRow
<1>6. QED BY <1>1, <1>2, <1>3, <1>4, <1>5, Cases DEF MovedByRequest, MovedBySweep

(* What the roles of an actor make of his requests. *)
LEMMA ScopeFacts ==
    ASSUME NEW u, NEW row, NEW to
    PROVE  /\ HasRole(u, {"IT_ADMIN", "SYS_ADMIN"}) => VisibilityScope(u) = "all"
           /\ HasRole(u, {"AGENT", "L2_L3", "IT_ADMIN", "SYS_ADMIN"}) => VisibilityScope(u) # "own"
           /\ MayTransition(row, u, to) =>
                /\ VisibilityScope(u) = "own" =>
                     u = row.requester /\ to \in {"CANCELLED", "REOPENED", "CLOSED"}
                /\ VisibilityScope(u) = "assigned" => to # "REOPENED"
<1>1. HasRole(u, {"IT_ADMIN", "SYS_ADMIN"}) => VisibilityScope(u) = "all"
  BY DEF VisibilityScope
<1>2. HasRole(u, {"AGENT", "L2_L3", "IT_ADMIN", "SYS_ADMIN"}) => VisibilityScope(u) # "own"
  BY DEF VisibilityScope, HasRole
<1>3. VisibilityScope(u) = "own" /\ InWriteScope(row, u) => u = row.requester
  BY DEF InWriteScope
<1>4. QED BY <1>1, <1>2, <1>3 DEF MayTransition

(* RowsWithinAuthority: what was checked at the request still holds at the    *)
(* write, since a ticket never changes its requester (Entitled).              *)
LEMMA AuthorityNext == Safe /\ [Next]_vars => RowsWithinAuthority'
<1> DEFINE Within(row, requester) ==
              row.by \in Users /\ row.from # NoStatus =>
                  /\ VisibilityScope(row.by) = "own" =>
                       /\ row.by = requester
                       /\ row.to \in {"CANCELLED", "REOPENED", "CLOSED"}
                       /\ row.to = "CLOSED" => row.from = "RESOLVED"
                  /\ VisibilityScope(row.by) = "assigned" => row.to # "REOPENED"
<1> SUFFICES ASSUME Safe, [Next]_vars, NEW t \in TicketIds, t \in Existing'
             PROVE  Within(lastRow'[t], ticket'[t].requester)
  BY DEF RowsWithinAuthority, Existing, VisibilityScope, HasRole
<1>1. /\ Typed
      /\ t \in Existing => /\ Within(lastRow[t], ticket[t].requester)
                           /\ ticket'[t].requester = ticket[t].requester
  BY RowsLast DEF Safe, RowsWithinAuthority, RowLasts
<1>2. CASE Created(t)
  BY <1>2 DEF Created
<1>3. CASE t \in Existing /\ MovedByRequest(t)
  <2>1. PICK r \in Requests : /\ req[r].pc = "write" /\ req[r].id = t /\ req[r].actor \in Users
                              /\ MovedAs(t, req[r].seen, req[r].to, req[r].actor)
    BY <1>3 DEF MovedByRequest
  <2>2. /\ lastRow'[t].from = req[r].seen.status /\ lastRow'[t].to = req[r].to
        /\ lastRow'[t].by = req[r].actor
        /\ req[r].to = "CLOSED" => req[r].seen.status = "RESOLVED"
    BY <2>1, TableFacts DEF MovedAs
  <2>3. Entitled(req[r], ticket[t])
    BY <2>1, HandKnows
  <2>4. QED BY <1>1, <1>3, <2>1, <2>2, <2>3 DEF Entitled
<1>4. CASE t \in Existing /\ MovedBySweep(t)
  BY <1>4, UsersAssumption DEF MovedBySweep, MovedAs
<1>5. CASE t \in Existing /\ Assigned(t)
  <2>1. PICK r \in Requests : /\ req[r].pc = "assign" /\ req[r].id = t
                              /\ lastRow'[t].by = req[r].actor
    BY <1>5 DEF Assigned
  <2>2. VisibilityScope(req[r].actor) = "all"
    BY <2>1, HandKnows DEF Entitled
  <2>3. QED BY <2>1, <2>2
<1>6. CASE t \in Existing /\ (Kept(t) \/ Edited(t))
  BY <1>1, <1>6 DEF Kept, Edited
<1>7. QED BY <1>1, <1>2, <1>3, <1>4, <1>5, <1>6, Cases

(* EscalatedOnlyPastDue: a sweep carries past-due tickets only (SweepsPastDue).*)
LEMMA PastDueNext == Safe /\ [Next]_vars => EscalatedOnlyPastDue'
<1> SUFFICES ASSUME Safe, [Next]_vars, NEW t \in TicketIds, t \in Existing', lastRow'[t].by = System
             PROVE  PastDue(ticket'[t], now')
  BY DEF EscalatedOnlyPastDue, PastDue, Existing
<1>1. /\ Typed /\ now \in Nat /\ now' \in Nat /\ now <= now'
      /\ t \in Existing => /\ ticket'[t].due = ticket[t].due /\ ticket[t] \in TicketRow
                           /\ lastRow[t].by = System => PastDue(ticket[t], now)
  BY RowsLast, ClockLasts DEF Safe, EscalatedOnlyPastDue, PastDue, RowLasts, Typed, TypeOK, Existing
<1>2. t \in Existing /\ PastDue(ticket[t], now) => PastDue(ticket'[t], now')
  BY <1>1 DEF PastDue, TicketRow, OptTime
<1>3. CASE Created(t)
  BY <1>3, UsersAssumption DEF Created
<1>4. CASE t \in Existing /\ MovedByRequest(t)
  BY <1>4, UsersAssumption DEF MovedByRequest, MovedAs
<1>5. CASE t \in Existing /\ MovedBySweep(t)
  <2>1. PICK w \in Workers : job[w].pc = "write" /\ job[w].id = t
    BY <1>5 DEF MovedBySweep
  <2>2. PastDue(ticket[t], now)
    BY <2>1 DEF Safe, InEffect, SweepsPastDue
  <2>3. QED BY <1>2, <1>5, <2>2
<1>6. CASE t \in Existing /\ Assigned(t)
  BY <1>6, UsersAssumption DEF Assigned
<1>7. CASE t \in Existing /\ (Kept(t) \/ Edited(t))
  BY <1>1, <1>2, <1>7 DEF Kept, Edited
<1>8. QED BY <1>1, <1>3, <1>4, <1>5, <1>6, <1>7, Cases

(* No closing date lies in the future.                                        *)
LEMMA ClosedNext ==
    ASSUME Safe, [Next]_vars, NEW t \in TicketIds, t \in Existing'
    PROVE  ticket'[t].closedAt # NoTime => ticket'[t].closedAt <= now'
<1>1. /\ Typed /\ now \in Nat /\ now' \in Nat /\ now <= now'
      /\ t \in Existing => /\ ticket[t] \in TicketRow
                           /\ ticket[t].closedAt # NoTime => ticket[t].closedAt <= now
  BY ClockLasts DEF Safe, InEffect, Typed, TypeOK, Existing
<1>2. CASE t \in Existing
  <2>1. ticket'[t].closedAt \in {ticket[t].closedAt, now}
    BY <1>1, <1>2, RowsLast DEF RowLasts
  <2>2. QED BY <1>1, <1>2, <2>1 DEF TicketRow, OptTime
<1>3. CASE t \notin Existing
  <2>1. Created(t)
    BY <1>1, <1>3, Cases
  <2>2. ticket'[t].closedAt = NoTime
    BY <2>1 DEF Created
  <2>3. QED BY <2>2
<1>4. QED BY <1>2, <1>3

(* Closing dates only move forward, and only to the present. *)
LEMMA ClosedLasts ==
    ASSUME Safe, [Next]_vars, NEW t \in Existing, ticket[t].closedAt # NoTime
    PROVE  /\ ticket'[t].closedAt # NoTime
           /\ ticket[t].closedAt <= ticket'[t].closedAt
<1>1. /\ Typed /\ now \in Nat /\ ticket[t] \in TicketRow /\ ticket[t].closedAt <= now
  BY DEF Safe, InEffect, Typed, TypeOK, Existing
<1>2. ticket'[t].closedAt \in {ticket[t].closedAt, now}
  BY <1>1, RowsLast DEF RowLasts
<1>3. QED BY <1>1, <1>2, NoTimeAssumption DEF TicketRow, OptTime

(* What InEffect says of the handlers is kept.                                *)
LEMMA HandsNext ==
    ASSUME Safe, [Next]_vars, NEW r \in Requests
    PROVE  /\ Remembers(req'[r], ticket'[req'[r].id])
           /\ Entitled(req'[r], ticket'[req'[r].id])
<1> DEFINE h == req[r]
           k == req'[r]
<1>1. Typed /\ Typed'
  BY NextTyped DEF Safe
<1>2. /\ h \in Request /\ HandOK(h, Existing, now)
      /\ Remembers(h, ticket[h.id]) /\ Entitled(h, ticket[h.id])
      /\ k \in Request
  BY <1>1, HandKnows DEF Typed, TypeOK
<1>3. HandChange(r)
  BY <1>1, HandChanges
<1> HIDE DEF h, k
<1>4. CASE k = h
  <2>1. CASE h.pc \in {"transition", "write", "assign"}
    <3>1. h.id \in Existing
      BY <1>2, <2>1 DEF HandOK
    <3>2. RowLasts(h.id)
      BY <1>1, <3>1, RowsLast
    <3>3. Entitled(k, ticket'[k.id])
      BY <1>2, <1>4, <3>2 DEF Entitled, RowLasts
    <3>4. ticket[h.id].closedAt # NoTime =>
             /\ ticket'[h.id].closedAt # NoTime
             /\ ticket[h.id].closedAt <= ticket'[h.id].closedAt
      BY <3>1, ClosedLasts
    <3>5. ticket[h.id] \in TicketRow /\ ticket'[h.id] \in TicketRow
      BY <1>1, <3>1, <3>2 DEF Existing, Typed, TypeOK, RowLasts
    <3>6. Remembers(k, ticket'[k.id])
      BY <1>2, <1>4, <3>2, <3>4, <3>5 DEF Remembers, RowLasts, Request, Seen, TicketRow, OptTime
    <3>7. QED BY <3>3, <3>6 DEF k
  <2>2. CASE h.pc \notin {"transition", "write", "assign"}
    BY <1>4, <2>2 DEF Remembers, Entitled, k
  <2>3. QED BY <2>1, <2>2
<1>5. CASE k.pc \notin {"transition", "write", "assign"}
  BY <1>5 DEF Remembers, Entitled, k
<1>6. CASE /\ ticket' = ticket /\ k.pc = "transition"
           /\ \/ MayTransition(ticket[k.id], k.actor, k.to)
              \/ /\ HasRole(k.actor, {"AGENT", "L2_L3", "IT_ADMIN", "SYS_ADMIN"})
                 /\ k.to = "RESOLVED"
  BY <1>6, ScopeFacts DEF Remembers, Entitled, k
<1>7. CASE /\ ticket' = ticket /\ k.pc = "assign" /\ k.id \in Existing
           /\ HasRole(k.actor, {"IT_ADMIN", "SYS_ADMIN"})
           /\ k.seen.status = ticket[k.id].status
  <2>1. Entitled(k, ticket'[k.id])
    BY <1>7, ScopeFacts DEF Entitled
  <2>2. /\ ticket[k.id].status = "CLOSED" => ticket[k.id].closedAt # NoTime
        /\ ticket[k.id].status = "RESOLVED" => ticket[k.id].resolved
    BY <1>7 DEF Safe, DatesStamped
  <2>3. Remembers(k, ticket'[k.id])
    BY <1>7, <2>2 DEF Remembers
  <2>4. QED BY <2>1, <2>3 DEF k
<1>8. CASE /\ ticket' = ticket /\ h.pc = "transition" /\ h.id \in Existing
           /\ k = [h EXCEPT !.pc = "write", !.seen = View(ticket[h.id])]
  <2>1. /\ k.pc = "write" /\ k.id = h.id /\ k.actor = h.actor /\ k.to = h.to
        /\ k.seen = View(ticket[h.id])
    BY <1>2, <1>8 DEF Request
  <2>2. Entitled(k, ticket'[k.id])
    BY <1>2, <1>8, <2>1 DEF Entitled
  <2>3. /\ ticket[h.id].status = "CLOSED" => ticket[h.id].closedAt # NoTime
        /\ ticket[h.id].closedAt \in OptTime
    BY <1>1, <1>8 DEF Safe, DatesStamped, Typed, TypeOK, Existing, TicketRow
  <2>4. k.seen.status = ticket[h.id].status /\ k.seen.closedAt = ticket[h.id].closedAt
    BY <2>1 DEF View
  <2>5. Remembers(k, ticket'[k.id])
    BY <1>8, <2>1, <2>3, <2>4 DEF Remembers, OptTime
  <2>6. QED BY <2>2, <2>5 DEF k
<1>9. QED BY <1>3, <1>4, <1>5, <1>6, <1>7, <1>8 DEF HandChange, h, k

(* What InEffect says of the sweeps is kept.                                  *)
LEMMA SweepsNext ==
    ASSUME Safe, [Next]_vars, NEW w \in Workers
    PROVE  SweepsPastDue(job'[w], ticket', now')
<1> DEFINE i == job[w]
           j == job'[w]
<1>1. /\ Typed /\ now \in Nat /\ now' \in Nat /\ now <= now'
      /\ JobOK(i, Existing, now) /\ SweepsPastDue(i, ticket, now)
  BY ClockLasts DEF Safe, InEffect, Typed, InHand
<1>2. ASSUME NEW t \in Existing, PastDue(ticket[t], now)
      PROVE  PastDue(ticket'[t], now')
  <2>1. ticket'[t].due = ticket[t].due /\ ticket[t] \in TicketRow
    BY <1>1, RowsLast DEF RowLasts, Existing, Typed, TypeOK
  <2>2. QED BY <1>1, <1>2, <2>1 DEF PastDue, TicketRow, OptTime
<1>3. JobChange(w)
  BY <1>1, JobChanges
<1> HIDE DEF i, j
<1>4. CASE Sweeping(i) /\ (j = i \/ (Sweeping(j) /\ InSweep(j) \subseteq InSweep(i)))
  <2>1. InSweep(i) \subseteq Existing /\ \A t \in InSweep(i) : PastDue(ticket[t], now)
    BY <1>1, <1>4 DEF JobOK, SweepsPastDue, InSweep, Sweeping
  <2>2. \A t \in InSweep(j) : PastDue(ticket'[t], now')
    BY <1>2, <1>4, <2>1
  <2>3. QED BY <2>2 DEF InSweep, SweepsPastDue, j
<1>5. CASE ~Sweeping(j)
  BY <1>5 DEF Sweeping, SweepsPastDue, j
<1>6. CASE ticket' = ticket /\ now' = now /\ j.pc = "sweep" /\ \A t \in j.todo : PastDue(ticket[t], now)
  BY <1>6 DEF SweepsPastDue, j
<1>7. QED BY <1>3, <1>4, <1>5, <1>6 DEF JobChange, i, j

(* Safe is inductive. *)
LEMMA SafeNext == Safe /\ [Next]_vars => Safe'
<1> SUFFICES ASSUME Safe, [Next]_vars PROVE Safe'
  OBVIOUS
<1>1. Typed'
  BY NextTyped DEF Safe
<1>2. \A t \in Existing' : ticket'[t].closedAt # NoTime => ticket'[t].closedAt <= now'
  BY ClosedNext DEF Existing
<1>3. InEffect'
  BY <1>2, HandsNext, SweepsNext DEF InEffect
<1>4. QED BY <1>1, <1>3, HistoryNext, DatesNext, AuthorityNext, PastDueNext DEF Safe

(* Nothing exists and nobody has anything in hand at the start.              *)
LEMMA InitSafe == Init => Safe
<1> SUFFICES ASSUME Init PROVE Safe
  OBVIOUS
<1>1. Existing = {}
  BY DEF Init, DeskInit, Existing
<1>2. \A r \in Requests : req[r].pc = "idle"
  BY DEF Init, DeskInit, Idle
<1>3. \A w \in Workers : job[w].pc = "idle"
  BY DEF Init, SlaInit, NoJob
<1>4. InEffect
  BY <1>1, <1>2, <1>3 DEF InEffect, Remembers, Entitled, SweepsPastDue
<1>5. QED BY <1>1, <1>4, InitTyped DEF Safe, HistoryExplainsStatus, DatesStamped,
                                     RowsWithinAuthority, EscalatedOnlyPastDue

(* The inductive invariant holds of every behaviour of the desk.             *)
THEOREM AlwaysSafe == Spec => []Safe
BY InitSafe, SafeNext, PTL DEF Spec

(* A ticket's status is always the one its last history row says, and that row *)
(* is a creation, an entry of the transition table or a plain reassignment.    *)
THEOREM HistoryCorrect == Spec => []HistoryExplainsStatus
<1>1. Safe => HistoryExplainsStatus
  BY DEF Safe
<1>2. QED BY <1>1, AlwaysSafe, PTL

(* A closed ticket always has its closing date, a resolved one its resolution  *)
(* date, also where an assignment wrote a status read long before.             *)
THEOREM DatesCorrect == Spec => []DatesStamped
<1>1. Safe => DatesStamped
  BY DEF Safe
<1>2. QED BY <1>1, AlwaysSafe, PTL

(* No history row names a user who was not entitled to the change it records.  *)
THEOREM AuthorityCorrect == Spec => []RowsWithinAuthority
<1>1. Safe => RowsWithinAuthority
  BY DEF Safe
<1>2. QED BY <1>1, AlwaysSafe, PTL

(* The sweep never escalates a ticket before its deadline, nor one without.    *)
THEOREM EscalationCorrect == Spec => []EscalatedOnlyPastDue
<1>1. Safe => EscalatedOnlyPastDue
  BY DEF Safe
<1>2. QED BY <1>1, AlwaysSafe, PTL

-----------------------------------------------------------------------------
(* Steps that never happen.                                                *)

(* No write brings a ticket back to NEW.                                       *)
THEOREM NeverNewAgain == Spec => NewIsLeftForGood
<1> DEFINE A == \A t \in TicketIds : ticket[t] # NoTicket /\ ticket[t].status # "NEW"
                                        => ticket'[t].status # "NEW"
<1>1. Safe /\ [Next]_vars => [A]_vars
  <2> SUFFICES ASSUME Safe, [Next]_vars, NEW t \in TicketIds,
                      ticket[t] # NoTicket, ticket[t].status # "NEW"
               PROVE  ticket'[t].status # "NEW"
    OBVIOUS
  <2>1. Typed /\ ticket[t] \in TicketRow
    BY DEF Safe, Typed, TypeOK
  <2>2. CASE Kept(t) \/ Edited(t)
    BY <2>1, <2>2 DEF Kept, Edited, TicketRow
  <2>3. ASSUME NEW seen, NEW to, NEW by, MovedAs(t, seen, to, by)
        PROVE  ticket'[t].status # "NEW"
    BY <2>1, <2>3, TableFacts DEF MovedAs, Moved, TicketRow
  <2>4. CASE Assigned(t)
    BY <2>1, <2>4, AssignFacts DEF Assigned, TicketRow
  <2>5. QED BY <2>1, <2>2, <2>3, <2>4, RowChanges
            DEF RowChange, Created, MovedByRequest, MovedBySweep
<1>2. QED BY <1>1, AlwaysSafe, PTL DEF Spec, NewIsLeftForGood

(* A reopening that a history row records took place within the window that    *)
(* the row's latest closing date opens, however long ago the handler read it.  *)
THEOREM WindowKept == Spec => ReopenedInWindow
<1> DEFINE A == \A t \in TicketIds :
                  StatusWritten(t) /\ lastRow'[t].from = "CLOSED" /\ lastRow'[t].to = "REOPENED"
                    => ticket[t].closedAt # NoTime /\ now <= ticket[t].closedAt + ReopenWindow
<1>1. Safe /\ [Next]_vars => [A]_vars
  <2> SUFFICES ASSUME Safe, [Next]_vars, NEW t \in TicketIds, StatusWritten(t),
                      lastRow'[t].from = "CLOSED", lastRow'[t].to = "REOPENED"
               PROVE  ticket[t].closedAt # NoTime /\ now <= ticket[t].closedAt + ReopenWindow
    OBVIOUS
  <2>1. Typed /\ ticket[t] \in TicketRow /\ now \in Nat
    BY DEF Safe, Typed, TypeOK, StatusWritten
  <2>2. ~Kept(t) /\ ~Edited(t)
    BY <2>1 DEF StatusWritten, Kept, Edited, TicketRow
  <2>a. ASSUME Assigned(t) PROVE FALSE
    <3>1. PICK r \in Requests :
             /\ req[r].seen.status \in Status
             /\ lastRow'[t] = [from |-> req[r].seen.status,
                               to |-> AssignedStatus(req[r].seen.status), by |-> req[r].actor]
      BY <2>a DEF Assigned
    <3>2. req[r].seen.status = "CLOSED" /\ AssignedStatus(req[r].seen.status) = "REOPENED"
      BY <3>1
    <3>3. QED BY <3>2 DEF AssignedStatus
  <2>b. ASSUME MovedBySweep(t) PROVE FALSE
    BY <2>b DEF MovedBySweep, MovedAs
  <2>3. ~Assigned(t) /\ ~MovedBySweep(t)
    BY <2>a, <2>b
  <2>4. MovedByRequest(t)
    BY <2>1, <2>2, <2>3, RowChanges DEF RowChange, Created, StatusWritten
  <2>5. PICK r \in Requests : /\ req[r].pc = "write" /\ req[r].id = t
                              /\ MovedAs(t, req[r].seen, req[r].to, req[r].actor)
    BY <2>4 DEF MovedByRequest
  <2> DEFINE seen == req[r].seen
  <2>6. seen.status = "CLOSED" /\ req[r].to = "REOPENED" /\ WithinReopenWindow(seen, req[r].to)
    BY <2>5 DEF MovedAs, Accepted
  <2>7. seen.closedAt # NoTime /\ ticket[t].closedAt # NoTime /\ seen.closedAt <= ticket[t].closedAt
    BY <2>5, <2>6, HandKnows DEF Remembers
  <2>8. seen.closedAt \in OptTime /\ ticket[t].closedAt \in OptTime
    BY <2>1, <2>5 DEF MovedAs, Seen, TicketRow
  <2>9. now <= seen.closedAt + ReopenWindow
    BY <2>6, <2>7 DEF WithinReopenWindow
  <2> HIDE DEF seen
  <2>10. QED BY <2>1, <2>7, <2>8, <2>9, BoundsAssumption DEF OptTime
<1>2. QED BY <1>1, AlwaysSafe, PTL DEF Spec, ReopenedInWindow

(* Whatever is written over a row: recorded pauses add up, closing dates move  *)
(* forward, a warning given stays given.                                       *)
THEOREM RecordsKept == Spec => RecordsOnlyGrow
<1> DEFINE A == \A t \in TicketIds : ticket[t] # NoTicket =>
                  /\ ticket'[t].pausedMs >= ticket[t].pausedMs
                  /\ ticket[t].closedAt # NoTime => ticket'[t].closedAt >= ticket[t].closedAt
                  /\ ticket[t].warned => ticket'[t].warned
<1>1. Safe /\ [Next]_vars => [A]_vars
  <2> SUFFICES ASSUME Safe, [Next]_vars, NEW t \in TicketIds, ticket[t] # NoTicket
               PROVE  /\ ticket'[t].pausedMs >= ticket[t].pausedMs
                      /\ ticket[t].closedAt # NoTime => ticket'[t].closedAt >= ticket[t].closedAt
                      /\ ticket[t].warned => ticket'[t].warned
    OBVIOUS
  <2>1. t \in Existing /\ Typed
    BY DEF Existing, Safe
  <2>2. RowLasts(t)
    BY <2>1, RowsLast
  <2>3. ticket[t].closedAt # NoTime =>
           ticket'[t].closedAt # NoTime /\ ticket[t].closedAt <= ticket'[t].closedAt
    BY <2>1, ClosedLasts
  <2>4. ticket[t] \in TicketRow /\ ticket'[t] \in TicketRow
    BY <2>1, <2>2 DEF Existing, Typed, TypeOK, RowLasts
  <2>5. QED BY <2>2, <2>3, <2>4 DEF RowLasts, TicketRow, OptTime
<1>2. QED BY <1>1, AlwaysSafe, PTL DEF Spec, RecordsOnlyGrow

-----------------------------------------------------------------------------
(* Warnings.                                                               *)

\* Three quarters of the resolution time are over, pauses not counted.
Late(row, time) == row.due # NoTime /\ 4 * (row.due - time) <= row.due - row.created

\* What a run of the warning job has in hand: tickets that are late, and one
\* whose flag it has set itself.
Warns(j, rows, time) ==
    /\ j.pc \in {"warn", "flagged"} => \A t \in j.todo : Late(rows[t], time)
    /\ j.pc = "flagged" => rows[j.id].warned

\* The flag of a ticket is set by one run, which has yet to send the warning,
\* or has sent it.
WarningsInOrder ==
    /\ \A t \in TicketIds :
         /\ warnings[t] <= 1
         /\ warnings[t] = 1 => t \in Existing /\ ticket[t].warned
    /\ \A t \in Existing : ticket[t].warned => Late(ticket[t], now)
    /\ \A w \in Workers : Warns(job[w], ticket, now)
    /\ \A w \in Workers : job[w].pc = "flagged" => warnings[job[w].id] = 0
    /\ \A w, v \in Workers :
         job[w].pc = "flagged" /\ job[v].pc = "flagged" /\ job[w].id = job[v].id => w = v

\* Time does not make a late ticket early.
LEMMA LateLasts ==
    ASSUME NEW row \in TicketRow, NEW new \in TicketRow, NEW m \in Nat, NEW n \in Nat, m <= n,
           new.due = row.due, new.created = row.created, Late(row, m)
    PROVE  Late(new, n)
<1>1. row.due \in Nat /\ row.created \in Nat
  BY DEF TicketRow, OptTime, Late
<1> QED BY <1>1 DEF Late

LEMMA DueIsLate ==
    ASSUME NEW row \in TicketRow, now \in Nat, WarningDue(row)
    PROVE  Late(row, now)
<1>1. row.due \in Nat /\ row.created \in Nat /\ row.pausedMs \in Nat
  BY BoundsAssumption DEF TicketRow, OptTime, WarningDue
<1> QED BY <1>1 DEF Late, WarningDue

Flagging(w, t) == FlagWarning(w, t) /\ ~ticket[t].warned

\* What one step may do to a run of the warning job.
WarnChange(w) ==
    LET i == job[w]
        j == job'[w] IN
    \/ j.pc \notin {"warn", "flagged"}
    \/ j = i
    \/ j.pc = "warn" /\ i.pc \in {"warn", "flagged"} /\ j.todo \subseteq i.todo
    \/ /\ j.pc = "warn" /\ UNCHANGED <<ticket, now>>
       /\ \A t \in j.todo : t \in Existing /\ WarningDue(ticket[t])
    \/ \E t \in TicketIds :
         Flagging(w, t) /\ j.pc = "flagged" /\ j.id = t /\ j.todo = i.todo \ {t}

LEMMA WarnChanges ==
    ASSUME Typed, [Next]_vars, NEW w \in Workers
    PROVE  WarnChange(w)
<1>1. job \in [Workers -> Job]
  BY DEF Typed, TypeOK
<1>2. UNCHANGED job => WarnChange(w)
  BY DEF WarnChange
<1>3. ASSUME NEW v \in Workers, NEW todo, LoopOn(v, "sweep", todo) PROVE WarnChange(w)
  BY <1>1, <1>3 DEF Carry, LoopOn, WarnChange, NoJob
<1>4. ASSUME NEW v \in Workers, NEW todo, LoopOn(v, "warn", todo),
             \/ job[v].pc \in {"warn", "flagged"} /\ todo \subseteq job[v].todo
             \/ UNCHANGED <<ticket, now>> /\ \A t \in todo : t \in Existing /\ WarningDue(ticket[t])
      PROVE  WarnChange(w)
  <2> DEFINE k == IF todo = {} THEN NoJob ELSE [NoJob EXCEPT !.pc = "warn", !.todo = todo]
  <2>1. k.pc = "idle" \/ (k.pc = "warn" /\ k.todo = todo)
    BY DEF NoJob
  <2>2. job'[v] = k /\ (w # v => job'[w] = job[w])
    BY <1>1, <1>4 DEF Carry, LoopOn
  <2> HIDE DEF k
  <2> QED BY <1>4, <2>1, <2>2 DEF WarnChange
<1>5. ASSUME NEW v \in Workers, NEW k, Carry(v, k), k.pc \notin {"warn", "flagged"} PROVE WarnChange(w)
  BY <1>1, <1>5 DEF Carry, WarnChange
<1>6. ASSUME NEW v \in Workers, SlaNext(v) PROVE WarnChange(w)
  <2>1. CASE StartWarnings(v)
    BY <1>4, <2>1 DEF StartWarnings, deskVars
  <2>2. CASE StartEscalations(v)
    BY <1>3, <2>2 DEF StartEscalations
  <2>3. ASSUME NEW t \in TicketIds, FlagWarning(v, t) PROVE WarnChange(w)
    <3>1. CASE ticket[t].warned
      <4>1. job[v].pc = "warn" /\ LoopOn(v, "warn", job[v].todo \ {t})
        BY <2>3, <3>1 DEF FlagWarning
      <4> QED BY <1>4, <4>1
    <3>2. CASE ~ticket[t].warned
      <4> DEFINE k == [NoJob EXCEPT !.pc = "flagged", !.todo = job[v].todo \ {t}, !.id = t]
      <4>1. k.pc = "flagged" /\ k.id = t /\ k.todo = job[v].todo \ {t}
        BY DEF NoJob
      <4>2. Carry(v, k)
        BY <2>3, <3>2 DEF FlagWarning
      <4> HIDE DEF k
      <4>3. job'[v] = k /\ (w # v => job'[w] = job[w])
        BY <1>1, <4>2 DEF Carry
      <4>4. Flagging(v, t)
        BY <2>3, <3>2 DEF Flagging
      <4> QED BY <4>1, <4>3, <4>4 DEF WarnChange
    <3> QED BY <3>1, <3>2
  <2>4. CASE SendWarning(v)
    BY <1>4, <2>4 DEF SendWarning
  <2>5. ASSUME NEW t \in TicketIds, EscalateRead(v, t) PROVE WarnChange(w)
    BY <1>3, <1>5, <2>5 DEF EscalateRead
  <2>6. CASE EscalateWrite(v)
    <3>1. [job[v] EXCEPT !.pc = "audit", !.seen = NothingSeen].pc = "audit"
      BY <1>1 DEF Job
    <3> QED BY <1>3, <1>5, <2>6, <3>1 DEF EscalateWrite
  <2>7. CASE EscalateAudit(v)
    <3>1. [job[v] EXCEPT !.pc = "level"].pc = "level"
      BY <1>1 DEF Job
    <3> QED BY <1>5, <2>7, <3>1 DEF EscalateAudit
  <2>8. CASE RaiseLevel(v)
    BY <1>3, <2>8 DEF RaiseLevel
  <2>9. CASE JobFail(v)
    <3>1. NoJob.pc = "idle"
      BY DEF NoJob
    <3> QED BY <1>3, <1>5, <2>9, <3>1 DEF JobFail
  <2> QED BY <1>6, <2>1, <2>2, <2>3, <2>4, <2>5, <2>6, <2>7, <2>8, <2>9 DEF SlaNext, RunOn
<1>7. ASSUME NEW r \in Requests, Arrive(r) \/ GoOn(r) PROVE UNCHANGED job
  BY <1>7 DEF Arrive, GoOn, slaVars
<1>8. CASE ClockTick \/ UNCHANGED vars
  BY <1>2, <1>8 DEF ClockTick, vars, slaVars
<1> QED BY <1>2, <1>6, <1>7, <1>8 DEF Next

\* Warnings are sent by the job that has set the flag.
LEMMA OnlySent ==
    ASSUME [Next]_vars
    PROVE  warnings' = warnings \/ \E w \in Workers : SendWarning(w)
<1>1. ASSUME NEW w \in Workers, SlaNext(w) PROVE warnings' = warnings \/ SendWarning(w)
  BY <1>1 DEF SlaNext, RunOn, StartWarnings, StartEscalations, FlagWarning, EscalateRead, EscalateWrite,
              EscalateAudit, RaiseLevel, JobFail
<1>2. ASSUME NEW r \in Requests, Arrive(r) \/ GoOn(r) PROVE warnings' = warnings
  BY <1>2 DEF Arrive, GoOn, slaVars
<1>3. CASE ClockTick \/ UNCHANGED vars
  BY <1>3 DEF ClockTick, vars, slaVars
<1> QED BY <1>1, <1>2, <1>3 DEF Next

\* A late ticket stays late, and what was flagged stays flagged.
LEMMA StaysLate ==
    ASSUME Typed, [Next]_vars, NEW t \in Existing
    PROVE  /\ Late(ticket[t], now) => Late(ticket'[t], now')
           /\ ticket[t].warned => ticket'[t].warned
<1>1. RowLasts(t)
  BY RowsLast
<1>2. ticket[t] \in TicketRow /\ now \in Nat /\ now' \in Nat /\ now <= now'
  BY ClockLasts DEF Existing, Typed, TypeOK
<1>3. ticket'[t] \in TicketRow /\ ticket'[t].due = ticket[t].due /\ ticket'[t].created = ticket[t].created
  BY <1>1 DEF RowLasts
<1>4. Late(ticket[t], now) => Late(ticket'[t], now')
  BY <1>2, <1>3, LateLasts
<1> QED BY <1>1, <1>4 DEF RowLasts

\* What flagging a ticket does.
LEMMA FlaggingFacts ==
    ASSUME Typed, WarningsInOrder, NEW w \in Workers, NEW t \in TicketIds, Flagging(w, t)
    PROVE  /\ t \in Existing /\ Late(ticket[t], now)
           /\ ticket'[t].warned /\ ~ticket[t].warned
           /\ warnings' = warnings
           /\ \A v \in Workers : v # w => job'[v] = job[v]
<1>1. job[w].pc = "warn" /\ t \in job[w].todo
  BY DEF Flagging, FlagWarning
<1>2. t \in Existing
  BY <1>1 DEF Typed, InHand, JobOK
<1>3. Late(ticket[t], now)
  BY <1>1 DEF WarningsInOrder, Warns
<1>4. ticket \in [TicketIds -> TicketRow \cup {NoTicket}] /\ ticket[t] \in TicketRow
  BY <1>2 DEF Typed, TypeOK, Existing
<1>5. ticket' = [ticket EXCEPT ![t].warned = TRUE]
  BY DEF Flagging, FlagWarning
<1>6. ticket'[t].warned
  BY <1>4, <1>5 DEF TicketRow
<1>7. job \in [Workers -> Job]
  BY DEF Typed, TypeOK
<1>8. \E k : Carry(w, k)
  BY DEF Flagging, FlagWarning
<1>9. \A v \in Workers : v # w => job'[v] = job[v]
  BY <1>7, <1>8 DEF Carry
<1>10. warnings' = warnings /\ ~ticket[t].warned
  BY DEF Flagging, FlagWarning
<1> QED BY <1>2, <1>3, <1>6, <1>9, <1>10

\* Only late tickets are flagged.
LEMMA FlagsNext ==
    ASSUME Typed, WarningsInOrder, [Next]_vars, NEW t \in TicketIds, t \in Existing', ticket'[t].warned
    PROVE  Late(ticket'[t], now')
<1>1. CASE t \in Existing
  <2>1. ticket[t].warned \/ FlaggedNow(t)
    BY <1>1, RowsLast DEF RowLasts
  <2>2. CASE ticket[t].warned
    BY <1>1, <2>2, StaysLate DEF WarningsInOrder
  <2>3. CASE FlaggedNow(t)
    <3>1. PICK w \in Workers : job[w].pc = "warn" /\ t \in job[w].todo
      BY <2>3 DEF FlaggedNow, FlagWarning
    <3>2. Late(ticket[t], now)
      BY <3>1 DEF WarningsInOrder, Warns
    <3> QED BY <1>1, <3>2, StaysLate
  <2> QED BY <2>1, <2>2, <2>3
<1>2. CASE t \notin Existing
  <2>1. Created(t)
    BY <1>2, Cases
  <2>2. ~ticket'[t].warned
    BY <2>1 DEF Created
  <2> QED BY <2>2
<1> QED BY <1>1, <1>2

\* A run keeps only late tickets in hand.
LEMMA WarnsNext ==
    ASSUME Typed, WarningsInOrder, [Next]_vars, NEW w \in Workers
    PROVE  Warns(job'[w], ticket', now')
<1> DEFINE i == job[w]
           j == job'[w]
<1>1. /\ WarnChange(w) /\ Warns(i, ticket, now) /\ now \in Nat
      /\ i.todo \subseteq Existing /\ (i.pc = "flagged" => i.id \in Existing)
      /\ \A t \in Existing : ticket[t] \in TicketRow
  BY WarnChanges DEF WarningsInOrder, Typed, TypeOK, InHand, JobOK, Existing
<1>2. \A t \in Existing : /\ Late(ticket[t], now) => Late(ticket'[t], now')
                          /\ ticket[t].warned => ticket'[t].warned
  BY StaysLate
<1>f. ASSUME NEW t \in TicketIds, Flagging(w, t)
      PROVE  i.pc = "warn" /\ ticket'[t].warned
  BY <1>f, FlaggingFacts DEF Flagging, FlagWarning
<1>d. \A t \in Existing : WarningDue(ticket[t]) => Late(ticket[t], now)
  BY <1>1, DueIsLate
<1>3. WarnChange(w) = (\/ j.pc \notin {"warn", "flagged"}
                       \/ j = i
                       \/ j.pc = "warn" /\ i.pc \in {"warn", "flagged"} /\ j.todo \subseteq i.todo
                       \/ /\ j.pc = "warn" /\ UNCHANGED <<ticket, now>>
                          /\ \A t \in j.todo : t \in Existing /\ WarningDue(ticket[t])
                       \/ \E t \in TicketIds :
                            Flagging(w, t) /\ j.pc = "flagged" /\ j.id = t /\ j.todo = i.todo \ {t})
  BY DEF WarnChange
<1> HIDE DEF i, j
<1>4. CASE j.pc \notin {"warn", "flagged"}
  BY <1>4 DEF Warns, j
<1>5. CASE j = i
  <2>1. Warns(j, ticket', now')
    BY <1>1, <1>2, <1>5 DEF Warns
  <2> QED BY <2>1 DEF j
<1>6. CASE j.pc = "warn" /\ i.pc \in {"warn", "flagged"} /\ j.todo \subseteq i.todo
  <2>1. Warns(j, ticket', now')
    BY <1>1, <1>2, <1>6 DEF Warns
  <2> QED BY <2>1 DEF j
<1>7. CASE /\ j.pc = "warn" /\ UNCHANGED <<ticket, now>>
           /\ \A t \in j.todo : t \in Existing /\ WarningDue(ticket[t])
  <2>1. Warns(j, ticket', now')
    BY <1>d, <1>7 DEF Warns
  <2> QED BY <2>1 DEF j
<1>8. ASSUME NEW t \in TicketIds, Flagging(w, t), j.pc = "flagged", j.id = t, j.todo = i.todo \ {t}
      PROVE  Warns(job'[w], ticket', now')
  <2>1. Warns(j, ticket', now')
    BY <1>1, <1>2, <1>f, <1>8 DEF Warns
  <2> QED BY <2>1 DEF j
<1> QED BY <1>1, <1>3, <1>4, <1>5, <1>6, <1>7, <1>8

\* A run with a flag set either had set it before or sets it now.
LEMMA FlagHolders ==
    ASSUME Typed, WarningsInOrder, [Next]_vars, NEW w \in Workers, job'[w].pc = "flagged"
    PROVE  \/ job'[w] = job[w]
           \/ \E t \in TicketIds : Flagging(w, t) /\ job'[w].id = t
BY WarnChanges DEF WarnChange

\* Nobody else has flagged the ticket, and nobody has warned about it yet.
LEMMA HoldersNext ==
    ASSUME Typed, WarningsInOrder, [Next]_vars
    PROVE  /\ \A t \in TicketIds :
                /\ warnings'[t] <= 1
                /\ warnings'[t] = 1 => t \in Existing' /\ ticket'[t].warned
           /\ \A w \in Workers : job'[w].pc = "flagged" => warnings'[job'[w].id] = 0
           /\ \A w, v \in Workers :
                job'[w].pc = "flagged" /\ job'[v].pc = "flagged" /\ job'[w].id = job'[v].id => w = v
<1>1. warnings \in [TicketIds -> Nat] /\ job \in [Workers -> Job]
  BY DEF Typed, TypeOK
<1>2. \A w \in Workers : job[w].pc = "flagged" => job[w].id \in Existing /\ ticket[job[w].id].warned
                                                  /\ warnings[job[w].id] = 0
  BY DEF WarningsInOrder, Warns, Typed, InHand, JobOK
<1>3. \A t \in Existing : t \in Existing' /\ (ticket[t].warned => ticket'[t].warned)
  BY StaysLate, RowsLast DEF RowLasts
<1>4. CASE warnings' = warnings
  <2>1. \A t \in TicketIds : /\ warnings'[t] <= 1
                             /\ warnings'[t] = 1 => t \in Existing' /\ ticket'[t].warned
    BY <1>3, <1>4 DEF WarningsInOrder
  <2>2. ASSUME NEW w \in Workers, job'[w].pc = "flagged" PROVE warnings'[job'[w].id] = 0
    <3>1. CASE job'[w] = job[w]
      BY <1>2, <1>4, <2>2, <3>1
    <3>2. ASSUME NEW t \in TicketIds, Flagging(w, t), job'[w].id = t PROVE warnings[t] = 0
      <4>1. ~ticket[t].warned
        BY <3>2 DEF Flagging
      <4>2. warnings[t] # 1 /\ warnings[t] <= 1 /\ warnings[t] \in Nat
        BY <1>1, <4>1 DEF WarningsInOrder
      <4> QED BY <4>2
    <3> QED BY <1>4, <2>2, <3>1, <3>2, FlagHolders
  <2>3. ASSUME NEW w \in Workers, NEW v \in Workers, NEW t \in TicketIds, Flagging(w, t), w # v
        PROVE  job'[v].pc = "flagged" => job'[v].id # t
    <3>1. job'[v] = job[v] /\ ~ticket[t].warned
      BY <2>3, FlaggingFacts
    <3> QED BY <1>2, <3>1
  <2>4. ASSUME NEW w \in Workers, NEW v \in Workers, w # v,
               job'[w].pc = "flagged", job'[v].pc = "flagged", job'[w].id = job'[v].id
        PROVE  FALSE
    <3>1. job'[w] = job[w] /\ job'[v] = job[v]
      BY <2>3, <2>4, FlagHolders
    <3> QED BY <2>4, <3>1 DEF WarningsInOrder
  <2> QED BY <2>1, <2>2, <2>4
<1>5. ASSUME NEW w \in Workers, SendWarning(w)
      PROVE  /\ \A t \in TicketIds :
                /\ warnings'[t] <= 1
                /\ warnings'[t] = 1 => t \in Existing' /\ ticket'[t].warned
             /\ \A v \in Workers : job'[v].pc = "flagged" => warnings'[job'[v].id] = 0
             /\ \A u, v \in Workers :
                  job'[u].pc = "flagged" /\ job'[v].pc = "flagged" /\ job'[u].id = job'[v].id => u = v
  <2> DEFINE s == job[w].id
  <2>1. job[w].pc = "flagged" /\ s \in Existing /\ s \in TicketIds /\ warnings[s] = 0 /\ ticket[s].warned
    BY <1>2, <1>5 DEF SendWarning, Existing
  <2>2. ticket' = ticket /\ warnings' = [warnings EXCEPT ![s] = @ + 1]
    BY <1>5 DEF SendWarning, deskVars
  <2>3. warnings'[s] = 1 /\ \A t \in TicketIds : t # s => warnings'[t] = warnings[t]
    BY <1>1, <2>1, <2>2
  <2> DEFINE k == IF job[w].todo = {} THEN NoJob ELSE [NoJob EXCEPT !.pc = "warn", !.todo = job[w].todo]
  <2>4. job' = [job EXCEPT ![w] = k]
    BY <1>5 DEF SendWarning, LoopOn, Carry
  <2>5. k.pc # "flagged"
    BY DEF NoJob
  <2> HIDE DEF s, k
  <2>6. job'[w].pc # "flagged" /\ \A v \in Workers : v # w => job'[v] = job[v]
    BY <1>1, <2>4, <2>5
  <2>7. \A t \in TicketIds :
          /\ warnings'[t] <= 1
          /\ warnings'[t] = 1 => t \in Existing' /\ ticket'[t].warned
    <3> SUFFICES ASSUME NEW t \in TicketIds
                 PROVE  /\ warnings'[t] <= 1
                        /\ warnings'[t] = 1 => t \in Existing' /\ ticket'[t].warned
      OBVIOUS
    <3>1. CASE t = s
      BY <1>3, <2>1, <2>3, <3>1
    <3>2. CASE t # s
      BY <1>3, <2>3, <3>2 DEF WarningsInOrder
    <3> QED BY <3>1, <3>2
  <2>8. ASSUME NEW v \in Workers, job'[v].pc = "flagged" PROVE warnings'[job'[v].id] = 0
    <3>1. v # w /\ job'[v] = job[v] /\ job[v].pc = "flagged"
      BY <2>6, <2>8
    <3>2. job[v].id # s
      BY <2>1, <3>1 DEF WarningsInOrder, s
    <3>3. job[v].id \in TicketIds /\ warnings[job[v].id] = 0
      BY <1>2, <3>1 DEF Existing
    <3> QED BY <2>3, <3>1, <3>2, <3>3
  <2>9. ASSUME NEW u \in Workers, NEW v \in Workers,
               job'[u].pc = "flagged", job'[v].pc = "flagged", job'[u].id = job'[v].id
        PROVE  u = v
    <3>1. job'[u] = job[u] /\ job'[v] = job[v]
      BY <2>6, <2>9
    <3> QED BY <2>9, <3>1 DEF WarningsInOrder
  <2> QED BY <2>7, <2>8, <2>9
<1> QED BY <1>4, <1>5, OnlySent

LEMMA WarningsNext == Typed /\ WarningsInOrder /\ [Next]_vars => WarningsInOrder'
<1> SUFFICES ASSUME Typed, WarningsInOrder, [Next]_vars PROVE WarningsInOrder'
  OBVIOUS
<1>1. \A t \in TicketIds : t \in Existing' /\ ticket'[t].warned => Late(ticket'[t], now')
  BY FlagsNext
<1>2. \A t \in Existing' : ticket'[t].warned => Late(ticket'[t], now')
  BY <1>1 DEF Existing
<1>3. \A w \in Workers : Warns(job'[w], ticket', now')
  BY WarnsNext
<1> QED BY <1>2, <1>3, HoldersNext DEF WarningsInOrder

LEMMA InitWarnings == Init => WarningsInOrder
<1> SUFFICES ASSUME Init PROVE WarningsInOrder
  OBVIOUS
<1>1. Existing = {}
  BY DEF Init, DeskInit, Existing
<1>2. \A w \in Workers : job[w].pc = "idle"
  BY DEF Init, SlaInit, NoJob
<1>3. \A t \in TicketIds : warnings[t] = 0
  BY DEF Init, SlaInit
<1> QED BY <1>1, <1>2, <1>3 DEF WarningsInOrder, Warns

\* However the runs of the warning job overlap with each other and with the
\* handlers, a ticket is warned about at most once and never too early.
THEOREM WarningsCorrect == Spec => []WarnedOnceAndLate
<1>1. Typed /\ WarningsInOrder => WarnedOnceAndLate
  BY DEF WarningsInOrder, WarnedOnceAndLate, Late, Existing
<1>2. Typed /\ WarningsInOrder /\ [Next]_vars => Typed'
  BY NextTyped
<1>3. Spec => [](Typed /\ WarningsInOrder)
  BY <1>2, InitTyped, InitWarnings, WarningsNext, PTL DEF Spec
<1> QED BY <1>1, <1>3, PTL

-----------------------------------------------------------------------------
(* Records that a cut-off costs.                                           *)

\* The handlers and job runs that still owe ticket t a row of the audit trail,
\* and the job runs that still owe it a step of the level.
Auditing(t) == {r \in Requests : req[r].pc = "audit" /\ req[r].id = t}
SweepAuditing(t) == {w \in Workers : job[w].pc = "audit" /\ job[w].id = t}
SweepRaising(t) == {w \in Workers : job[w].pc \in {"audit", "level"} /\ job[w].id = t}

\* At any time finitely many of them do, whatever the number of slots.
Counted(t) ==
    /\ IsFiniteSet(Auditing(t)) /\ IsFiniteSet(SweepAuditing(t)) /\ IsFiniteSet(SweepRaising(t))
    /\ unaudited[t] - Cardinality(Auditing(t)) - Cardinality(SweepAuditing(t)) \in 0..faults
    /\ levelLag[t] - Cardinality(SweepRaising(t)) \in 0..faults

One(b) == IF b THEN 1 ELSE 0

\* Two sets that differ in one element at most.
LEMMA OneElement ==
    ASSUME NEW A, NEW B, NEW x, IsFiniteSet(A), B \ {x} = A \ {x}
    PROVE  /\ IsFiniteSet(B) /\ Cardinality(A) \in Nat /\ Cardinality(B) \in Nat
           /\ Cardinality(B) = Cardinality(A) + One(x \in B) - One(x \in A)
<1> DEFINE C == A \ {x}
<1>1. IsFiniteSet(C) /\ Cardinality(C) = IF x \in A THEN Cardinality(A) - 1 ELSE Cardinality(A)
  BY FS_RemoveElement
<1>2. Cardinality(A) \in Nat /\ Cardinality(C) \in Nat
  BY <1>1, FS_CardinalityType
<1>3. x \notin C
  OBVIOUS
<1>4. x \in B => B = C \cup {x}
  OBVIOUS
<1>5. x \notin B => B = C
  OBVIOUS
<1> HIDE DEF C
<1>6. x \in B => IsFiniteSet(B) /\ Cardinality(B) = Cardinality(C) + 1
  BY <1>1, <1>3, <1>4, FS_AddElement
<1>7. x \notin B => IsFiniteSet(B) /\ Cardinality(B) = Cardinality(C)
  BY <1>1, <1>5
<1> QED BY <1>1, <1>2, <1>6, <1>7 DEF One

\* What a handler that goes on with h owes.
LEMMA HandCount ==
    ASSUME Typed, NEW r \in Requests, NEW h, Continue(r, h), NEW t, IsFiniteSet(Auditing(t))
    PROVE  /\ IsFiniteSet(Auditing(t)')
           /\ Cardinality(Auditing(t)) \in Nat /\ Cardinality(Auditing(t)') \in Nat
           /\ Cardinality(Auditing(t)') = Cardinality(Auditing(t))
                + One(h.pc = "audit" /\ h.id = t) - One(req[r].pc = "audit" /\ req[r].id = t)
<1>1. req' = [req EXCEPT ![r] = h] /\ req \in [Requests -> Request]
  BY DEF Continue, Typed, TypeOK
<1>2. Auditing(t)' \ {r} = Auditing(t) \ {r}
  BY <1>1 DEF Auditing
<1>3. /\ (r \in Auditing(t)') = (h.pc = "audit" /\ h.id = t)
      /\ (r \in Auditing(t)) = (req[r].pc = "audit" /\ req[r].id = t)
  BY <1>1 DEF Auditing
<1> QED BY <1>2, <1>3, OneElement DEF One

\* What a job run that goes on with k owes.
LEMMA JobCount ==
    ASSUME Typed, NEW w \in Workers, NEW k, Carry(w, k), NEW t,
           IsFiniteSet(SweepAuditing(t)), IsFiniteSet(SweepRaising(t))
    PROVE  /\ IsFiniteSet(SweepAuditing(t)') /\ IsFiniteSet(SweepRaising(t)')
           /\ Cardinality(SweepAuditing(t)) \in Nat /\ Cardinality(SweepRaising(t)) \in Nat
           /\ Cardinality(SweepAuditing(t)') = Cardinality(SweepAuditing(t))
                + One(k.pc = "audit" /\ k.id = t) - One(job[w].pc = "audit" /\ job[w].id = t)
           /\ Cardinality(SweepRaising(t)') = Cardinality(SweepRaising(t))
                + One(k.pc \in {"audit", "level"} /\ k.id = t)
                - One(job[w].pc \in {"audit", "level"} /\ job[w].id = t)
<1>1. job' = [job EXCEPT ![w] = k] /\ job \in [Workers -> Job]
  BY DEF Carry, Typed, TypeOK
<1>2. /\ SweepAuditing(t)' \ {w} = SweepAuditing(t) \ {w}
      /\ SweepRaising(t)' \ {w} = SweepRaising(t) \ {w}
  BY <1>1 DEF SweepAuditing, SweepRaising
<1>3. /\ (w \in SweepAuditing(t)') = (k.pc = "audit" /\ k.id = t)
      /\ (w \in SweepAuditing(t)) = (job[w].pc = "audit" /\ job[w].id = t)
  BY <1>1 DEF SweepAuditing
<1>4. /\ (w \in SweepRaising(t)') = (k.pc \in {"audit", "level"} /\ k.id = t)
      /\ (w \in SweepRaising(t)) = (job[w].pc \in {"audit", "level"} /\ job[w].id = t)
  BY <1>1 DEF SweepRaising
<1> QED BY <1>2, <1>3, <1>4, OneElement DEF One

-----------------------------------------------------------------------------
\* What one step of a handler does to the audit trail: a write owes a row, the
\* audit step pays it, a read changes nothing, and a failure is counted.
HandlerMove(r) ==
    \/ \E s \in TicketIds : /\ req[r].pc # "audit"
                            /\ Continue(r, AuditNext(s))
                            /\ unaudited' = [unaudited EXCEPT ![s] = @ + 1]
                            /\ faults' = faults
    \/ \E h : /\ req[r].pc # "audit" /\ h.pc # "audit"
              /\ Continue(r, h)
              /\ unaudited' = unaudited /\ faults' = faults
    \/ /\ req[r].pc = "audit" /\ req[r].id \in TicketIds
       /\ Continue(r, Idle)
       /\ unaudited' = [unaudited EXCEPT ![req[r].id] = @ - 1]
       /\ faults' = faults
    \/ Continue(r, Idle) /\ unaudited' = unaudited /\ faults' = faults + 1

LEMMA HandlerMoves ==
    ASSUME Typed, NEW r \in Requests, Arrive(r) \/ GoOn(r)
    PROVE  HandlerMove(r) /\ UNCHANGED slaVars
<1> SUFFICES HandlerMove(r)
  BY DEF Arrive, GoOn
<1>2. ASSUME NEW h, req[r].pc # "audit", h.pc # "audit", Continue(r, h), UNCHANGED <<unaudited, faults>>
      PROVE  HandlerMove(r)
  BY <1>2 DEF HandlerMove
<1>3. ASSUME NEW s \in TicketIds, req[r].pc # "audit", Continue(r, AuditNext(s)),
             unaudited' = [unaudited EXCEPT ![s] = @ + 1], faults' = faults
      PROVE  HandlerMove(r)
  BY <1>3 DEF HandlerMove
<1>4. Idle.pc = "idle"
  BY DEF Idle
<1>5. ASSUME NEW pc, NEW u, NEW t, NEW to, NEW a, NEW seen
      PROVE  /\ [Idle EXCEPT !.pc = pc, !.actor = u, !.id = t, !.to = to].pc = pc
             /\ [Idle EXCEPT !.pc = pc, !.actor = u, !.id = t].pc = pc
             /\ [Idle EXCEPT !.pc = pc, !.actor = u, !.id = t, !.assignee = a].pc = pc
             /\ [Idle EXCEPT !.pc = pc, !.actor = u, !.id = t, !.assignee = a, !.seen = seen].pc = pc
  BY DEF Idle
<1>6. req[r] \in Request /\ (req[r].pc # "idle" => req[r].id \in TicketIds)
  BY DEF Typed, TypeOK, InHand, HandOK, Existing
<1>7. CASE Arrive(r)
  <2>1. PICK u \in Users, t \in TicketIds :
           \/ \E a \in Users \cup {Nobody}, due \in {now + h : h \in SlaTargets} \cup {NoTime} :
                 Create(r, u, t, a, due)
           \/ \E to \in Status : RequestTransition(r, u, t, to)
           \/ RequestResolve(r, u, t)
           \/ \E a \in Users : RequestAssign(r, u, t, a)
           \/ RequestComment(r, u, t)
           \/ \E a \in Users \cup {Nobody} : RequestUpdate(r, u, t, a)
    BY <1>7 DEF Arrive, Start
  <2>2. ASSUME NEW a, NEW due, Create(r, u, t, a, due) PROVE HandlerMove(r)
    BY <1>3, <2>2 DEF Create, CanStart
  <2>3. ASSUME NEW to, RequestTransition(r, u, t, to) PROVE HandlerMove(r)
    <3> DEFINE h == [Idle EXCEPT !.pc = "transition", !.actor = u, !.id = t, !.to = to]
    <3>1. h.pc = "transition"
      BY <1>5
    <3>2. Continue(r, h)
      BY <2>3 DEF RequestTransition
    <3> HIDE DEF h
    <3> QED BY <1>2, <2>3, <3>1, <3>2 DEF RequestTransition, CanStart
  <2>4. CASE RequestResolve(r, u, t)
    <3> DEFINE h == [Idle EXCEPT !.pc = "transition", !.actor = u, !.id = t, !.to = "RESOLVED"]
    <3>1. h.pc = "transition"
      BY <1>5
    <3>2. Continue(r, h)
      BY <2>4 DEF RequestResolve
    <3> HIDE DEF h
    <3> QED BY <1>2, <2>4, <3>1, <3>2 DEF RequestResolve, CanStart
  <2>5. ASSUME NEW a, RequestAssign(r, u, t, a) PROVE HandlerMove(r)
    <3> DEFINE h == [Idle EXCEPT !.pc = "assign", !.actor = u, !.id = t, !.assignee = a,
                                !.seen = [NothingSeen EXCEPT !.status = ticket[t].status]]
    <3>1. h.pc = "assign"
      BY <1>5
    <3>2. Continue(r, h)
      BY <2>5 DEF RequestAssign
    <3> HIDE DEF h
    <3> QED BY <1>2, <2>5, <3>1, <3>2 DEF RequestAssign, CanStart
  <2>6. CASE RequestComment(r, u, t)
    <3> DEFINE h == [Idle EXCEPT !.pc = "comment", !.actor = u, !.id = t]
    <3>1. h.pc = "comment"
      BY <1>5
    <3>2. Continue(r, h)
      BY <2>6 DEF RequestComment
    <3> HIDE DEF h
    <3> QED BY <1>2, <2>6, <3>1, <3>2 DEF RequestComment, CanStart
  <2>7. ASSUME NEW a, RequestUpdate(r, u, t, a) PROVE HandlerMove(r)
    <3> DEFINE h == [Idle EXCEPT !.pc = "update", !.actor = u, !.id = t, !.assignee = a]
    <3>1. h.pc = "update"
      BY <1>5
    <3>2. Continue(r, h)
      BY <2>7 DEF RequestUpdate
    <3> HIDE DEF h
    <3> QED BY <1>2, <2>7, <3>1, <3>2 DEF RequestUpdate, CanStart
  <2> QED BY <2>1, <2>2, <2>3, <2>4, <2>5, <2>6, <2>7
<1>8. CASE GoOn(r)
  <2>1. CASE TransitionRead(r)
    <3> DEFINE h == [req[r] EXCEPT !.pc = "write", !.seen = View(ticket[req[r].id])]
    <3>1. h.pc = "write"
      BY <1>6 DEF Request
    <3>2. Continue(r, h) \/ Continue(r, Idle)
      BY <2>1 DEF TransitionRead
    <3> HIDE DEF h
    <3> QED BY <1>2, <1>4, <2>1, <3>1, <3>2 DEF TransitionRead
  <2>2. CASE TransitionWrite(r)
    BY <1>2, <1>3, <1>4, <1>6, <2>2 DEF TransitionWrite, WriteStatus
  <2>3. CASE AssignWrite(r)
    BY <1>3, <1>6, <2>3 DEF AssignWrite
  <2>4. CASE CommentWrite(r)
    BY <1>2, <1>4, <2>4 DEF CommentWrite
  <2>5. CASE UpdateWrite(r)
    BY <1>3, <1>6, <2>5 DEF UpdateWrite
  <2>6. CASE Audit(r)
    BY <1>6, <2>6 DEF Audit, WriteAudit, HandlerMove
  <2>7. CASE Fail(r)
    BY <2>7 DEF Fail, HandlerMove
  <2> QED BY <1>8, <2>1, <2>2, <2>3, <2>4, <2>5, <2>6, <2>7 DEF GoOn, Proceed
<1> QED BY <1>7, <1>8

\* What one step of a job run does to the audit trail and the level.
JobMove(w) ==
    LET j == job[w] IN
    \/ \E k : /\ j.pc \notin {"audit", "level"} /\ k.pc \notin {"audit", "level"}
              /\ Carry(w, k) /\ UNCHANGED <<unaudited, levelLag, faults>>
    \/ \E s \in TicketIds, k \in Job :
              /\ j.pc \notin {"audit", "level"} /\ k.pc = "audit" /\ k.id = s
              /\ Carry(w, k)
              /\ unaudited' = [unaudited EXCEPT ![s] = @ + 1]
              /\ levelLag' = [levelLag EXCEPT ![s] = @ + 1]
              /\ faults' = faults
    \/ \E k : /\ j.pc = "audit" /\ j.id \in TicketIds /\ k.pc = "level" /\ k.id = j.id
              /\ Carry(w, k)
              /\ unaudited' = [unaudited EXCEPT ![j.id] = @ - 1]
              /\ UNCHANGED <<levelLag, faults>>
    \/ \E k : /\ j.pc = "level" /\ j.id \in TicketIds /\ k.pc \notin {"audit", "level"}
              /\ Carry(w, k)
              /\ levelLag' = [levelLag EXCEPT ![j.id] = @ - 1]
              /\ UNCHANGED <<unaudited, faults>>
    \/ \E k : /\ k.pc \notin {"audit", "level"}
              /\ Carry(w, k) /\ UNCHANGED <<unaudited, levelLag>>
              /\ faults' = faults + 1

LEMMA JobMoves ==
    ASSUME Typed, NEW w \in Workers, SlaNext(w)
    PROVE  JobMove(w) /\ UNCHANGED req
<1> SUFFICES JobMove(w)
  BY DEF SlaNext, RunOn, StartWarnings, StartEscalations, FlagWarning, SendWarning,
         EscalateRead, EscalateWrite, EscalateAudit, RaiseLevel, JobFail, deskVars
<1>1. job[w] \in Job
      /\ (job[w].pc \in {"flagged", "write", "audit", "level"} => job[w].id \in TicketIds)
  BY DEF Typed, TypeOK, InHand, JobOK, Existing
<1>2. ASSUME NEW k, job[w].pc \notin {"audit", "level"}, k.pc \notin {"audit", "level"}, Carry(w, k),
             UNCHANGED <<unaudited, levelLag, faults>>
      PROVE  JobMove(w)
  BY <1>2 DEF JobMove
<1>3. ASSUME NEW pc, NEW todo, LoopOn(w, pc, todo), pc \notin {"audit", "level"}
      PROVE  \E k : k.pc \notin {"audit", "level"} /\ Carry(w, k)
  <2> DEFINE k == IF todo = {} THEN NoJob ELSE [NoJob EXCEPT !.pc = pc, !.todo = todo]
  <2>1. k.pc \notin {"audit", "level"}
    BY <1>3 DEF NoJob
  <2>2. Carry(w, k)
    BY <1>3 DEF LoopOn
  <2> HIDE DEF k
  <2> QED BY <2>1, <2>2
<1>4. ASSUME NEW pc, NEW todo, LoopOn(w, pc, todo), pc \notin {"audit", "level"},
             job[w].pc \notin {"audit", "level"}, UNCHANGED <<unaudited, levelLag, faults>>
      PROVE  JobMove(w)
  <2>1. PICK k : k.pc \notin {"audit", "level"} /\ Carry(w, k)
    BY <1>3, <1>4
  <2> QED BY <1>2, <1>4, <2>1
<1>5. CASE StartWarnings(w)
  BY <1>4, <1>5 DEF StartWarnings, JobCanStart, deskVars
<1>6. CASE StartEscalations(w)
  BY <1>4, <1>6 DEF StartEscalations, JobCanStart, deskVars
<1>7. ASSUME NEW t \in TicketIds, FlagWarning(w, t) PROVE JobMove(w)
  <2> DEFINE k == [NoJob EXCEPT !.pc = "flagged", !.todo = job[w].todo \ {t}, !.id = t]
  <2>1. k.pc = "flagged"
    BY DEF NoJob
  <2>2. Carry(w, k) \/ LoopOn(w, "warn", job[w].todo \ {t})
    BY <1>7 DEF FlagWarning
  <2>3. job[w].pc = "warn" /\ UNCHANGED <<unaudited, levelLag, faults>>
    BY <1>7 DEF FlagWarning
  <2> HIDE DEF k
  <2> QED BY <1>2, <1>4, <2>1, <2>2, <2>3
<1>8. CASE SendWarning(w)
  BY <1>4, <1>8 DEF SendWarning, deskVars
<1>9. ASSUME NEW t \in TicketIds, EscalateRead(w, t) PROVE JobMove(w)
  <2> DEFINE k == [pc |-> "write", todo |-> job[w].todo \ {t}, id |-> t, seen |-> View(ticket[t])]
  <2>1. k.pc = "write"
    OBVIOUS
  <2>2. Carry(w, k) \/ LoopOn(w, "sweep", job[w].todo \ {t})
    BY <1>9 DEF EscalateRead
  <2>3. job[w].pc = "sweep" /\ UNCHANGED <<unaudited, levelLag, faults>>
    BY <1>9 DEF EscalateRead, deskVars
  <2> HIDE DEF k
  <2> QED BY <1>2, <1>4, <2>1, <2>2, <2>3
<1>10. CASE EscalateWrite(w)
  <2>1. CASE Accepted(job[w].id, job[w].seen, "ESCALATED")
    <3> DEFINE k == [job[w] EXCEPT !.pc = "audit", !.seen = NothingSeen]
    <3>1. k.pc = "audit" /\ k.id = job[w].id /\ k \in Job
      BY <1>1, HandFacts DEF Job, JobPC
    <3>2. /\ Carry(w, k) /\ faults' = faults /\ job[w].pc = "write"
          /\ unaudited' = [unaudited EXCEPT ![job[w].id] = @ + 1]
          /\ levelLag' = [levelLag EXCEPT ![job[w].id] = @ + 1]
      BY <1>10, <2>1 DEF EscalateWrite, WriteStatus
    <3> HIDE DEF k
    <3> QED BY <1>1, <3>1, <3>2 DEF JobMove
  <2>2. CASE ~Accepted(job[w].id, job[w].seen, "ESCALATED")
    BY <1>4, <1>10, <2>2 DEF EscalateWrite
  <2> QED BY <2>1, <2>2
<1>11. CASE EscalateAudit(w)
  <2> DEFINE k == [job[w] EXCEPT !.pc = "level"]
  <2>1. k.pc = "level" /\ k.id = job[w].id
    BY <1>1 DEF Job
  <2>2. /\ Carry(w, k) /\ job[w].pc = "audit" /\ UNCHANGED <<levelLag, faults>>
        /\ unaudited' = [unaudited EXCEPT ![job[w].id] = @ - 1]
    BY <1>11 DEF EscalateAudit, WriteAudit
  <2> HIDE DEF k
  <2> QED BY <1>1, <2>1, <2>2 DEF JobMove
<1>12. CASE RaiseLevel(w)
  <2>1. PICK k : k.pc \notin {"audit", "level"} /\ Carry(w, k)
    BY <1>3, <1>12 DEF RaiseLevel
  <2> QED BY <1>1, <1>12, <2>1 DEF RaiseLevel, deskVars, JobMove
<1>13. CASE JobFail(w)
  <2>1. NoJob.pc \notin {"audit", "level"}
    BY DEF NoJob
  <2>2. PICK k : k.pc \notin {"audit", "level"} /\ Carry(w, k)
    <3>1. ASSUME NEW todo, LoopOn(w, "sweep", todo)
          PROVE  \E k : k.pc \notin {"audit", "level"} /\ Carry(w, k)
      BY <1>3, <3>1
    <3> QED BY <1>13, <2>1, <3>1 DEF JobFail
  <2> QED BY <1>13, <2>2 DEF JobFail, JobMove
<1> QED BY <1>5, <1>6, <1>7, <1>8, <1>9, <1>10, <1>11, <1>12, <1>13 DEF SlaNext, RunOn

-----------------------------------------------------------------------------
\* A handler keeps the count.
LEMMA HandlerCounted ==
    ASSUME Typed, NEW r \in Requests, HandlerMove(r), UNCHANGED slaVars,
           NEW t \in TicketIds, Counted(t)
    PROVE  Counted(t)'
<1> DEFINE a == Cardinality(Auditing(t))
           b == Cardinality(Auditing(t)')
           c == Cardinality(SweepAuditing(t))
           d == Cardinality(SweepRaising(t))
<1>1. /\ SweepAuditing(t)' = SweepAuditing(t) /\ SweepRaising(t)' = SweepRaising(t)
      /\ levelLag' = levelLag
  BY DEF slaVars, SweepAuditing, SweepRaising
<1>2. /\ unaudited \in [TicketIds -> Int] /\ levelLag \in [TicketIds -> Int] /\ faults \in Nat
      /\ IsFiniteSet(Auditing(t)) /\ IsFiniteSet(SweepAuditing(t)) /\ IsFiniteSet(SweepRaising(t))
      /\ unaudited[t] - a - c \in 0..faults
      /\ levelLag[t] - d \in 0..faults
  BY DEF Typed, TypeOK, Counted
<1>3. a \in Nat /\ c \in Nat /\ d \in Nat
  BY <1>2, FS_CardinalityType
<1>4. ASSUME IsFiniteSet(Auditing(t)'), b \in Nat, faults' \in Nat, faults <= faults',
             unaudited'[t] - b - c \in 0..faults'
      PROVE  Counted(t)'
  <2>1. levelLag[t] - d \in 0..faults'
    BY <1>2, <1>3, <1>4
  <2> QED BY <1>1, <1>2, <1>4, <2>1 DEF Counted
<1>5. ASSUME NEW h, Continue(r, h)
      PROVE  /\ IsFiniteSet(Auditing(t)') /\ b \in Nat
             /\ b = a + One(h.pc = "audit" /\ h.id = t) - One(req[r].pc = "audit" /\ req[r].id = t)
  BY <1>2, <1>5, HandCount
<1> HIDE DEF a, b, c, d
<1>6. ASSUME NEW s \in TicketIds, req[r].pc # "audit", Continue(r, AuditNext(s)),
             unaudited' = [unaudited EXCEPT ![s] = @ + 1], faults' = faults
      PROVE  Counted(t)'
  <2>1. AuditNext(s).pc = "audit" /\ AuditNext(s).id = s
    BY DEF AuditNext, Idle
  <2>2. b = a + (IF s = t THEN 1 ELSE 0)
    BY <1>3, <1>5, <1>6, <2>1 DEF One
  <2>3. unaudited'[t] = unaudited[t] + (IF s = t THEN 1 ELSE 0)
    BY <1>2, <1>6
  <2>4. unaudited'[t] - b - c = unaudited[t] - a - c
    BY <1>2, <1>3, <2>2, <2>3
  <2> QED BY <1>2, <1>4, <1>5, <1>6, <2>4
<1>7. ASSUME NEW h, req[r].pc # "audit", h.pc # "audit", Continue(r, h),
             unaudited' = unaudited, faults' = faults
      PROVE  Counted(t)'
  <2>1. b = a
    BY <1>3, <1>5, <1>7 DEF One
  <2> QED BY <1>2, <1>4, <1>5, <1>7, <2>1
<1>8. CASE /\ req[r].pc = "audit" /\ req[r].id \in TicketIds
           /\ Continue(r, Idle)
           /\ unaudited' = [unaudited EXCEPT ![req[r].id] = @ - 1]
           /\ faults' = faults
  <2>1. Idle.pc # "audit"
    BY DEF Idle
  <2>2. b = a - (IF req[r].id = t THEN 1 ELSE 0)
    BY <1>3, <1>5, <1>8, <2>1 DEF One
  <2>3. unaudited'[t] = unaudited[t] - (IF req[r].id = t THEN 1 ELSE 0)
    BY <1>2, <1>8
  <2>4. unaudited'[t] - b - c = unaudited[t] - a - c
    BY <1>2, <1>3, <2>2, <2>3
  <2> QED BY <1>2, <1>4, <1>5, <1>8, <2>4
<1>9. CASE Continue(r, Idle) /\ unaudited' = unaudited /\ faults' = faults + 1
  <2>1. Idle.pc # "audit"
    BY DEF Idle
  <2>2. b = a \/ b = a - 1
    BY <1>3, <1>5, <1>9, <2>1 DEF One
  <2>3. unaudited'[t] - b - c \in 0..faults'
    BY <1>2, <1>3, <1>9, <2>2
  <2>4. faults' \in Nat /\ faults <= faults'
    BY <1>2, <1>9
  <2> QED BY <1>4, <1>5, <1>9, <2>3, <2>4
<1> QED BY <1>6, <1>7, <1>8, <1>9 DEF HandlerMove

\* So does a job run.
LEMMA JobCounted ==
    ASSUME Typed, NEW w \in Workers, JobMove(w), UNCHANGED req,
           NEW t \in TicketIds, Counted(t)
    PROVE  Counted(t)'
<1> DEFINE j == job[w]
           a == Cardinality(Auditing(t))
           b == Cardinality(SweepAuditing(t))
           c == Cardinality(SweepAuditing(t)')
           d == Cardinality(SweepRaising(t))
           e == Cardinality(SweepRaising(t)')
           Audits(x) == x.pc = "audit" /\ x.id = t
           Raises(x) == x.pc \in {"audit", "level"} /\ x.id = t
<1>1. Auditing(t)' = Auditing(t)
  BY DEF Auditing
<1>2. /\ unaudited \in [TicketIds -> Int] /\ levelLag \in [TicketIds -> Int] /\ faults \in Nat
      /\ IsFiniteSet(Auditing(t)) /\ IsFiniteSet(SweepAuditing(t)) /\ IsFiniteSet(SweepRaising(t))
      /\ unaudited[t] - a - b \in 0..faults
      /\ levelLag[t] - d \in 0..faults
  BY DEF Typed, TypeOK, Counted
<1>3. a \in Nat /\ b \in Nat /\ d \in Nat
  BY <1>2, FS_CardinalityType
<1>4. ASSUME NEW k, Carry(w, k), unaudited'[t] - a - c \in 0..faults', levelLag'[t] - e \in 0..faults'
      PROVE  Counted(t)'
  BY <1>1, <1>2, <1>4, JobCount DEF Counted
<1>5. ASSUME NEW k, Carry(w, k)
      PROVE  c = b + One(Audits(k)) - One(Audits(j)) /\ e = d + One(Raises(k)) - One(Raises(j))
  BY <1>2, <1>5, JobCount
<1>6. \A x : /\ x.pc \notin {"audit", "level"} => One(Audits(x)) = 0 /\ One(Raises(x)) = 0
             /\ x.pc = "audit" => One(Audits(x)) = One(x.id = t) /\ One(Raises(x)) = One(x.id = t)
             /\ x.pc = "level" => One(Audits(x)) = 0 /\ One(Raises(x)) = One(x.id = t)
             /\ One(Audits(x)) \in {0, 1} /\ One(Raises(x)) \in {0, 1}
  BY DEF One
<1>7. unaudited[t] \in Int /\ levelLag[t] \in Int
  BY <1>2
<1> HIDE DEF a, b, c, d, e, Audits, Raises, j
<1>8. ASSUME NEW k, j.pc \notin {"audit", "level"}, k.pc \notin {"audit", "level"},
             Carry(w, k), UNCHANGED <<unaudited, levelLag, faults>>
      PROVE  Counted(t)'
  <2>1. c = b /\ e = d
    BY <1>3, <1>5, <1>6, <1>8
  <2> QED BY <1>2, <1>4, <1>8, <2>1
<1>9. ASSUME NEW s \in TicketIds, NEW k, j.pc \notin {"audit", "level"}, k.pc = "audit", k.id = s,
             Carry(w, k), unaudited' = [unaudited EXCEPT ![s] = @ + 1],
             levelLag' = [levelLag EXCEPT ![s] = @ + 1], faults' = faults
      PROVE  Counted(t)'
  <2>1. c = b + One(s = t) /\ e = d + One(s = t)
    BY <1>3, <1>5, <1>6, <1>7, <1>9
  <2>2. unaudited'[t] = unaudited[t] + One(s = t) /\ levelLag'[t] = levelLag[t] + One(s = t)
    BY <1>2, <1>9 DEF One
  <2>3. /\ unaudited'[t] - a - c = unaudited[t] - a - b
        /\ levelLag'[t] - e = levelLag[t] - d
    BY <1>3, <1>7, <2>1, <2>2 DEF One
  <2> QED BY <1>2, <1>4, <1>9, <2>3
<1>10. ASSUME NEW k, j.pc = "audit", j.id \in TicketIds, k.pc = "level", k.id = j.id,
              Carry(w, k), unaudited' = [unaudited EXCEPT ![j.id] = @ - 1],
              UNCHANGED <<levelLag, faults>>
       PROVE  Counted(t)'
  <2>1. c = b - One(j.id = t) /\ e = d + One(j.id = t) - One(j.id = t)
    BY <1>3, <1>5, <1>6, <1>7, <1>10
  <2>2. unaudited'[t] = unaudited[t] - One(j.id = t)
    BY <1>2, <1>10 DEF One
  <2>3. unaudited'[t] - a - c = unaudited[t] - a - b /\ e = d
    BY <1>3, <1>7, <2>1, <2>2 DEF One
  <2> QED BY <1>2, <1>4, <1>10, <2>3
<1>11. ASSUME NEW k, j.pc = "level", j.id \in TicketIds, k.pc \notin {"audit", "level"},
              Carry(w, k), levelLag' = [levelLag EXCEPT ![j.id] = @ - 1],
              UNCHANGED <<unaudited, faults>>
       PROVE  Counted(t)'
  <2>1. c = b /\ e = d - One(j.id = t)
    BY <1>3, <1>5, <1>6, <1>7, <1>11
  <2>2. levelLag'[t] = levelLag[t] - One(j.id = t)
    BY <1>2, <1>11 DEF One
  <2>3. levelLag'[t] - e = levelLag[t] - d
    BY <1>3, <1>7, <2>1, <2>2 DEF One
  <2> QED BY <1>2, <1>4, <1>11, <2>1, <2>3
<1>12. ASSUME NEW k, k.pc \notin {"audit", "level"}, Carry(w, k), UNCHANGED <<unaudited, levelLag>>,
              faults' = faults + 1
       PROVE  Counted(t)'
  <2>1. c \in {b, b - 1} /\ e \in {d, d - 1}
    BY <1>3, <1>5, <1>6, <1>12
  <2>2. unaudited'[t] - a - c \in 0..faults' /\ levelLag'[t] - e \in 0..faults'
    BY <1>2, <1>3, <1>12, <2>1
  <2> QED BY <1>4, <1>12, <2>2
<1> QED BY <1>8, <1>9, <1>10, <1>11, <1>12 DEF JobMove, j

LEMMA CountedNext ==
    ASSUME Typed, [Next]_vars, NEW t \in TicketIds, Counted(t)
    PROVE  Counted(t)'
<1>1. CASE ClockTick \/ UNCHANGED vars
  <2>1. UNCHANGED <<req, job, unaudited, levelLag, faults>>
    BY <1>1 DEF ClockTick, Tick, vars, deskVars, slaVars
  <2> QED BY <2>1 DEF Counted, Auditing, SweepAuditing, SweepRaising
<1>2. ASSUME NEW r \in Requests, Arrive(r) \/ GoOn(r) PROVE Counted(t)'
  BY <1>2, HandlerMoves, HandlerCounted
<1>3. ASSUME NEW w \in Workers, SlaNext(w) PROVE Counted(t)'
  BY <1>3, JobMoves, JobCounted
<1> QED BY <1>1, <1>2, <1>3 DEF Next

LEMMA InitCounted == Init => \A t \in TicketIds : Counted(t)
<1> SUFFICES ASSUME Init, NEW t \in TicketIds PROVE Counted(t)
  OBVIOUS
<1>1. Auditing(t) = {} /\ SweepAuditing(t) = {} /\ SweepRaising(t) = {}
  BY DEF Init, DeskInit, SlaInit, Idle, NoJob, Auditing, SweepAuditing, SweepRaising
<1>2. unaudited[t] = 0 /\ levelLag[t] = 0 /\ faults = 0
  BY DEF Init, DeskInit, SlaInit
<1> QED BY <1>1, <1>2, FS_EmptySet DEF Counted

\* What is missing from the audit trail or the level of a ticket is what
\* somebody is about to add, or was cut off before adding: for any number of
\* slots, one row or step for each of the cut-offs at most.
THEOREM CutOffsCounted == Spec => []CutOffCosts
<1> DEFINE AllCounted == \A t \in TicketIds : Counted(t)
<1>1. AllCounted => CutOffCosts
  BY DEF Counted, CutOffCosts, AuditGap, LevelGap, Auditing, SweepAuditing, SweepRaising
<1>2. Typed /\ AllCounted /\ [Next]_vars => Typed' /\ AllCounted'
  <2> SUFFICES ASSUME Typed, AllCounted, [Next]_vars PROVE Typed' /\ AllCounted'
    OBVIOUS
  <2>1. TicketIds' = TicketIds
    BY DEF TicketIds
  <2>2. \A t \in TicketIds : Counted(t)'
    BY CountedNext
  <2> QED BY <2>1, <2>2, NextTyped
<1>3. Init => Typed /\ AllCounted
  BY InitTyped, InitCounted
<1> HIDE DEF AllCounted
<1> QED BY <1>1, <1>2, <1>3, PTL DEF Spec
=============================================================================
