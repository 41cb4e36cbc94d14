------------------------------ MODULE HelpDesk ------------------------------
(***************************************************************************)
(* The ticket desk as a whole: the ticket handlers and the SLA jobs over   *)
(* one ticket table and one clock, with its properties.                    *)
(***************************************************************************)
EXTENDS SlaProcessor

vars == <<deskVars, slaVars>>

Init == DeskInit /\ SlaInit

Arrive(r) ==
    /\ Serial => \A w \in Workers : job[w].pc = "idle"
    /\ Start(r)
    /\ UNCHANGED slaVars

GoOn(r) == Proceed(r) /\ UNCHANGED slaVars

ClockTick == Tick /\ UNCHANGED slaVars

Next ==
    \/ \E r \in Requests : Arrive(r) \/ GoOn(r)
    \/ \E w \in Workers : SlaNext(w)
    \/ ClockTick

Spec == Init /\ [][Next]_vars

\* The queue registers both jobs as repeatable, so each is started again and
\* again, and a run that was started goes on.  Nothing is assumed of the users.
FairSpec ==
    /\ Spec
    /\ \A w \in Workers : /\ SF_vars(StartWarnings(w))
                          /\ SF_vars(StartEscalations(w))
                          /\ WF_vars(RunOn(w))

-----------------------------------------------------------------------------
(* Invariants.                                                             *)

\* Every table row, handler and job run has its type; in particular slaPausedMs
\* stays in its 32-bit column and never turns negative.
TypeOK ==
    /\ now \in Nat
    /\ ticket \in [TicketIds -> TicketRow \cup {NoTicket}]
    /\ lastRow \in [TicketIds -> HistoryRow \cup {NoTicket}]
    /\ comments \in [TicketIds -> Nat]
    /\ unaudited \in [TicketIds -> Int]
    /\ req \in [Requests -> Request]
    /\ faults \in Nat
    /\ job \in [Workers -> Job]
    /\ warnings \in [TicketIds -> Nat]
    /\ levelLag \in [TicketIds -> Int]

\* Whatever handlers and jobs overwrite, a ticket's status is the one its last
\* history row says, and that row is a creation, an entry of the transition
\* table or a reassignment that keeps the status (lines 133-147 and 273-290
\* write both in one statement).
LegalRow(row) ==
    \/ row.from = NoStatus /\ row.to \in {"NEW", "ASSIGNED"}
    \/ row.from \in Status /\ CanTransition(row.from, row.to)
    \/ row.from \in Status /\ row.from = row.to /\ row.to # "NEW"

HistoryExplainsStatus ==
    \A t \in Existing : LegalRow(lastRow[t]) /\ lastRow[t].to = ticket[t].status

\* A CLOSED ticket has its closing date and a RESOLVED one its resolution date,
\* also after stale writes: the reopen window never meets a missing date.
DatesStamped ==
    \A t \in Existing : /\ ticket[t].status = "CLOSED" => ticket[t].closedAt # NoTime
                        /\ ticket[t].status = "RESOLVED" => ticket[t].resolved

\* Section 3.4 across both reads of a transition: an employee only ever
\* cancels, reopens or closes, only on a ticket of his own, and closes only what
\* was resolved; agents never reopen.  (Creation is open to everyone.)
RowsWithinAuthority ==
    \A t \in Existing :
        LET row == lastRow[t] IN
        row.by \in Users /\ row.from # NoStatus =>
            /\ VisibilityScope(row.by) = "own" =>
                 /\ row.by = ticket[t].requester
                 /\ row.to \in {"CANCELLED", "REOPENED", "CLOSED"}
                 /\ row.to = "CLOSED" => row.from = "RESOLVED"
            /\ VisibilityScope(row.by) = "assigned" => row.to # "REOPENED"

\* Every ticket write gets its audit row, unless its handler was cut off in between.
AuditGap ==
    \A t \in TicketIds :
        unaudited[t] - Cardinality({r \in Requests : req[r].pc = "audit" /\ req[r].id = t})
                     - Cardinality({w \in Workers : job[w].pc = "audit" /\ job[w].id = t})
            \in 0..faults

\* escalationLevel counts the system's escalations, up to those whose job run
\* is between the two writes or was cut off there.
LevelGap ==
    \A t \in TicketIds :
        levelLag[t] - Cardinality({w \in Workers : job[w].pc \in {"audit", "level"} /\ job[w].id = t})
            \in 0..faults

\* A handler or a job run that is cut off costs one row of the audit trail or one
\* step of the level at most: nothing else goes unrecorded
\* (ticket-state-machine.service.ts:149, sla.processor.ts:139).
CutOffCosts == AuditGap /\ LevelGap

\* However the two job runs interleave, a ticket is warned about once at most,
\* and never before three quarters of its resolution time are over.
WarnedOnceAndLate ==
    \A t \in TicketIds :
        /\ warnings[t] <= 1
        /\ warnings[t] = 1 => ticket[t].warned
        /\ t \in Existing /\ ticket[t].warned =>
             4 * (ticket[t].due - now) <= ticket[t].due - ticket[t].created

\* The system never escalates a ticket that has no deadline or has not passed it.
EscalatedOnlyPastDue ==
    \A t \in Existing : lastRow[t].by = System =>
        ticket[t].due # NoTime /\ ticket[t].due < now

-----------------------------------------------------------------------------
(* What a handler or a job run has in hand between two database accesses: the *)
(* strengthening that makes the invariants above inductive.                 *)

PauseStarted(row, time) == row.pausedAt # NoTime => row.pausedAt <= time

\* ids: the tickets that exist; time: the clock.
HandOK(h, ids, time) ==
    /\ h.pc # "idle" => h.id \in ids
    /\ h.pc \in {"transition", "write", "assign"} => h.actor \in Users
    /\ h.pc \in {"transition", "write"} => h.to \in Status
    /\ h.pc \in {"write", "assign"} => h.seen.status \in Status
    /\ h.pc = "write" => CanTransition(h.seen.status, h.to)
    /\ PauseStarted(h.seen, time)

JobOK(j, ids, time) ==
    /\ j.todo \subseteq ids
    /\ j.pc \in {"flagged", "write", "audit", "level"} => j.id \in ids
    /\ j.pc = "write" => j.seen.status \in Status /\ CanTransition(j.seen.status, "ESCALATED")
    /\ PauseStarted(j.seen, time)

InHand ==
    /\ \A r \in Requests : HandOK(req[r], Existing, now)
    /\ \A w \in Workers : JobOK(job[w], Existing, now)
    /\ \A t \in Existing : PauseStarted(ticket[t], now)

\* Dates a handler has seen are never taken off the row again.
Remembers(h, row) ==
    /\ h.pc = "assign" => /\ h.seen.status = "CLOSED" => row.closedAt # NoTime
                          /\ h.seen.status = "RESOLVED" => row.resolved
    /\ h.pc = "write" /\ h.seen.status = "CLOSED" =>
         h.seen.closedAt # NoTime /\ row.closedAt # NoTime /\ h.seen.closedAt <= row.closedAt

\* The role rules were checked when the request came in.
Entitled(h, row) ==
    /\ h.pc \in {"transition", "write"} =>
         /\ VisibilityScope(h.actor) = "own" =>
              h.actor = row.requester /\ h.to \in {"CANCELLED", "REOPENED", "CLOSED"}
         /\ VisibilityScope(h.actor) = "assigned" => h.to # "REOPENED"
    /\ h.pc = "assign" => VisibilityScope(h.actor) = "all"

PastDue(row, time) == row.due # NoTime /\ row.due < time

\* Deadlines do not change, so a listed ticket stays past its own.
SweepsPastDue(j, rows, time) ==
    /\ j.pc \in {"sweep", "write", "audit", "level"} => \A t \in j.todo : PastDue(rows[t], time)
    /\ j.pc = "write" => PastDue(rows[j.id], time)

InEffect ==
    /\ \A t \in Existing : ticket[t].closedAt # NoTime => ticket[t].closedAt <= now
    /\ \A r \in Requests : /\ Remembers(req[r], ticket[req[r].id])
                           /\ Entitled(req[r], ticket[req[r].id])
    /\ \A w \in Workers : SweepsPastDue(job[w], ticket, now)

-----------------------------------------------------------------------------
(* Action properties.                                                      *)

StatusWritten(t) ==
    /\ ticket[t] # NoTicket
    /\ lastRow'[t] # lastRow[t] \/ ticket'[t].status # ticket[t].status

\* A ticket that has left NEW is never NEW again, although handlers write
\* statuses they read before.
NewIsLeftForGood ==
    [][\A t \in TicketIds : ticket[t] # NoTicket /\ ticket[t].status # "NEW"
                                => ticket'[t].status # "NEW"]_vars

\* A closed ticket is reopened within REOPEN_WINDOW_DAYS of its latest closing,
\* or not at all.
ReopenedInWindow ==
    [][\A t \in TicketIds :
          StatusWritten(t) /\ lastRow'[t].from = "CLOSED" /\ lastRow'[t].to = "REOPENED"
              => ticket[t].closedAt # NoTime /\ now <= ticket[t].closedAt + ReopenWindow]_vars

\* However stale the rows the writers act on: closing dates only move forward,
\* recorded pauses only add up, and a warning given is not forgotten.
RecordsOnlyGrow ==
    [][\A t \in TicketIds : ticket[t] # NoTicket =>
          /\ ticket'[t].pausedMs >= ticket[t].pausedMs
          /\ ticket[t].closedAt # NoTime => ticket'[t].closedAt >= ticket[t].closedAt
          /\ ticket[t].warned => ticket'[t].warned]_vars

\* Ticks a ticket has spent on hold, the current pause included.
Held(row) == row.pausedMs + (IF row.pausedAt = NoTime THEN 0 ELSE now - row.pausedAt)

Workflow == INSTANCE TicketWorkflow WITH
    Tickets <- TicketIds,
    status  <- [t \in TicketIds |-> IF ticket[t] = NoTicket THEN NoStatus ELSE ticket[t].status],
    held    <- [t \in TicketIds |-> IF ticket[t] = NoTicket THEN 0 ELSE Held(ticket[t])]

\* With one handler at a time the desk implements the abstract workflow: the
\* status moves along the table only, and the held time is exact at every tick.
ImplementsWorkflow == Workflow!WfSpec

-----------------------------------------------------------------------------
(* Liveness, under FairSpec.                                               *)

\* Past its deadline, with the pauses that are over added, in a status the
\* table lets escalate.
Overdue(t) ==
    /\ t \in Existing
    /\ CanTransition(ticket[t].status, "ESCALATED")
    /\ ticket[t].due # NoTime /\ ticket[t].due < now
    /\ ticket[t].due + ticket[t].pausedMs <= now

\* No breached ticket is overlooked for ever: the sweep escalates it, or a
\* handler takes it out of the breach (resolves it, ends a pause that counts).
BreachIsHandled == \A t \in TicketIds : Overdue(t) ~> ~Overdue(t)

\* An open ticket with a quarter of its time left, not warned about.
WarningOpen(t) ==
    /\ t \in Existing
    /\ ticket[t].status \notin {"RESOLVED", "CLOSED", "CANCELLED"}
    /\ ticket[t].due # NoTime /\ ~ticket[t].warned
    /\ 4 * (ticket[t].due + ticket[t].pausedMs - now) <= ticket[t].due - ticket[t].created

\* Every such ticket is flagged as warned about, or stops being in danger.
WarningIsRecorded == \A t \in TicketIds : WarningOpen(t) ~> ~WarningOpen(t)

-----------------------------------------------------------------------------
(* Statements of the code's comments and documentation that it does not keep.*)

\* ticket-state-machine.service.ts:10 and 123: what the table allows is done,
\* and leaving ON_HOLD adds up the pause; only the reopen window refuses.
AllowedIsWritten ==
    [][\A r \in Requests :
          req[r].pc = "write" /\ req'[r].pc = "idle" /\ faults' = faults
              => ~WithinReopenWindow(req[r].seen, req[r].to)]_vars
=============================================================================
