--------------------------- MODULE TicketService ---------------------------
(***************************************************************************)
(* The ticket table and the HTTP handlers that write it                    *)
(* (tickets.service.ts over ticket-state-machine.service.ts).              *)
(*                                                                         *)
(* A handler is an async function: it runs undisturbed from one await to   *)
(* the next, and every await on the database is one atomic statement or    *)
(* transaction.  The handlers check a row they read and later write with   *)
(* "update where id = ...", which repeats none of the checks, so between   *)
(* the read and the write every other handler may run.  Each handler is    *)
(* therefore one action per database access, and req[r] holds what the     *)
(* handler in slot r carries over from one to the next.                    *)
(*                                                                         *)
(* The status-history table is represented by its most recent row per      *)
(* ticket, the audit table by the number of ticket writes that have no     *)
(* audit row yet, and dates by the ticks of a clock.                       *)
(***************************************************************************)
EXTENDS TicketStatus, Roles, Integers, FiniteSets

CONSTANTS
    Requests,       \* slots for requests being handled at the same time
    MaxTickets,     \* bound: tickets ever created
    MaxTime,        \* bound: the last tick of the clock
    MaxComments,    \* bound: comments per ticket
    MaxFaults,      \* bound: handlers cut off by a failing call or a restart
    SlaTargets,     \* resolution targets of the SLA policies, in ticks
    ReopenWindow,   \* REOPEN_WINDOW_DAYS, in ticks
    IntMax,         \* the largest value of the slaPausedMs column, in ticks
    Serial,         \* TRUE: a request starts only when none is in progress
    Nobody, System, NoTicket, NoTime

ASSUME BoundsAssumption ==
    /\ MaxTickets \in Nat /\ MaxTime \in Nat /\ MaxComments \in Nat /\ MaxFaults \in Nat
    /\ ReopenWindow \in Nat /\ IntMax \in Nat
    /\ SlaTargets \subseteq Nat

ASSUME UsersAssumption ==
    /\ RolesOf \in [Users -> SUBSET RoleName]
    /\ Nobody \notin Users /\ System \notin Users
    /\ Serial \in BOOLEAN

ASSUME NoTimeAssumption == NoTime \notin Int

VARIABLES
    now,        \* the clock
    ticket,     \* the ticket table
    lastRow,    \* the last status-history row of each ticket
    comments,   \* the number of comments of each ticket
    unaudited,  \* per ticket, writes without their audit row
    req,        \* what the handler in each slot has in hand
    faults      \* handlers cut off so far

deskVars == <<now, ticket, lastRow, comments, unaudited, req, faults>>

TicketIds == 1..MaxTickets
OptTime == Nat \cup {NoTime}

\* resolved stands for "resolvedAt is not null"; the other dates are kept.
TicketRow == [status: Status, requester: Users, assignee: Users \cup {Nobody},
              created: Nat, due: OptTime,
              pausedAt: OptTime, pausedMs: 0..IntMax,
              resolved: BOOLEAN, closedAt: OptTime, warned: BOOLEAN]

HistoryRow == [from: Status \cup {NoStatus}, to: Status, by: Users \cup {System}]

\* What the state machine has read of the ticket it is about to write.
Seen == [status: Status \cup {NoStatus}, pausedAt: OptTime, closedAt: OptTime]
NothingSeen == [status |-> NoStatus, pausedAt |-> NoTime, closedAt |-> NoTime]

ASSUME NoTicketAssumption == NoTicket \notin TicketRow

Existing == {t \in TicketIds : ticket[t] # NoTicket}

-----------------------------------------------------------------------------
(* Who may do what.                                                        *)

VisibilityScope(u) ==
    IF HasRole(u, {"IT_ADMIN", "SYS_ADMIN"}) THEN "all"
    ELSE IF HasRole(u, {"AGENT", "L2_L3"}) THEN "assigned"
    ELSE "own"

\* Read on a row: may this actor write to the ticket at all?
InWriteScope(row, u) ==
    CASE VisibilityScope(u) = "own"      -> row.requester = u
      [] VisibilityScope(u) = "assigned" -> row.assignee = u
      [] OTHER                           -> TRUE

\* The role rules of POST /tickets/:id/transition.
MayTransition(row, u, to) ==
    /\ InWriteScope(row, u)
    /\ VisibilityScope(u) = "own" =>
         to \in {"CANCELLED", "REOPENED"} \/ (to = "CLOSED" /\ row.status = "RESOLVED")
    /\ VisibilityScope(u) = "assigned" => to # "REOPENED"

MayComment(row, u) == InWriteScope(row, u) /\ ~IsTerminal(row.status)

Assignable(u) == HasRole(u, {"AGENT", "L2_L3", "IT_ADMIN", "SYS_ADMIN"})

-----------------------------------------------------------------------------
(* The write of the state machine, shared by requests and SLA sweeps.      *)

View(row) == [status |-> row.status, pausedAt |-> row.pausedAt, closedAt |-> row.closedAt]

LeavesHold(seen) == seen.status = "ON_HOLD" /\ seen.pausedAt # NoTime

\* What the write adds to slaPausedMs.
Elapsed(seen) == IF LeavesHold(seen) THEN now - seen.pausedAt ELSE 0

\* Seeded fault: the window is one tick too long.
WithinLongerReopenWindow(seen, to) ==
    seen.status = "CLOSED" /\ to = "REOPENED" /\ seen.closedAt # NoTime
        => now <= seen.closedAt + ReopenWindow + 1

\* Reopening a closed ticket is refused past the reopen window.
WithinReopenWindow(seen, to) ==
    seen.status = "CLOSED" /\ to = "REOPENED" /\ seen.closedAt # NoTime
        => now <= seen.closedAt + ReopenWindow

\* slaPausedMs is a 32-bit column: a write that overflows it is refused.
FitsColumn(row, seen) == row.pausedMs + Elapsed(seen) <= IntMax

\* Seeded fault: the pause is not closed when the hold ends.
MovedKeepingPause(row, seen, to) ==
    [row EXCEPT !.status   = to,
                !.pausedAt = IF to = "ON_HOLD" THEN now ELSE @,
                !.pausedMs = @ + Elapsed(seen),
                !.resolved = @ \/ to = "RESOLVED",
                !.closedAt = IF to = "CLOSED" THEN now ELSE @]

\* Seeded fault: closing a ticket does not stamp closedAt.
MovedWithoutStamp(row, seen, to) ==
    [row EXCEPT !.status   = to,
                !.pausedAt = IF LeavesHold(seen) THEN NoTime
                             ELSE IF to = "ON_HOLD" THEN now ELSE @,
                !.pausedMs = @ + Elapsed(seen),
                !.resolved = @ \/ to = "RESOLVED"]

\* Seeded fault: the recorded pauses are overwritten by the last one.
MovedOverwritingPauses(row, seen, to) ==
    [row EXCEPT !.status   = to,
                !.pausedAt = IF LeavesHold(seen) THEN NoTime
                             ELSE IF to = "ON_HOLD" THEN now ELSE @,
                !.pausedMs = IF LeavesHold(seen) THEN Elapsed(seen) ELSE @,
                !.resolved = @ \/ to = "RESOLVED",
                !.closedAt = IF to = "CLOSED" THEN now ELSE @]

\* The row after "update where id": pausedMs is incremented in place, the
\* other columns are overwritten from what was seen.
Moved(row, seen, to) ==
    [row EXCEPT !.status   = to,
                !.pausedAt = IF LeavesHold(seen) THEN NoTime
                             ELSE IF to = "ON_HOLD" THEN now ELSE @,
                !.pausedMs = @ + Elapsed(seen),
                !.resolved = @ \/ to = "RESOLVED",
                !.closedAt = IF to = "CLOSED" THEN now ELSE @]

Accepted(t, seen, to) == WithinReopenWindow(seen, to) /\ FitsColumn(ticket[t], seen)

\* Status and history row are written in one statement, the audit row later.
WriteStatus(t, seen, to, by) ==
    /\ ticket' = [ticket EXCEPT ![t] = Moved(@, seen, to)]
    /\ lastRow' = [lastRow EXCEPT ![t] = [from |-> seen.status, to |-> to, by |-> by]]
    /\ unaudited' = [unaudited EXCEPT ![t] = @ + 1]

WriteAudit(t) == unaudited' = [unaudited EXCEPT ![t] = @ - 1]

-----------------------------------------------------------------------------
(* Requests.                                                               *)

PC == {"idle", "transition", "write", "assign", "comment", "update", "audit"}

Request == [pc: PC, actor: Users \cup {Nobody}, id: 0..MaxTickets,
            to: Status \cup {NoStatus}, assignee: Users \cup {Nobody}, seen: Seen]

Idle == [pc |-> "idle", actor |-> Nobody, id |-> 0,
         to |-> NoStatus, assignee |-> Nobody, seen |-> NothingSeen]

CanStart(r) ==
    /\ req[r].pc = "idle"
    /\ Serial => \A s \in Requests : req[s].pc = "idle"

\* Slot r goes on with handler h.
Continue(r, h) == req' = [req EXCEPT ![r] = h]

AuditNext(t) == [Idle EXCEPT !.pc = "audit", !.id = t]

\* The id is the greatest so far plus one, read and inserted under an advisory
\* lock held to the end of the transaction: one atomic step.
IsNextId(t) ==
    /\ \A s \in Existing : s < t
    /\ t = 1 \/ t - 1 \in Existing

\* POST /tickets.  The deadline is fixed here, from the SLA policy of the
\* ticket's priority or, without a policy, not at all.
Create(r, u, t, assignee, due) ==
    /\ CanStart(r)
    /\ IsNextId(t)
    /\ LET first == IF assignee = Nobody THEN "NEW" ELSE "ASSIGNED" IN
       /\ ticket' = [ticket EXCEPT ![t] =
            [status |-> first, requester |-> u, assignee |-> assignee,
             created |-> now, due |-> due, pausedAt |-> NoTime, pausedMs |-> 0,
             resolved |-> FALSE, closedAt |-> NoTime, warned |-> FALSE]]
       /\ lastRow' = [lastRow EXCEPT ![t] = [from |-> NoStatus, to |-> first, by |-> u]]
    /\ unaudited' = [unaudited EXCEPT ![t] = @ + 1]
    /\ Continue(r, AuditNext(t))
    /\ UNCHANGED <<now, comments, faults>>

\* POST /tickets/:id/transition and PATCH /tickets/:id/status: read and role rules.
RequestTransition(r, u, t, to) ==
    /\ CanStart(r)
    /\ t \in Existing
    /\ MayTransition(ticket[t], u, to)
    /\ Continue(r, [Idle EXCEPT !.pc = "transition", !.actor = u, !.id = t, !.to = to])
    /\ UNCHANGED <<now, ticket, lastRow, comments, unaudited, faults>>

\* POST /tickets/:id/resolve: read and write scope.
RequestResolve(r, u, t) ==
    /\ CanStart(r)
    /\ t \in Existing
    /\ HasRole(u, {"AGENT", "L2_L3", "IT_ADMIN", "SYS_ADMIN"})
    /\ InWriteScope(ticket[t], u)
    /\ Continue(r, [Idle EXCEPT !.pc = "transition", !.actor = u, !.id = t, !.to = "RESOLVED"])
    /\ UNCHANGED <<now, ticket, lastRow, comments, unaudited, faults>>

\* The state machine reads the ticket again and checks the table on that row.
TransitionRead(r) ==
    LET h == req[r]
        seen == View(ticket[h.id]) IN
    /\ h.pc = "transition"
    /\ Continue(r, IF CanTransition(seen.status, h.to)
                   THEN [h EXCEPT !.pc = "write", !.seen = seen]
                   ELSE Idle)
    /\ UNCHANGED <<now, ticket, lastRow, comments, unaudited, faults>>

TransitionWrite(r) ==
    LET h == req[r] IN
    /\ h.pc = "write"
    /\ IF Accepted(h.id, h.seen, h.to)
         THEN /\ WriteStatus(h.id, h.seen, h.to, h.actor)
              /\ Continue(r, AuditNext(h.id))
         ELSE /\ Continue(r, Idle)
              /\ UNCHANGED <<ticket, lastRow, unaudited>>
    /\ UNCHANGED <<now, comments, faults>>

\* POST /tickets/:id/assign: read the ticket and check the assignee's roles.
RequestAssign(r, u, t, assignee) ==
    /\ CanStart(r)
    /\ t \in Existing
    /\ HasRole(u, {"IT_ADMIN", "SYS_ADMIN"})
    /\ Assignable(assignee)
    /\ Continue(r, [Idle EXCEPT !.pc = "assign", !.actor = u, !.id = t, !.assignee = assignee,
                                !.seen = [NothingSeen EXCEPT !.status = ticket[t].status]])
    /\ UNCHANGED <<now, ticket, lastRow, comments, unaudited, faults>>

\* Seeded fault: a reassignment keeps NEW instead of moving on to ASSIGNED.
AssignedStatusKeeping(status) == status

AssignedStatus(status) == IF status = "NEW" THEN "ASSIGNED" ELSE status

\* The status written is computed from the row read before.
AssignWrite(r) ==
    LET h == req[r]
        status == AssignedStatus(h.seen.status) IN
    /\ h.pc = "assign"
    /\ ticket' = [ticket EXCEPT ![h.id].assignee = h.assignee, ![h.id].status = status]
    /\ lastRow' = [lastRow EXCEPT ![h.id] = [from |-> h.seen.status, to |-> status, by |-> h.actor]]
    /\ unaudited' = [unaudited EXCEPT ![h.id] = @ + 1]
    /\ Continue(r, AuditNext(h.id))
    /\ UNCHANGED <<now, comments, faults>>

\* POST /tickets/:id/comments.
RequestComment(r, u, t) ==
    /\ CanStart(r)
    /\ t \in Existing
    /\ comments[t] < MaxComments
    /\ MayComment(ticket[t], u)
    /\ Continue(r, [Idle EXCEPT !.pc = "comment", !.actor = u, !.id = t])
    /\ UNCHANGED <<now, ticket, lastRow, comments, unaudited, faults>>

CommentWrite(r) ==
    /\ req[r].pc = "comment"
    /\ comments' = [comments EXCEPT ![req[r].id] = @ + 1]
    /\ Continue(r, Idle)
    /\ UNCHANGED <<now, ticket, lastRow, unaudited, faults>>

\* PATCH /tickets/:id: subject, priority and category are not represented; the
\* assignee is set or cleared (one left alone is the case of setting it to itself).
RequestUpdate(r, u, t, assignee) ==
    /\ CanStart(r)
    /\ t \in Existing
    /\ HasRole(u, {"AGENT", "IT_ADMIN", "L2_L3", "MANAGER", "SYS_ADMIN"})
    /\ ~IsTerminal(ticket[t].status)
    /\ Continue(r, [Idle EXCEPT !.pc = "update", !.actor = u, !.id = t, !.assignee = assignee])
    /\ UNCHANGED <<now, ticket, lastRow, comments, unaudited, faults>>

UpdateWrite(r) ==
    LET h == req[r] IN
    /\ h.pc = "update"
    /\ ticket' = [ticket EXCEPT ![h.id].assignee = h.assignee]
    /\ unaudited' = [unaudited EXCEPT ![h.id] = @ + 1]
    /\ Continue(r, AuditNext(h.id))
    /\ UNCHANGED <<now, lastRow, comments, faults>>

\* Seeded fault: the audit row is forgotten.
AuditForgotten(r) ==
    /\ req[r].pc = "audit"
    /\ Continue(r, Idle)
    /\ UNCHANGED <<now, ticket, lastRow, comments, unaudited, faults>>

\* The audit row; the notifications that follow do not touch the ticket table.
Audit(r) ==
    /\ req[r].pc = "audit"
    /\ WriteAudit(req[r].id)
    /\ Continue(r, Idle)
    /\ UNCHANGED <<now, ticket, lastRow, comments, faults>>

\* A database call throws or the process is restarted: the handler ends where it is.
Fail(r) ==
    /\ req[r].pc # "idle"
    /\ faults < MaxFaults
    /\ faults' = faults + 1
    /\ Continue(r, Idle)
    /\ UNCHANGED <<now, ticket, lastRow, comments, unaudited>>

Tick ==
    /\ now < MaxTime
    /\ now' = now + 1
    /\ UNCHANGED <<ticket, lastRow, comments, unaudited, req, faults>>

-----------------------------------------------------------------------------
DeskInit ==
    /\ now = 0
    /\ ticket = [t \in TicketIds |-> NoTicket]
    /\ lastRow = [t \in TicketIds |-> NoTicket]
    /\ comments = [t \in TicketIds |-> 0]
    /\ unaudited = [t \in TicketIds |-> 0]
    /\ req = [r \in Requests |-> Idle]
    /\ faults = 0

\* A request arrives.
Start(r) ==
    \E u \in Users, t \in TicketIds :
      \/ \E a \in Users \cup {Nobody}, due \in {now + h : h \in SlaTargets} \cup {NoTime} :
            Create(r, u, t, a, due)
      \/ \E to \in Status : RequestTransition(r, u, t, to)
      \/ RequestResolve(r, u, t)
      \/ \E a \in Users : RequestAssign(r, u, t, a)
      \/ RequestComment(r, u, t)
      \/ \E a \in Users \cup {Nobody} : RequestUpdate(r, u, t, a)

\* A request in progress goes on.
Proceed(r) ==
    \/ TransitionRead(r) \/ TransitionWrite(r) \/ AssignWrite(r)
    \/ CommentWrite(r) \/ UpdateWrite(r) \/ Audit(r) \/ Fail(r)
=============================================================================
