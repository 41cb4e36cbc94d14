---------------------------- MODULE SlaProcessor ----------------------------
(***************************************************************************)
(* The two repeatable SLA jobs (sla.processor.ts): CHECK_SLA_WARNINGS sends*)
(* one warning when a quarter of the resolution time is left, and          *)
(* CHECK_ESCALATIONS moves breached tickets to ESCALATED.                  *)
(*                                                                         *)
(* A job reads the clock and its list of tickets once and then works       *)
(* through the list, one database access at a time, on rows that may have  *)
(* changed since.  The same jobs can run twice at once: the administration *)
(* endpoints call the processor directly, besides the queue's worker.      *)
(***************************************************************************)
EXTENDS TicketService

CONSTANT Workers    \* the runs of SLA jobs that may overlap

VARIABLES
    job,        \* the job run each worker is in
    warnings,   \* ticket.sla_warning events emitted, per ticket
    levelLag    \* per ticket, system escalations not yet counted in escalationLevel

slaVars == <<job, warnings, levelLag>>

JobPC == {"idle", "warn", "flagged", "sweep", "write", "audit", "level"}

\* todo: the listed tickets still to do; id, seen: the ticket in hand.
Job == [pc: JobPC, todo: SUBSET TicketIds, id: 0..MaxTickets, seen: Seen]

NoJob == [pc |-> "idle", todo |-> {}, id |-> 0, seen |-> NothingSeen]

\* Worker w goes on with j.
Carry(w, j) == job' = [job EXCEPT ![w] = j]

\* Back to the head of the loop pc, or done when nothing is left.
LoopOn(w, pc, todo) == Carry(w, IF todo = {} THEN NoJob
                                ELSE [NoJob EXCEPT !.pc = pc, !.todo = todo])

\* A quarter of the resolution time or less is left, pauses up to now added.
WarningDue(row) ==
    /\ row.status \in ActiveStatuses
    /\ row.due # NoTime
    /\ ~row.warned
    /\ 4 * (row.due + row.pausedMs - now) <= row.due - row.created

\* Seeded fault: the deadline itself counts as past.
BreachedAtDeadline(row) ==
    /\ row.status \in EscalatableStatuses
    /\ row.due # NoTime
    /\ row.due + row.pausedMs <= now

\* Past the deadline, and past it still with the recorded pauses added.
Breached(row) ==
    /\ row.status \in EscalatableStatuses
    /\ row.due # NoTime
    /\ row.due < now
    /\ row.due + row.pausedMs <= now

-----------------------------------------------------------------------------
JobCanStart(w) ==
    /\ job[w].pc = "idle"
    /\ Serial => /\ \A v \in Workers : job[v].pc = "idle"
                 /\ \A r \in Requests : req[r].pc = "idle"

StartWarnings(w) ==
    LET listed == {t \in Existing : WarningDue(ticket[t])} IN
    /\ JobCanStart(w)
    /\ listed # {}
    /\ LoopOn(w, "warn", listed)
    /\ UNCHANGED <<deskVars, warnings, levelLag>>

\* Seeded fault: the flag is set without looking at it again.
FlagWarningBlindly(w, t) ==
    LET rest == job[w].todo \ {t} IN
    /\ job[w].pc = "warn"
    /\ t \in job[w].todo
    /\ ticket' = [ticket EXCEPT ![t].warned = TRUE]
    /\ Carry(w, [NoJob EXCEPT !.pc = "flagged", !.todo = rest, !.id = t])
    /\ UNCHANGED <<now, lastRow, comments, unaudited, req, faults, warnings, levelLag>>

\* "updateMany where id and not yet warned": whoever changes the flag warns.
FlagWarning(w, t) ==
    LET rest == job[w].todo \ {t} IN
    /\ job[w].pc = "warn"
    /\ t \in job[w].todo
    /\ ticket' = [ticket EXCEPT ![t].warned = TRUE]
    /\ IF ticket[t].warned THEN LoopOn(w, "warn", rest)
       ELSE Carry(w, [NoJob EXCEPT !.pc = "flagged", !.todo = rest, !.id = t])
    /\ UNCHANGED <<now, lastRow, comments, unaudited, req, faults, warnings, levelLag>>

SendWarning(w) ==
    /\ job[w].pc = "flagged"
    /\ warnings' = [warnings EXCEPT ![job[w].id] = @ + 1]
    /\ LoopOn(w, "warn", job[w].todo)
    /\ UNCHANGED <<deskVars, levelLag>>

StartEscalations(w) ==
    LET listed == {t \in Existing : Breached(ticket[t])} IN
    /\ JobCanStart(w)
    /\ listed # {}
    /\ LoopOn(w, "sweep", listed)
    /\ UNCHANGED <<deskVars, warnings, levelLag>>

\* The state machine reads the next ticket; one it refuses is passed over.
EscalateRead(w, t) ==
    LET rest == job[w].todo \ {t}
        seen == View(ticket[t]) IN
    /\ job[w].pc = "sweep"
    /\ t \in job[w].todo
    /\ IF CanTransition(seen.status, "ESCALATED")
         THEN Carry(w, [pc |-> "write", todo |-> rest, id |-> t, seen |-> seen])
         ELSE LoopOn(w, "sweep", rest)
    /\ UNCHANGED <<deskVars, warnings, levelLag>>

EscalateWrite(w) ==
    LET j == job[w] IN
    /\ j.pc = "write"
    /\ IF Accepted(j.id, j.seen, "ESCALATED")
         THEN /\ WriteStatus(j.id, j.seen, "ESCALATED", System)
              /\ levelLag' = [levelLag EXCEPT ![j.id] = @ + 1]
              /\ Carry(w, [j EXCEPT !.pc = "audit", !.seen = NothingSeen])
         ELSE /\ LoopOn(w, "sweep", j.todo)
              /\ UNCHANGED <<ticket, lastRow, unaudited, levelLag>>
    /\ UNCHANGED <<now, comments, req, faults, warnings>>

EscalateAudit(w) ==
    /\ job[w].pc = "audit"
    /\ WriteAudit(job[w].id)
    /\ Carry(w, [job[w] EXCEPT !.pc = "level"])
    /\ UNCHANGED <<now, ticket, lastRow, comments, req, faults, warnings, levelLag>>

\* escalationLevel is incremented, and ticket.escalated sent.
RaiseLevel(w) ==
    /\ job[w].pc = "level"
    /\ levelLag' = [levelLag EXCEPT ![job[w].id] = @ - 1]
    /\ LoopOn(w, "sweep", job[w].todo)
    /\ UNCHANGED <<deskVars, warnings>>

\* A call fails.  The escalation loop catches it and goes on with the next
\* ticket; the warning loop does not, and its job run ends.  A restart ends either.
JobFail(w) ==
    /\ job[w].pc # "idle"
    /\ faults < MaxFaults
    /\ faults' = faults + 1
    /\ \/ Carry(w, NoJob)
       \/ /\ job[w].pc \in {"write", "audit", "level"}
          /\ LoopOn(w, "sweep", job[w].todo)
       \/ /\ job[w].pc = "sweep"
          /\ \E t \in job[w].todo : LoopOn(w, "sweep", job[w].todo \ {t})
    /\ UNCHANGED <<now, ticket, lastRow, comments, unaudited, req, warnings, levelLag>>

SlaInit ==
    /\ job = [w \in Workers |-> NoJob]
    /\ warnings = [t \in TicketIds |-> 0]
    /\ levelLag = [t \in TicketIds |-> 0]

\* A job run in progress goes on.
RunOn(w) ==
    \/ \E t \in TicketIds : FlagWarning(w, t) \/ EscalateRead(w, t)
    \/ SendWarning(w) \/ EscalateWrite(w) \/ EscalateAudit(w) \/ RaiseLevel(w)

SlaNext(w) == StartWarnings(w) \/ StartEscalations(w) \/ RunOn(w) \/ JobFail(w)
=============================================================================
