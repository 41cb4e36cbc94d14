------------------------------- MODULE Mail ---------------------------------
(***************************************************************************)
(* Notifications (notifications.service.ts), the queue of mails and the    *)
(* worker that sends them (email.processor.ts, smtp.adapter.ts), one       *)
(* action per database access, queue operation or attempt to send.         *)
(*                                                                         *)
(* A notification is two rows: one for the bell, SENT at once, one for the *)
(* mail, PENDING until the worker has dealt with its job.  The queue is    *)
(* BullMQ's, in Redis: jobs survive the process, calls in progress do not. *)
(***************************************************************************)
EXTENDS Roles, Integers, Sequences, FiniteSets, MailTemplates

CONSTANTS
    Slots,          \* slots for calls in progress
    Nobody, NoJob

MaxAttempts == 4        \* to send one mail
MaxStalls == 1          \* of a job: BullMQ's maxStalledCount

ASSUME MailAssumption ==
    /\ RolesOf \in [Users -> SUBSET RoleName]
    /\ Nobody \notin Users
    /\ NoJob \notin [job: [row: Nat, stalls: Nat], pc: {"read", "send", "SENT", "FAILED"}, tries: Nat]

VARIABLES
    transport,  \* SMTP_HOST is set; otherwise mails go to the log
    ticket,     \* the requester and the assignee of the one ticket
    notices,    \* the notification rows, in the order of their creation
    queue,      \* the jobs that wait
    worker,     \* the job in hand, or NoJob
    call,       \* what the call in each slot has in hand
    due,        \* ghost: for each call so far, its event, its actor and whom it may tell
    handed,     \* ghost: for each row, how often its mail was handed over ...
    doubted,    \* ghost: ... and how often the hand-over was not acknowledged
    faults,     \* ghost: failed operations of the database and of Redis
    crashes     \* ghost: stops of the process

mailVars == <<transport, ticket, notices, queue, worker, call, due, handed, doubted, faults, crashes>>

Reader == [to: Users, as: {"requester", "assignee", "admin", "manager", "adhoc"}]
NoReader == [to |-> Nobody, as |-> "adhoc"]

Channel == {"IN_APP", "EMAIL"}
Status == {"PENDING", "SENT", "FAILED"}

\* A row, and the call that created it.
Notice == [to: Users, event: STRING, channel: Channel, status: Status, call: Nat]

NoticeIds == DOMAIN notices
MailRows == {n \in NoticeIds : notices[n].channel = "EMAIL"}
CallIds == DOMAIN due

-----------------------------------------------------------------------------
(* Whom an event is for.                                                   *)

AdHoc(people) == {[to |-> u, as |-> "adhoc"] : u \in people}
WithRole(role, as) == {[to |-> u, as |-> as] : u \in {v \in Users : role \in RolesOf[v]}}

Requester == {[to |-> ticket.requester, as |-> "requester"]}
Assignee ==
    IF ticket.assignee = Nobody THEN {} ELSE {[to |-> ticket.assignee, as |-> "assignee"]}

\* The candidates of an event, in two groups, the first before the second.
Candidates(event) ==
    CASE event = "ticket.created"   -> <<Requester, WithRole("IT_ADMIN", "admin")>>
      [] event = "ticket.escalated" -> <<WithRole("IT_ADMIN", "admin"), WithRole("MANAGER", "manager")>>
      [] event \in {"ticket.assigned", "ticket.sla_warning", "ticket.reopened"} -> <<Assignee, {}>>
      [] OTHER -> <<Requester, {}>>

\* Seeded fault: whoever caused the event is told of it like everybody else.
EvenTheActor(event, actor) ==
    LET c == Candidates(event)
        first == {r.to : r \in c[1]}
    IN  c[1] \cup {s \in c[2] : s.to \notin first}

\* Each address once, as its first candidate, and never the actor.
ResolveRecipients(event, actor) ==
    LET c == Candidates(event)
        first == {r.to : r \in c[1]}
    IN  {r \in c[1] \cup {s \in c[2] : s.to \notin first} : r.to # actor}

-----------------------------------------------------------------------------
(* emit, and the loops around sendAdHoc.                                   *)

Free == [pc |-> "free", n |-> 0, event |-> "none", actor |-> Nobody,
         left |-> {}, at |-> NoReader, row |-> 0]

CanCall(s) == call[s].pc = "free"
Go(s, h) == call' = [call EXCEPT ![s] = h]

\* The next reader, or the end of the call.
NextReader(h, left) ==
    IF left = {} THEN {Free}
    ELSE {[h EXCEPT !.pc = "bell", !.at = r, !.left = left \ {r}, !.row = 0] : r \in left}

\* emit begins: the ticket is read later than the caller wrote it.
BeginEmit(s, event, actor) ==
    /\ CanCall(s)
    /\ due' = Append(due, [event |-> event, actor |-> actor, readers |-> {}])
    /\ Go(s, [Free EXCEPT !.pc = "lookup", !.n = Len(due) + 1, !.event = event, !.actor = actor])

\* A loop over readers already known, sendAdHoc for each.
BeginAdHoc(s, event, readers) ==
    /\ CanCall(s)
    /\ due' = Append(due, [event |-> event, actor |-> Nobody, readers |-> {r.to : r \in readers}])
    /\ \E h \in NextReader([Free EXCEPT !.n = Len(due) + 1, !.event = event], readers) : Go(s, h)

Lookup(s) ==
    LET h == call[s]
        c == Candidates(h.event)
        readers == ResolveRecipients(h.event, h.actor)
    IN
    /\ h.pc = "lookup"
    /\ due' = [due EXCEPT ![h.n].readers = {r.to : r \in c[1] \cup c[2]}]
    /\ \E g \in NextReader(h, readers) : Go(s, g)
    /\ UNCHANGED <<transport, ticket, notices, queue, worker, handed, doubted, faults, crashes>>

AddRow(h, channel, status) ==
    /\ notices' = Append(notices, [to |-> h.at.to, event |-> h.event, channel |-> channel,
                                   status |-> status, call |-> h.n])
    /\ handed' = Append(handed, 0)
    /\ doubted' = Append(doubted, 0)

Bell(s) ==
    LET h == call[s] IN
    /\ h.pc = "bell"
    /\ AddRow(h, "IN_APP", "SENT")
    /\ Go(s, [h EXCEPT !.pc = "mail row"])
    /\ UNCHANGED <<transport, ticket, queue, worker, due, faults, crashes>>

MailRow(s) ==
    LET h == call[s] IN
    /\ h.pc = "mail row"
    /\ AddRow(h, "EMAIL", "PENDING")
    /\ Go(s, [h EXCEPT !.pc = "enqueue", !.row = Len(notices) + 1])
    /\ UNCHANGED <<transport, ticket, queue, worker, due, faults, crashes>>

Enqueue(s) ==
    LET h == call[s] IN
    /\ h.pc = "enqueue"
    /\ queue' = Append(queue, [row |-> h.row, stalls |-> 0])
    /\ \E g \in NextReader(h, h.left) : Go(s, g)
    /\ UNCHANGED <<transport, ticket, notices, worker, due, handed, doubted, faults, crashes>>

\* A failing operation costs the reader at hand; one at the lookup ends the call.
CallFails(s) ==
    LET h == call[s] IN
    /\ h.pc \in {"lookup", "bell", "mail row", "enqueue"}
    /\ faults' = faults + 1
    /\ \E g \in NextReader(h, h.left) : Go(s, g)
    /\ UNCHANGED <<transport, ticket, notices, queue, worker, due, handed, doubted, crashes>>

-----------------------------------------------------------------------------
(* The worker.                                                             *)

TakeJob ==
    /\ worker = NoJob /\ queue # <<>>
    /\ worker' = [job |-> Head(queue), pc |-> "read", tries |-> 0]
    /\ queue' = Tail(queue)
    /\ UNCHANGED <<transport, ticket, notices, call, due, handed, doubted, faults, crashes>>

\* The ticket is read and the mail built.  Without a transport sending it is
\* writing it to the log.
ReadAndBuild ==
    /\ worker # NoJob /\ worker.pc = "read"
    /\ worker' = [worker EXCEPT !.pc = IF transport THEN "send" ELSE "SENT"]
    /\ UNCHANGED <<transport, ticket, notices, queue, call, due, handed, doubted, faults, crashes>>

\* Seeded fault: the count of attempts starts over.
RetryForEver == worker' = [worker EXCEPT !.tries = 1 - worker.tries]

\* Seeded fault: the last error is not thrown.
RetryQuietly ==
    worker' = IF worker.tries + 1 < MaxAttempts
                  THEN [worker EXCEPT !.tries = worker.tries + 1]
                  ELSE [worker EXCEPT !.pc = "SENT"]

\* After a failed attempt: the next one, or FAILED.
Retry ==
    worker' = IF worker.tries + 1 < MaxAttempts
                  THEN [worker EXCEPT !.tries = worker.tries + 1]
                  ELSE [worker EXCEPT !.pc = "FAILED"]

\* The server takes the mail, or takes it and its answer is lost, or does not.
Send(outcome) ==
    /\ worker # NoJob /\ worker.pc = "send"
    /\ LET row == worker.job.row IN
       /\ handed' = IF outcome = "refused" THEN handed ELSE [handed EXCEPT ![row] = handed[row] + 1]
       /\ doubted' = IF outcome = "unanswered" THEN [doubted EXCEPT ![row] = doubted[row] + 1] ELSE doubted
    /\ IF outcome = "accepted" THEN worker' = [worker EXCEPT !.pc = "SENT"] ELSE Retry
    /\ UNCHANGED <<transport, ticket, notices, queue, call, due, faults, crashes>>

\* updateStatus, after which the job is done.
Record ==
    /\ worker # NoJob /\ worker.pc \in {"SENT", "FAILED"}
    /\ notices' = [notices EXCEPT ![worker.job.row].status = worker.pc]
    /\ worker' = NoJob
    /\ UNCHANGED <<transport, ticket, queue, call, due, handed, doubted, faults, crashes>>

\* The ticket cannot be read and the job fails, or the update fails and its
\* error is swallowed: either way the job is not tried again.
JobFails ==
    /\ worker # NoJob /\ worker.pc \in {"read", "SENT", "FAILED"}
    /\ worker.pc = "read" => notices[worker.job.row].event \in TicketEvents
    /\ faults' = faults + 1
    /\ worker' = NoJob
    /\ UNCHANGED <<transport, ticket, notices, queue, call, due, handed, doubted, crashes>>

\* Seeded fault: the queue is in memory.
Forgotten == <<>>

\* A job whose worker has stopped goes back to the front, once.
Requeued ==
    IF worker = NoJob \/ worker.job.stalls = MaxStalls THEN queue
    ELSE <<[worker.job EXCEPT !.stalls = worker.job.stalls + 1]>> \o queue

\* The process stops and starts again: the calls are gone, the queue is not.
Crash ==
    /\ crashes' = crashes + 1
    /\ call' = [s \in Slots |-> Free]
    /\ queue' = Requeued
    /\ worker' = NoJob
    /\ UNCHANGED <<transport, ticket, notices, due, handed, doubted, faults>>

-----------------------------------------------------------------------------

CallGoesOn(s) == Lookup(s) \/ Bell(s) \/ MailRow(s) \/ Enqueue(s)

Outcomes == {"accepted", "unanswered", "refused"}

WorkerGoesOn == TakeJob \/ ReadAndBuild \/ (\E o \in Outcomes : Send(o)) \/ Record

MailStep == (\E s \in Slots : CallGoesOn(s)) \/ WorkerGoesOn
MailFails == (\E s \in Slots : CallFails(s)) \/ JobFails

MailInit ==
    /\ notices = <<>> /\ queue = <<>> /\ worker = NoJob
    /\ call = [s \in Slots |-> Free]
    /\ due = <<>> /\ handed = <<>> /\ doubted = <<>>
    /\ faults = 0 /\ crashes = 0
=============================================================================
