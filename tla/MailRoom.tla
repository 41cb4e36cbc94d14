------------------------------ MODULE MailRoom ------------------------------
(***************************************************************************)
(* Who sends what to whom: the events of tickets, accounts, devices and    *)
(* purchases, the warning of the SLA job and the daily reminders, all      *)
(* through Mail.  Specification and properties.                            *)
(***************************************************************************)
EXTENDS Reminders, WebRoutes

CONSTANTS
    Scenes          \* what a behaviour is about: its events, a bound on its calls and
                    \* one on its troubles, its tickets and whether mails go out

ASSUME ScenesAssumption ==
    \A s \in Scenes : /\ s.events \subseteq STRING /\ s.transport \in BOOLEAN
                      /\ s.tickets \subseteq [requester: Users, assignee: Users \cup {Nobody}]

VARIABLES
    scene,          \* which of them this behaviour is about
    warned          \* sla75WarningSent of the ticket

vars == <<mailVars, reminderVars, scene, warned>>

ReminderScene == "device.reminder.cycle"

IsAdmin(u) == HasRole(u, IT_ADMIN_ROLES)
Handlers == {u \in Users : HasRole(u, {"AGENT", "L2_L3", "IT_ADMIN", "SYS_ADMIN"})}

MayBegin(event) == event \in scene.events /\ Len(due) < scene.calls

MayFail == faults + crashes < scene.troubles

OthersUnchanged == UNCHANGED <<transport, notices, queue, worker, handed, doubted, faults, crashes, reminderVars>>

-----------------------------------------------------------------------------
(* The senders.                                                            *)

\* The events of which emit is not told an actor.
SystemEvents == {"ticket.created", "ticket.escalated"}

\* A ticket was created, moved, resolved, commented on or escalated.
TicketEvent(s, event, actor) ==
    /\ MayBegin(event) /\ event \in TicketEvents \ {"ticket.sla_warning"}
    /\ actor = Nobody => event \in SystemEvents
    /\ BeginEmit(s, event, actor)
    /\ UNCHANGED <<ticket, warned, scene>> /\ OthersUnchanged

\* assign writes the ticket, then emits.
AssignTicket(s, u, actor) ==
    /\ MayBegin("ticket.assigned") /\ IsAdmin(actor) /\ u \in Handlers
    /\ ticket' = [ticket EXCEPT !.assignee = u]
    /\ BeginEmit(s, "ticket.assigned", actor)
    /\ UNCHANGED <<warned, scene>> /\ OthersUnchanged

\* The SLA job marks the ticket, then emits: there is no second warning.
WarnOfSla(s) ==
    /\ MayBegin("ticket.sla_warning") /\ ~warned
    /\ warned' = TRUE
    /\ BeginEmit(s, "ticket.sla_warning", Nobody)
    /\ UNCHANGED <<ticket, scene>> /\ OthersUnchanged

Members(roles) == {u \in Users : HasRole(u, roles)}

\* Who is told of an event that is not about a ticket: everybody with a role,
\* or the one it concerns.
Audiences(event) ==
    CASE event \in {"auth.registration_pending", "device.request.pending_fulfilment",
                    "purchase.request.finance_approved", "purchase.request.auto_created"}
            -> {Members({"IT_ADMIN"})}
      [] event = "purchase.request.pending_manager" -> {Members({"MANAGER"})}
      [] event = "purchase.request.pending_finance" -> {Members({"FINANCE"})}
      [] event = "purchase.request.rejected"
            -> {{u} : u \in Members({"IT_ADMIN", "SYS_ADMIN", "MANAGER"})}
      [] OTHER -> {{u} : u \in Users}

AdHocEvents == DOMAIN AccountMails \cup DOMAIN DeviceMails \cup DOMAIN PurchaseMails

AdHocEvent(s, event, people) ==
    /\ MayBegin(event) /\ event \in AdHocEvents
    /\ people \in Audiences(event)
    /\ BeginAdHoc(s, event, AdHoc(people))
    /\ UNCHANGED <<ticket, warned, scene>> /\ OthersUnchanged

\* The slots are alike: a call takes any that is free.
NextSlot == CHOOSE s \in Slots : CanCall(s) \/ \A r \in Slots : ~CanCall(r)

DeskStep(s) ==
    \/ \E event \in scene.events, actor \in Users \cup {Nobody} : TicketEvent(s, event, actor)
    \/ \E u \in Users, actor \in Users : AssignTicket(s, u, actor)
    \/ WarnOfSla(s)
    \/ \E event \in scene.events : \E people \in SUBSET Users : AdHocEvent(s, event, people)

-----------------------------------------------------------------------------

Init ==
    /\ scene \in Scenes
    /\ transport = scene.transport
    /\ ticket \in scene.tickets
    /\ warned = FALSE
    /\ MailInit /\ ReminderInit

Next ==
    \/ DeskStep(NextSlot)
    \/ MailStep /\ UNCHANGED <<reminderVars, scene, warned>>
    \/ MayFail /\ MailFails /\ UNCHANGED <<reminderVars, scene, warned>>
    \/ ReminderScene \in scene.events /\ (CheckStep \/ HoldStep) /\ UNCHANGED <<scene, warned>>
    \/ MayFail /\ CheckFails /\ UNCHANGED <<scene, warned>>
    \/ MayFail /\ CrashWithCheck /\ UNCHANGED <<scene, warned>>

\* The worker goes on by itself.
Fairness == WF_vars(WorkerGoesOn /\ UNCHANGED <<reminderVars, scene, warned>>)

Spec == Init /\ [][Next]_vars /\ Fairness

-----------------------------------------------------------------------------
(* Mail.                                                                   *)

\* Rows whose job waits or is in hand.
Queued == {queue[i].row : i \in DOMAIN queue} \cup (IF worker = NoJob THEN {} ELSE {worker.job.row})

InHand == {call[s].row : s \in Slots}

\* Rows that stay PENDING with nothing left to send them.
Stranded == {n \in MailRows : notices[n].status = "PENDING"} \ (Queued \cup InHand)

\* A PENDING mail has its job or its call until that very operation fails or
\* its job has stalled too often; a failure strands one, a stop of the process
\* none but those in hand.
StrandedByFailure ==
    [][/\ \A n \in Stranded' \ Stranded :
            \/ n \in InHand
            \/ /\ worker # NoJob /\ worker.job.row = n
               /\ faults' > faults \/ worker.job.stalls = MaxStalls
       /\ crashes' = crashes => Cardinality(Stranded') <= Cardinality(Stranded) + faults' - faults]_vars

\* SENT says that the mail was handed over (or that there is no server), FAILED
\* that no attempt was acknowledged, and nobody gets a mail twice but through an
\* unanswered attempt or a job that ran twice.
StatusTellsDelivery ==
    \A n \in MailRows :
        /\ notices[n].status = "SENT" /\ transport => handed[n] > 0
        /\ notices[n].status = "FAILED" => handed[n] <= doubted[n] + crashes
        /\ handed[n] <= 1 + doubted[n] + crashes

\* A mail of a call goes to one it may tell and never to the actor it was given,
\* has its line in the bell before it, and is the only one of that call to its
\* reader.  (Copies of a reminder name a reader twice who has both roles.)
EachReaderOnce ==
    \A n \in MailRows :
        /\ \E b \in 1..(n - 1) : /\ notices[b].channel = "IN_APP"
                                 /\ notices[b].to = notices[n].to /\ notices[b].call = notices[n].call
        /\ notices[n].to \in due[notices[n].call].readers \ {due[notices[n].call].actor}
        /\ notices[n].event # "device.reminder.escalation_cycle" =>
             \A m \in MailRows : notices[m].call = notices[n].call /\ notices[m].to = notices[n].to => m = n

-----------------------------------------------------------------------------
(* Where the buttons lead.                                                 *)

\* findOne lets administrators see every ticket, agents those assigned to them,
\* everybody else their own.
MayView(u) ==
    \/ IsAdmin(u)
    \/ IF HasRole(u, {"AGENT", "L2_L3"}) THEN ticket.assignee = u ELSE ticket.requester = u

Opens(u, page) ==
    \/ page = NoLink
    \/ Arrives(page, RolesOf[u]) = page /\ (page = TicketPage => MayView(u))

\* Events of which the assignee is told.
AssigneeEvents == {"ticket.assigned", "ticket.sla_warning", "ticket.reopened"}

\* Mails whose button leads their reader nowhere: the reminder's page does not
\* exist, managers are asked to approve on a page for administrators, told of
\* tickets they may not see and of the rejection of what they raised, an agent
\* sees neither his own tickets nor one that has gone to somebody else, and
\* creation and update make assignees of people who see only their own tickets.
DeadEnd(u, event) ==
    \/ event = "device.reminder.cycle"
    \/ /\ ~IsAdmin(u)
       /\ \/ event \in {"purchase.request.pending_manager", "purchase.request.rejected"}
          \/ event = "ticket.escalated" /\ HasRole(u, {"MANAGER"})
          \/ event \in TicketEvents /\ HasRole(u, {"AGENT", "L2_L3"}) /\ ticket.assignee # u
          \/ event \in AssigneeEvents /\ u \notin Handlers

\* Every other mail opens a page its reader may see.
MailOpens ==
    \A n \in MailRows :
        handed[n] > 0 => \/ Opens(notices[n].to, LinkOf[notices[n].event])
                         \/ DeadEnd(notices[n].to, notices[n].event)

\* The queue is worked off, however often the server refuses.
QueueDrains == []<>(queue = <<>> /\ worker = NoJob)

-----------------------------------------------------------------------------
(* Reminders.                                                              *)

\* Reminders to one employee are Cadence days apart and numbered on, through
\* returns, resolutions and a check that is run twice.
RemindersSpaced ==
    \A e \in Employees : \A i \in DOMAIN reminders[e] :
        /\ reminders[e][i].cycle = i
        /\ i > 1 => reminders[e][i].day >= reminders[e][i - 1].day + Cadence

\* However a check ends, by itself, by a failure or by a stop of the process, it
\* leaves no reminder open for an employee within the limit, but for those it had
\* not dealt with and those who have given a device back meanwhile.
CheckSettles ==
    [][check.pc # "idle" /\ check'.pc = "idle" =>
          \A e \in Employees \ (returned \cup Unvisited) :
              holds[e] <= Limit => ~IsOpen(e)]_vars
=============================================================================
