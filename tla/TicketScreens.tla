--------------------------- MODULE TicketScreens ----------------------------
(***************************************************************************)
(* The pages about tickets.                                                *)
(***************************************************************************)
EXTENDS Screens

\* The client's mirror of the status table (lib/ticketStateMachine.ts).
AllowedTransitions ==
    [NEW |-> {"ASSIGNED", "CANCELLED"},
     ASSIGNED |-> {"IN_PROGRESS", "ON_HOLD", "ESCALATED", "CANCELLED"},
     IN_PROGRESS |-> {"ON_HOLD", "RESOLVED", "ESCALATED", "CANCELLED"},
     ON_HOLD |-> {"IN_PROGRESS", "RESOLVED", "ESCALATED", "CANCELLED"},
     ESCALATED |-> {"IN_PROGRESS", "ON_HOLD", "RESOLVED"},
     RESOLVED |-> {"CLOSED", "REOPENED"},
     REOPENED |-> {"IN_PROGRESS", "ASSIGNED", "ESCALATED"},
     CLOSED |-> {"REOPENED"},
     CANCELLED |-> {}]

Leading(to) == {s \in Status : to \in AllowedTransitions[s]}
Terminal == {"CANCELLED", "CLOSED"}

-----------------------------------------------------------------------------
(* One ticket.                                                             *)

\* AGENT_ROLES of the page, without MANAGER.
PageAgents == With({"AGENT", "L2_L3", "IT_ADMIN", "SYS_ADMIN"})

TicketQueries ==
    Part({Query("ticket", "ticket", Status, Never), Query("attachments", "attachments", Status, Never)},
         {}, {Link("/tickets")})

\* Every change of the ticket refreshes the ticket, and nothing else.
Moves(targets, from) ==
    {Button(<<<<"move", to>>>>, "ticket", from \cap Leading(to), {"ticket"}) : to \in targets}

ResolveDialog == Button(<<<<"resolve">>>>, "ticket", Leading("RESOLVED"), {"ticket"})

TicketHeader ==
    For(With(IT_ADMIN_ROLES), Part({}, {}, {RowLink("/admin/assign/:id", "ticket", Status \ Terminal)}))

\* Agents, administrators and the requester; who else can see the ticket is one of them.
AttachmentCard == Part({}, {Button(<<<<"attach">>>>, "ticket", Status, {"attachments"})}, {})

ConfirmResolution == For(EmployeesOnly, Part({}, Moves({"CLOSED"}, {"RESOLVED"}), {}))

CommentForm == Part({}, {Button(<<<<"comment">>>>, "ticket", Status \ Terminal, {"ticket"})}, {})

\* The selection field has every allowed target without a dialog of its own.
AgentActions ==
    LET open == Status \ Terminal IN
    For(PageAgents,
        Part({}, Moves(Status \ {"ON_HOLD", "RESOLVED"}, open) \cup Moves({"ON_HOLD"}, open)
                     \cup {ResolveDialog}, {}))

TicketDetailPage ==
    Page(<<TicketQueries, TicketHeader, AttachmentCard, ConfirmResolution, CommentForm, AgentActions>>)

-----------------------------------------------------------------------------
(* Lists.                                                                  *)

TicketListPage ==
    Part({Query("my-tickets", "my tickets", Status, Never)}, {},
         {Link("/tickets/new"), RowLink("/tickets/:id", "my-tickets", Status)})

\* A file that cannot be uploaded does not keep the page from moving on.
NewTicketPage ==
    Part({Query("kb-suggestions", "articles", ArticleStatus, Never)},
         {Form(<<"raise">>, {}, "/tickets/:id")},
         {Link("/tickets"), RowLink("/kb/:id", "kb-suggestions", AnyStatus)})

AgentQueuePage ==
    Part({Query("agent-queue", "tickets", Status \ Terminal, 60)}, {},
         {RowLink("/tickets/:id", "agent-queue", Status)})

-----------------------------------------------------------------------------
(* The administrator's queue.                                              *)

\* A call needs an agent chosen from a list only administrators may read.
AssignOn(key, from) ==
    [Button(<<<<"assign">>>>, key, from, {"admin-triage", "admin-all-tickets", "ticket-stats"})
         EXCEPT !.viewers = With(IT_ADMIN_ROLES)]

QueueQueries == Part({Query("ticket-stats", "ticket stats", Status, 60)}, {}, {})

TriageTab ==
    Part({AskedQuery("admin-triage", "tickets", {"NEW"}, Never)},
         {AssignOn("admin-triage", {"NEW"})}, {RowLink("/tickets/:id", "admin-triage", {"NEW"})})

\* Rows in any status can be picked for the same agent.
AllTicketsTab ==
    Part({Query("admin-all-tickets", "tickets", Status, Never)},
         {AssignOn("admin-all-tickets", Status)}, {RowLink("/tickets/:id", "admin-all-tickets", Status)})

AdminTicketQueuePage == Page(<<QueueQueries, TriageTab, AllTicketsTab>>)

\* Leads back to the ticket without refreshing it.
AssignTicketPage ==
    LET assign == ButtonTo(<<<<"assign">>>>, "ticket", Status, {}, "/tickets/:id") IN
    Part({Query("ticket", "ticket", Status, Never)},
         {[assign EXCEPT !.viewers = With(IT_ADMIN_ROLES)]}, {Link("/admin/tickets")})
=============================================================================
