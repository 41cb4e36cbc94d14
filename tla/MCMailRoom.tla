---------------------------- MODULE MCMailRoom ------------------------------
(***************************************************************************)
(* MailRoom for TLC: an employee, an agent, a manager who signs for        *)
(* finance, and an administrator who manages too.                          *)
(***************************************************************************)
EXTENDS MailRoom

CONSTANTS employee, agent, manager, admin, s1, s2

MCRolesOf == [u \in Users |-> CASE u = employee -> {"EMPLOYEE"}
                                [] u = agent    -> {"AGENT"}
                                [] u = manager  -> {"MANAGER", "FINANCE"}
                                [] OTHER        -> {"IT_ADMIN", "MANAGER"}]

\* Tickets of an employee, unassigned, assigned, and assigned to one who handles
\* no tickets, and one of an agent.
Tickets == {[requester |-> employee, assignee |-> Nobody],
            [requester |-> employee, assignee |-> agent],
            [requester |-> employee, assignee |-> manager],
            [requester |-> agent,    assignee |-> admin]}
SomeTicket == {[requester |-> employee, assignee |-> agent]}

\* One reminder, left open by a return that was cut off.
OnePast == <<[cycle |-> 1, day |-> 0, resolved |-> FALSE]>>

About(events, calls, troubles, tickets, smtp) ==
    [events |-> events, calls |-> calls, troubles |-> troubles,
     tickets |-> tickets, transport |-> smtp]

\* Every event alone, one with three troubles, two events that overlap, and the
\* reminders, without a server to mail them.
MCScenes ==
    {About({e}, 1, 1, Tickets, TRUE) : e \in TicketEvents}
        \cup {About({e}, 1, 1, SomeTicket, TRUE) : e \in AdHocEvents}
        \cup {About({"ticket.resolved"}, 1, 3, SomeTicket, TRUE),
              About({"ticket.assigned", "ticket.sla_warning"}, 2, 1, SomeTicket, TRUE),
              About({ReminderScene}, 0, 1, SomeTicket, FALSE)}
=============================================================================
