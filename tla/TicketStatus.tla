---------------------------- MODULE TicketStatus ----------------------------
(***************************************************************************)
(* The status table of a ticket and the sets of statuses the ticket        *)
(* service and the SLA processor select on.  No state: these are the       *)
(* constant tables of ticket-state-machine.service.ts and sla.processor.ts.*)
(***************************************************************************)

Status == {"NEW", "ASSIGNED", "IN_PROGRESS", "ON_HOLD", "ESCALATED",
           "RESOLVED", "REOPENED", "CLOSED", "CANCELLED"}

\* The empty fromStatus of the first history row of a ticket.
NoStatus == "NONE"

\* The exact allowed transition table (section 4.4 of the source's comments).
Allowed ==
    [s \in Status |->
        CASE s = "NEW"         -> {"ASSIGNED", "CANCELLED"}
          [] s = "ASSIGNED"    -> {"IN_PROGRESS", "ON_HOLD", "ESCALATED", "CANCELLED"}
          [] s = "IN_PROGRESS" -> {"ON_HOLD", "RESOLVED", "ESCALATED", "CANCELLED"}
          [] s = "ON_HOLD"     -> {"IN_PROGRESS", "RESOLVED", "ESCALATED", "CANCELLED"}
          [] s = "ESCALATED"   -> {"IN_PROGRESS", "ON_HOLD", "RESOLVED"}
          [] s = "RESOLVED"    -> {"CLOSED", "REOPENED"}
          [] s = "REOPENED"    -> {"IN_PROGRESS", "ASSIGNED", "ESCALATED"}
          [] s = "CLOSED"      -> {"REOPENED"}
          [] s = "CANCELLED"   -> {}]

\* Seeded fault: the state machine trusts the check its caller made.
CanTransitionTrusting(from, to) == from # to

CanTransition(from, to) == to \in Allowed[from]

\* Metadata edits and new comments are locked in these statuses.
IsTerminal(s) == s \in {"CANCELLED", "CLOSED"}

\* Seeded fault: escalated tickets are no longer warned about.
ActiveWithoutEscalated == {"NEW", "ASSIGNED", "IN_PROGRESS", "ON_HOLD", "REOPENED"}

\* The SLA clock is taken to run in these statuses.
ActiveStatuses == {"NEW", "ASSIGNED", "IN_PROGRESS", "ON_HOLD", "ESCALATED", "REOPENED"}

\* Seeded fault: a reopened ticket is left out of the sweep.
EscalatableWithoutReopened == {"ASSIGNED", "IN_PROGRESS", "ON_HOLD"}

\* A breached ticket in one of these is moved to ESCALATED by the sweep.
EscalatableStatuses == {"ASSIGNED", "IN_PROGRESS", "ON_HOLD", "REOPENED"}
=============================================================================
