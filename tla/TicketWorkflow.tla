--------------------------- MODULE TicketWorkflow ---------------------------
(***************************************************************************)
(* What the ticket desk promises, seen from outside: the status of a       *)
(* ticket moves along the transition table and nowhere else, and the time  *)
(* a ticket has spent on hold is known exactly at every moment.            *)
(***************************************************************************)
EXTENDS TicketStatus, Integers

CONSTANT Tickets

VARIABLES
    status,     \* NoStatus before the ticket exists
    held        \* ticks spent in ON_HOLD so far

wfVars == <<status, held>>

WfInit ==
    /\ status = [t \in Tickets |-> NoStatus]
    /\ held = [t \in Tickets |-> 0]

Raise(t) ==
    /\ status[t] = NoStatus
    /\ \E s \in {"NEW", "ASSIGNED"} : status' = [status EXCEPT ![t] = s]
    /\ UNCHANGED held

Move(t, to) ==
    /\ status[t] \in Status
    /\ CanTransition(status[t], to)
    /\ status' = [status EXCEPT ![t] = to]
    /\ UNCHANGED held

TimePasses ==
    /\ held' = [t \in Tickets |-> IF status[t] = "ON_HOLD" THEN held[t] + 1 ELSE held[t]]
    /\ UNCHANGED status

WfNext ==
    \/ \E t \in Tickets : Raise(t) \/ \E to \in Status : Move(t, to)
    \/ TimePasses

WfSpec == WfInit /\ [][WfNext]_wfVars
=============================================================================
