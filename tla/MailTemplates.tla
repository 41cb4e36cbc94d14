--------------------------- MODULE MailTemplates ----------------------------
(***************************************************************************)
(* What becomes of an event in a mail (email-templates.ts).  Subject, text *)
(* and layout are left out; what stays is the page a mail's button opens.  *)
(***************************************************************************)
NoLink == "no link"

TicketPage == "/tickets/:id"

\* To the requester and the administrators, while the ticket is worked on.
TicketMails ==
    [e \in {"ticket.created", "ticket.assigned", "ticket.status_changed",
            "ticket.comment_added"} |-> TicketPage]

TicketOutcomeMails ==
    [e \in {"ticket.sla_warning", "ticket.escalated", "ticket.resolved", "ticket.closed",
            "ticket.reopened"} |-> TicketPage]

AccountMails ==
    [e \in {"auth.account_approved", "auth.account_created", "auth.account_rejected",
            "auth.registration_pending", "auth.registration_confirmation"} |->
        CASE e \in {"auth.account_approved", "auth.account_created"} -> "/login"
          [] e = "auth.registration_pending" -> "/admin/pending-users"
          [] OTHER -> NoLink]

DeviceMails ==
    [e \in {"device.request.approved", "device.request.rejected",
            "device.request.pending_fulfilment", "device.purchased_available"} |->
        IF e = "device.request.pending_fulfilment" THEN "/admin/device-requests"
        ELSE "/devices/my-requests"]

\* The names of these events end in the number of the reminder.
ReminderMails ==
    [e \in {"device.reminder.cycle", "device.reminder.escalation_cycle"} |->
        IF e = "device.reminder.cycle" THEN "/devices" ELSE NoLink]

\* Seeded fault: finance is sent to the page of the administrators.
OnePurchasePage ==
    [e \in {"purchase.request.pending_manager", "purchase.request.pending_finance",
            "purchase.request.finance_approved", "purchase.request.rejected",
            "purchase.request.auto_created"} |-> "/admin/procurement"]

PurchaseMails ==
    [e \in {"purchase.request.pending_manager", "purchase.request.pending_finance",
            "purchase.request.finance_approved", "purchase.request.rejected",
            "purchase.request.auto_created"} |->
        IF e = "purchase.request.pending_finance" THEN "/finance/approvals"
        ELSE "/admin/procurement"]

TicketEvents == DOMAIN TicketMails \cup DOMAIN TicketOutcomeMails

MailEvents == TicketEvents \cup DOMAIN AccountMails \cup DOMAIN DeviceMails
                  \cup DOMAIN ReminderMails \cup DOMAIN PurchaseMails

\* The page of each event's mail (buildEmail).
LinkOf ==
    [e \in MailEvents |->
        CASE e \in TicketEvents         -> TicketPage
          [] e \in DOMAIN AccountMails  -> AccountMails[e]
          [] e \in DOMAIN DeviceMails   -> DeviceMails[e]
          [] e \in DOMAIN ReminderMails -> ReminderMails[e]
          [] OTHER                      -> PurchaseMails[e]]
=============================================================================
