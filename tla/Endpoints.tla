----------------------------- MODULE Endpoints ------------------------------
(***************************************************************************)
(* What the server does with a request of the web client, as the roles of  *)
(* its routes (the controllers) and the checks of its services decide: no  *)
(* state, one row at a time, each call at once.  How the handlers          *)
(* interleave is the matter of TicketService, DeviceDesk, Procurement and  *)
(* Accounts.  That a draft of a purchase must be filled in before it can   *)
(* be submitted is left out (Procurement has it): the page saves the form  *)
(* in the call before.                                                     *)
(*                                                                         *)
(* A row has a status and ties to the user who asks: he is its requester   *)
(* or assignee, the requester reports to him ("report", also if nobody is  *)
(* named), he took its manager stage ("first"), it is his own account      *)
(* ("self") or that of a system administrator ("sysadmin").                *)
(***************************************************************************)
EXTENDS TicketStatus, WebRoutes, TLC

Absent == "-"

\* DRAFT is new, ARCHIVED the end.
ArticleStatus == {"DRAFT", "PUBLISHED", "ARCHIVED"}
DeviceStatus == {"AVAILABLE", "ALLOCATED", "IN_REPAIR", "RETIRED"}
RequestStatus == {"PENDING_MANAGER_APPROVAL", "PENDING_FULFILMENT", "REJECTED", "ALLOCATED", "RETURNED"}
OrderStatus == {"RAISED", "PENDING_MANAGER_APPROVAL", "PENDING_FINANCE_APPROVAL",
                "FINANCE_APPROVED", "PO_RAISED", "RECEIVED", "REJECTED", "ON_HOLD"}

\* Status and isActive together.
UserStatus == {"PENDING_APPROVAL", "ACTIVE", "REJECTED", "INACTIVE"}

StatusesOf == [ticket |-> Status, request |-> RequestStatus, purchase |-> OrderStatus,
               device |-> DeviceStatus, account |-> UserStatus, article |-> ArticleStatus]

\* A call that is accepted, and the status it leaves.
Does(call, to) == [call |-> call, to |-> to]
When(condition, calls) == IF condition THEN calls ELSE {}
Has(roles, some) == roles \cap some # {}

-----------------------------------------------------------------------------
(* Tickets, their comments and attachments.                                *)

Scope(roles) ==
    IF Has(roles, IT_ADMIN_ROLES) THEN "all"
    ELSE IF Has(roles, {"AGENT", "L2_L3"}) THEN "assigned"
    ELSE "own"

InScope(row, roles) ==
    CASE Scope(roles) = "all"      -> TRUE
      [] Scope(roles) = "assigned" -> "assignee" \in row.ties
      [] Scope(roles) = "own"      -> "requester" \in row.ties

\* The targets the role rules leave of the status table's.
Reachable(row, roles) ==
    {to \in Allowed[row.status] :
        /\ Scope(roles) = "own" => to \in {"CANCELLED", "REOPENED"} \/ (to = "CLOSED" /\ row.status = "RESOLVED")
        /\ Scope(roles) = "assigned" => to # "REOPENED"}

TicketCalls(row, roles) ==
    IF row.status = Absent THEN {Does(<<"raise">>, "NEW"), Does(<<"raise">>, "ASSIGNED")}
    ELSE
         When(InScope(row, roles), {Does(<<"move", to>>, to) : to \in Reachable(row, roles)})
    \cup When(InScope(row, roles) /\ Has(roles, {"AGENT", "L2_L3", "IT_ADMIN", "SYS_ADMIN"})
                /\ "RESOLVED" \in Allowed[row.status], {Does(<<"resolve">>, "RESOLVED")})
    \cup When(InScope(row, roles) /\ ~IsTerminal(row.status), {Does(<<"comment">>, row.status)})
    \cup When(Has(roles, IT_ADMIN_ROLES),
              {Does(<<"assign">>, IF row.status = "NEW" THEN "ASSIGNED" ELSE row.status)})
    \cup When(Has(roles, IT_ADMIN_ROLES) \/ row.ties \cap {"requester", "assignee"} # {},
              {Does(<<"attach">>, row.status)})

-----------------------------------------------------------------------------
(* Device requests and devices.                                            *)

RequestCalls(row, roles) ==
         When(row.status = Absent, {Does(<<"request">>, "PENDING_MANAGER_APPROVAL")})
    \cup When(/\ row.status = "PENDING_MANAGER_APPROVAL"
              /\ Has(roles, IT_ADMIN_ROLES) \/ ("MANAGER" \in roles /\ "report" \in row.ties),
              {Does(<<"decide", "APPROVED">>, "PENDING_FULFILMENT"), Does(<<"decide", "REJECTED">>, "REJECTED")})
    \cup When(row.status = "PENDING_FULFILMENT" /\ Has(roles, IT_ADMIN_ROLES),
              {Does(<<"allocate">>, "ALLOCATED")})

\* A change of status by hand is not checked against the present one.
DeviceCalls(row, roles) ==
    When(Has(roles, IT_ADMIN_ROLES),
             When(row.status = Absent, {Does(<<"register">>, "AVAILABLE")})
        \cup When(row.status = "ALLOCATED", {Does(<<"return">>, "AVAILABLE")})
        \cup When(row.status # Absent, {Does(<<"set", "RETIRED">>, "RETIRED")}))

-----------------------------------------------------------------------------
(* Purchase requests.                                                      *)

\* The stage a status is at: who decides at it, and what he makes of it.
StageRole == [PENDING_MANAGER_APPROVAL |-> "MANAGER", PENDING_FINANCE_APPROVAL |-> "FINANCE",
              ON_HOLD |-> "SYS_ADMIN"]

Approved == [PENDING_MANAGER_APPROVAL |-> "PENDING_FINANCE_APPROVAL",
             PENDING_FINANCE_APPROVAL |-> "FINANCE_APPROVED",
             ON_HOLD |-> "PENDING_MANAGER_APPROVAL"]

\* A hold of what is on hold puts it back into approval as well.
Held(status) == IF status = "ON_HOLD" THEN "PENDING_MANAGER_APPROVAL" ELSE "ON_HOLD"

\* Who took the manager stage is kept from the finance stage, system
\* administrators excepted.
MayDecide(row, roles) ==
    /\ row.status \in DOMAIN StageRole
    /\ Has(roles, {"SYS_ADMIN", StageRole[row.status]})
    /\ row.status = "PENDING_FINANCE_APPROVAL" /\ "first" \in row.ties => "SYS_ADMIN" \in roles

PurchaseCalls(row, roles) ==
         When(MayDecide(row, roles),
              {Does(<<"approve", "APPROVED">>, Approved[row.status]),
               Does(<<"approve", "REJECTED">>, "REJECTED"),
               Does(<<"approve", "ON_HOLD">>, Held(row.status))})
    \cup When(Has(roles, IT_ADMIN_ROLES),
             When(row.status = Absent, {Does(<<"purchase">>, "PENDING_MANAGER_APPROVAL")})
        \cup When(row.status = "RAISED", {Does(<<"edit">>, "RAISED"),
                                          Does(<<"submit">>, "PENDING_MANAGER_APPROVAL")})
        \cup When(row.status = "FINANCE_APPROVED", {Does(<<"order">>, "PO_RAISED")})
        \cup When(row.status = "PO_RAISED", {Does(<<"receive">>, "RECEIVED")}))

-----------------------------------------------------------------------------
(* Accounts and articles.                                                  *)

\* Only a system administrator grants that role or changes one who has it.
AccountCalls(row, roles) ==
    LET mayGrant(role) == role = "SYS_ADMIN" => "SYS_ADMIN" \in roles IN
         When(Has(roles, IT_ADMIN_ROLES),
             When(row.status = Absent,
                  {Does(<<"create", role>>, "ACTIVE") : role \in {r \in RoleName : mayGrant(r)}})
        \cup When(row.status = "PENDING_APPROVAL",
                  {Does(<<"admit">>, "ACTIVE"), Does(<<"refuse">>, "REJECTED")})
        \cup When(row.status # Absent /\ "self" \notin row.ties /\ ("sysadmin" \in row.ties => "SYS_ADMIN" \in roles),
                  {Does(<<"role", role>>, IF row.status = "PENDING_APPROVAL" THEN "ACTIVE" ELSE row.status)
                        : role \in {r \in RoleName : mayGrant(r)}}))
    \cup When("SYS_ADMIN" \in roles /\ row.status # Absent /\ "self" \notin row.ties,
              {Does(<<"deactivate">>, "INACTIVE")})

ArticleCalls(row, roles) ==
         When(row.status = "PUBLISHED", {Does(<<"feedback">>, "PUBLISHED")})
    \cup When(Has(roles, IT_ADMIN_ROLES),
             When(row.status = Absent, {Does(<<"write">>, "DRAFT")})
        \cup When(row.status # Absent, {Does(<<"save">>, row.status), Does(<<"archive">>, "ARCHIVED")})
        \cup When(row.status = "DRAFT", {Does(<<"publish">>, "PUBLISHED")}))

\* The calls the server accepts from a user with these roles.
Accepted(row, roles) ==
    CASE row.kind = "ticket"   -> TicketCalls(row, roles)
      [] row.kind = "request"  -> RequestCalls(row, roles)
      [] row.kind = "device"   -> DeviceCalls(row, roles)
      [] row.kind = "purchase" -> PurchaseCalls(row, roles)
      [] row.kind = "account"  -> AccountCalls(row, roles)
      [] row.kind = "article"  -> ArticleCalls(row, roles)

-----------------------------------------------------------------------------
(* Reading.                                                                *)

\* Who may read from a source, by the roles of its route.
Readers ==
    [source \in {"tickets", "my tickets", "ticket", "attachments", "requests", "device types",
                 "articles", "article", "notifications"} |-> RoleName] @@
    [source \in {"ticket stats", "overdue devices", "dashboard report"} |-> MANAGER_ROLES] @@
    [source \in {"purchases", "purchase"} |-> MANAGER_ROLES \cup {"FINANCE"}] @@
    [source \in {"devices", "accounts", "registrations", "ticket report"} |-> IT_ADMIN_ROLES]

\* Whether the row is in the answer to a user with these roles; asked says
\* that the request names a status.
Lists(source, asked, row, roles) ==
    CASE source \in {"tickets", "ticket"} -> InScope(row, roles)
      [] source = "my tickets"  -> "requester" \in row.ties
      [] source = "attachments" -> Has(roles, IT_ADMIN_ROLES) \/ row.ties \cap {"requester", "assignee"} # {}
      [] source = "requests"    ->
            \/ Has(roles, IT_ADMIN_ROLES)
            \/ IF "MANAGER" \in roles THEN asked \/ row.status = "PENDING_MANAGER_APPROVAL"
                                      ELSE "requester" \in row.ties
      [] source = "purchases"   ->
            \/ Has(roles, IT_ADMIN_ROLES)
            \/ row.status = (IF "MANAGER" \in roles THEN "PENDING_MANAGER_APPROVAL" ELSE "PENDING_FINANCE_APPROVAL")
      [] source \in {"articles", "article"} ->
            Has(roles, IT_ADMIN_ROLES \cup {"AGENT", "L2_L3"}) \/ row.status = "PUBLISHED"
      [] OTHER -> TRUE
=============================================================================
