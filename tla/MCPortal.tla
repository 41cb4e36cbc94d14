------------------------------ MODULE MCPortal ------------------------------
(* Small instances of Portal for TLC. *)
EXTENDS Portal

\* A viewer with these roles and ties, and a row in each of the statuses.
Scene(kind, statuses, roles, ties, moves, changes) ==
    {[row |-> [kind |-> kind, status |-> s, ties |-> ties], roles |-> roles, steps |-> moves, others |-> changes]
        : s \in statuses}

\* Every status, and one step.
Glances ==
         Scene("ticket", Status \cup {Absent}, {"EMPLOYEE"}, {"requester"}, 1, 0)
    \cup Scene("ticket", Status, {"AGENT"}, {"assignee"}, 1, 0)
    \cup Scene("ticket", {"NEW", "ASSIGNED", "RESOLVED", "CLOSED"}, {"IT_ADMIN"}, {}, 1, 0)
    \cup Scene("ticket", {"NEW", "RESOLVED"}, {"MANAGER"}, {"requester"}, 1, 0)
    \cup Scene("request", RequestStatus \cup {Absent}, {"EMPLOYEE"}, {"requester"}, 1, 0)
    \cup Scene("request", RequestStatus, {"MANAGER"}, {"report"}, 1, 0)
    \cup Scene("request", {"PENDING_MANAGER_APPROVAL"}, {"MANAGER"}, {}, 1, 0)
    \cup Scene("request", RequestStatus, {"IT_ADMIN"}, {}, 1, 0)
    \cup UNION {Scene("purchase", OrderStatus, {role}, {}, 1, 0) : role \in {"IT_ADMIN", "MANAGER", "FINANCE", "SYS_ADMIN"}}
    \cup Scene("purchase", {"PENDING_FINANCE_APPROVAL"}, {"FINANCE"}, {"first"}, 1, 0)
    \cup Scene("device", DeviceStatus \cup {Absent}, {"IT_ADMIN"}, {}, 1, 0)
    \cup Scene("account", UserStatus \cup {Absent}, {"IT_ADMIN"}, {}, 1, 0)
    \cup Scene("account", {"ACTIVE"}, {"IT_ADMIN"}, {"sysadmin"}, 1, 0)
    \cup Scene("account", {"ACTIVE"}, {"SYS_ADMIN"}, {"self", "sysadmin"}, 1, 0)
    \cup UNION {Scene("article", ArticleStatus \cup {Absent}, {role}, {}, 1, 0) : role \in {"IT_ADMIN", "AGENT", "EMPLOYEE"}}

\* One status each, with time for visits, clicks and what others do.
Visitings ==
         Scene("ticket", {"RESOLVED"}, {"EMPLOYEE"}, {"requester"}, 2, 0)
    \cup Scene("ticket", {"REOPENED"}, {"AGENT"}, {"assignee"}, 1, 1)
    \cup Scene("ticket", {"NEW"}, {"IT_ADMIN"}, {}, 1, 1)
    \cup Scene("request", {"PENDING_MANAGER_APPROVAL"}, {"MANAGER"}, {"report"}, 2, 1)
    \cup Scene("purchase", {"RAISED"}, {"IT_ADMIN"}, {}, 1, 1)
    \cup Scene("purchase", {Absent}, {"IT_ADMIN"}, {}, 1, 1)
    \cup Scene("purchase", {"ON_HOLD"}, {"SYS_ADMIN"}, {}, 1, 0)
    \cup Scene("device", {"AVAILABLE"}, {"IT_ADMIN"}, {}, 1, 1)
    \cup Scene("account", {"PENDING_APPROVAL"}, {"SYS_ADMIN"}, {}, 2, 0)
    \cup Scene("article", {"DRAFT"}, {"IT_ADMIN"}, {}, 1, 1)

AllScenes == Glances \cup Visitings

\* Every kind of row, with any ties, for viewers of any one role: what the
\* theorems about OwnWriteShown and OfferedIsAccepted ask of the pages.  Rows of
\* a requester are absent only for himself.
TiesOfKind == [ticket |-> {"requester", "assignee"}, request |-> {"requester", "report"}, purchase |-> {"first"},
               device |-> {}, account |-> {"self", "sysadmin"}, article |-> {}]

ASSUME PagesRefresh /\ PagesAgree
ASSUME \A kind \in DOMAIN TiesOfKind : \A ties \in SUBSET TiesOfKind[kind], role \in RoleName :
           LET employee == {"EMPLOYEE"}
               both == {{role}, employee}
               absent == kind \in {"ticket", "request"} => "requester" \in ties
           IN  /\ Refreshing(kind, ties, {role})
               /\ Agreeing(OpenTo({role}), kind, ties, {role}, {{role}})
               /\ Agreeing(LedTo(kind, ties, absent, employee, both), kind, ties, employee, both)
=============================================================================
