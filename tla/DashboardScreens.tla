-------------------------- MODULE DashboardScreens --------------------------
(***************************************************************************)
(* The dashboard, of which a user sees the one part that his roles choose, *)
(* the reports, and the side bar all pages have.                           *)
(***************************************************************************)
EXTENDS Screens

Administrators == With(IT_ADMIN_ROLES)
Agents == With({"AGENT", "L2_L3"})
Managers == With({"MANAGER"})
Finance == With({"FINANCE"})

OpenStatuses == Status \ {"RESOLVED", "CLOSED", "CANCELLED"}

AdminDashboard ==
    Part({Query("reports-dashboard", "dashboard report", Status, 60),
          Query("reports-open-tickets", "ticket report", OpenStatuses, 60),
          Query("devices-overdue", "overdue devices", {"ALLOCATED"}, 300),
          Query("dashboard-prs", "purchases", OrderStatus, 60),
          AskedQuery("dashboard-pending-devices", "requests", {"PENDING_MANAGER_APPROVAL"}, 60)},
         {}, {RowLink("/tickets/:id", "reports-open-tickets", Status)})

AgentDashboard ==
    Part({Query("agent-tickets-dashboard", "tickets", Status, 60)}, {}, {Link("/agent/tickets")})

ManagerDashboard ==
    Part({AskedQuery("mgr-device-reqs", "requests", {"PENDING_MANAGER_APPROVAL"}, 60),
          Query("mgr-purch-reqs", "purchases", OrderStatus, 60),
          Query("mgr-own-tickets", "tickets", Status, 60)},
         {}, {Link("/manager/approvals"), Link("/tickets")})

FinanceDashboard ==
    Part({Query("finance-purch-reqs", "purchases", OrderStatus, 60)}, {}, {Link("/finance/approvals")})

EmployeeDashboard ==
    Part({Query("my-tickets-dashboard", "tickets", Status, 60),
          Query("my-device-reqs-dashboard", "requests", RequestStatus, 60)},
         {}, {Link("/tickets/new"), Link("/devices/request"), Link("/tickets")})

\* The first that applies, in this order.
DashboardPage ==
    LET none(sets) == Everybody \ UNION sets IN
    Page(<<For(Administrators, AdminDashboard),
           For(Agents \cap none({Administrators}), AgentDashboard),
           For(Managers \cap none({Administrators, Agents}), ManagerDashboard),
           For(Finance \cap none({Administrators, Agents, Managers}), FinanceDashboard),
           For(none({Administrators, Agents, Managers, Finance}), EmployeeDashboard)>>)

-----------------------------------------------------------------------------
(* Reports.  The overview shares its key with the dashboard.               *)

OverviewTab == Part({Query("reports-dashboard", "dashboard report", Status, 60)}, {}, {})
TicketReportTab == Part({Query("reports-tickets", "ticket report", Status, Never)}, {}, {})
ReportsPage == Together(OverviewTab, TicketReportTab)

-----------------------------------------------------------------------------
(* The side bar.                                                           *)

Item(page, viewers) == [Link(page) EXCEPT !.viewers = viewers]

TicketMenu ==
    {Item("/tickets", Everybody), Item("/tickets/new", Everybody),
     Item("/agent/tickets", Agents \cup Administrators), Item("/admin/tickets", With(MANAGER_ROLES))}

AssetMenu ==
    {Item("/devices/my-requests", Everybody), Item("/devices/request", Everybody),
     Item("/manager/approvals", With(MANAGER_ROLES)), Item("/finance/approvals", Finance)}
    \cup {Item(page, Administrators) : page \in {"/admin/devices", "/admin/devices/import",
                                                 "/admin/device-requests", "/admin/procurement"}}

ArticleMenu == {Item("/kb", Everybody), Item("/kb/new", Agents \cup Administrators)}

AdministrationMenu ==
    {Item(page, Administrators) : page \in {"/admin/pending-users", "/admin/users", "/admin/reports",
                                            "/admin/notifications"}}

Sidebar == {Item("/dashboard", Everybody)} \cup TicketMenu \cup AssetMenu \cup ArticleMenu \cup AdministrationMenu

\* The pages the side bar offers to somebody with these roles.
Menu(roles) == {item.path : item \in {i \in Sidebar : roles \in i.viewers}}
=============================================================================
