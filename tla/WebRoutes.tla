----------------------------- MODULE WebRoutes ------------------------------
(***************************************************************************)
(* The pages of the web client and who may open each (App.tsx,             *)
(* ProtectedRoute.tsx).                                                    *)
(***************************************************************************)
EXTENDS Roles

PublicPages == {"/login", "/register"}

\* A path nobody has a route for leads to the dashboard.
CatchAll == "/dashboard"

OpenPages == {"/dashboard", "/tickets", "/tickets/new", "/tickets/:id", "/kb", "/kb/:id",
              "/devices/request", "/devices/my-requests"}

IT_ADMIN_ROLES == {"IT_ADMIN", "SYS_ADMIN"}
MANAGER_ROLES == IT_ADMIN_ROLES \cup {"MANAGER"}
AGENT_ROLES == MANAGER_ROLES \cup {"AGENT", "L2_L3"}

ManagedPages == {"/admin/tickets", "/admin/assign/:id", "/manager/approvals"}
AgentPages == {"/agent/tickets", "/kb/new", "/kb/:id/edit"}
FinancePages == {"/finance/purchase-requests", "/finance/approvals"}
AdminPages == {"/admin/devices", "/admin/devices/import", "/admin/device-requests",
               "/admin/purchase-requests", "/admin/procurement", "/admin/pending-users",
               "/admin/users", "/admin/notifications", "/admin/reports"}

Pages == PublicPages \cup OpenPages \cup ManagedPages \cup AgentPages \cup FinancePages
             \cup AdminPages

\* The roles of which one is needed for a page.
RouteRoles == [page \in Pages |->
    CASE page \in ManagedPages -> MANAGER_ROLES
      [] page \in AgentPages   -> AGENT_ROLES
      [] page \in FinancePages -> {"FINANCE"}
      [] page \in AdminPages   -> IT_ADMIN_ROLES
      [] OTHER                 -> RoleName]

\* Where a user with these roles arrives who follows a link to path.
Arrives(path, roles) ==
    IF path \in Pages /\ (path \in PublicPages \cup OpenPages \/ roles \cap RouteRoles[path] # {})
        THEN path ELSE CatchAll
=============================================================================
