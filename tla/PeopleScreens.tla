--------------------------- MODULE PeopleScreens ----------------------------
(***************************************************************************)
(* The pages about accounts and about the mails that were sent.            *)
(***************************************************************************)
EXTENDS Screens

SysAdmins == With({"SYS_ADMIN"})

\* The roles the page offers: SYS_ADMIN only to those who have it.
OfferedTo(role) == IF role = "SYS_ADMIN" THEN SysAdmins ELSE Everybody

CreateUserModal ==
    Part({}, {[Form(<<"create", role>>, {"admin-users"}, Stay) EXCEPT !.viewers = OfferedTo(role)]
                  : role \in RoleName}, {})

\* Locked on the viewer's own row, and on that of a system administrator for
\* all but system administrators.
AssignRole ==
    LET assign(role) == [Button(<<<<"role", role>>>>, "admin-users", UserStatus, {"admin-users", "pending-users"})
                             EXCEPT !.viewers = OfferedTo(role)] IN
    Part({}, {[assign(role) EXCEPT !.unless = {"self", "sysadmin"}] : role \in RoleName}
                 \cup {[assign(role) EXCEPT !.unless = {"self"}, !.viewers = SysAdmins] : role \in RoleName}, {})

Deactivate ==
    For(SysAdmins,
        Part({}, {[Button(<<<<"deactivate">>>>, "admin-users", UserStatus \ {"INACTIVE"}, {"admin-users"})
                       EXCEPT !.unless = {"self"}]}, {}))

\* The tabs ask for one account status each; the first asks for all.
AdminUsersPage ==
    Page(<<Part({Query("admin-users", "accounts", UserStatus, 30)}, {}, {}), CreateUserModal, AssignRole,
           Deactivate>>)

-----------------------------------------------------------------------------
(* Registrations.                                                          *)

ApprovePanel == Part({}, {Button(<<<<"admit">>>>, "pending-users", {"PENDING_APPROVAL"}, {"pending-users"})}, {})
RefusePanel == Part({}, {Button(<<<<"refuse">>>>, "pending-users", {"PENDING_APPROVAL"}, {"pending-users"})}, {})

AdminPendingUsersPage ==
    Page(<<Part({Query("pending-users", "registrations", {"PENDING_APPROVAL"}, 30)}, {}, {}), ApprovePanel,
           RefusePanel>>)

-----------------------------------------------------------------------------
(* Mails, and the public pages.                                            *)

AdminNotificationsPage == Part({Query("admin-notifications", "mail log", AnyStatus, 30)}, {}, {})

\* A signed-in user who opens the page is sent to the dashboard.
LoginPage == Part({}, {}, {Link("/register"), Link("/dashboard")})
RegisterPage == Part({}, {}, {Link("/login")})
=============================================================================
