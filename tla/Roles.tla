------------------------------- MODULE Roles --------------------------------
(***************************************************************************)
(* The accounts behind the requests and their roles (RoleName of the       *)
(* schema).  The guard of a route lets a user pass who has any one of the  *)
(* roles it names (auth/guards/roles.guard.ts).                            *)
(***************************************************************************)

CONSTANTS
    Users,      \* the users whose requests are modelled
    RolesOf     \* the roles of each user

RoleName == {"EMPLOYEE", "AGENT", "L2_L3", "MANAGER", "FINANCE", "IT_ADMIN", "SYS_ADMIN"}

HasRole(u, roles) == RolesOf[u] \cap roles # {}
=============================================================================
