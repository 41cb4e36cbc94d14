---------------------------- MODULE MCAccounts ------------------------------
(***************************************************************************)
(* Accounts for TLC: two system administrators and an address without an    *)
(* account.                                                                *)
(***************************************************************************)
EXTENDS Accounts, TLC

CONSTANTS root, chief, guest

MCRolesOf == [u \in Users |-> IF u \in Seeded THEN {"SYS_ADMIN"} ELSE {}]

\* Decisions on a registration that overlap; an account that is assigned roles
\* while it is pending; administrators who change one another; signing in with
\* a password, also to an account that awaits approval; the other ways to sign in.
MCOperations ==
    {{"register", "approve", "reject"},
     {"register", "create", "assign"},
     {"assign", "deactivate"},
     {"login", "register"},
     {"sso", "dev", "deactivate"}}

\* The two administrators are alike, and so are the slots.
Alike == Permutations({root, chief}) \cup Permutations(Slots)
=============================================================================
