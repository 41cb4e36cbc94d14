----------------------------- MODULE MCHelpDesk -----------------------------
(***************************************************************************)
(* HelpDesk for TLC: an employee, an agent and an administrator.           *)
(***************************************************************************)
EXTENDS HelpDesk, TLC

CONSTANTS employee, agent, admin

MCRolesOf == [u \in Users |-> CASE u = employee -> {"EMPLOYEE"}
                                [] u = agent    -> {"AGENT"}
                                [] OTHER        -> {"IT_ADMIN"}]

SlotsAlike == Permutations(Requests)
WorkersAlike == Permutations(Workers)
Alike == SlotsAlike \cup WorkersAlike
=============================================================================
