------------------------------ MODULE MCAssets ------------------------------
(***************************************************************************)
(* Assets for TLC: chief manages and signs for finance, deputy does both   *)
(* and administers as well, root is the system administrator.              *)
(***************************************************************************)
EXTENDS Assets, TLC

CONSTANTS chief, deputy, root

MCRolesOf == [u \in Users |-> CASE u = chief  -> {"MANAGER", "FINANCE"}
                                [] u = deputy -> {"MANAGER", "FINANCE", "IT_ADMIN"}
                                [] OTHER      -> {"SYS_ADMIN"}]

\* The chief reports to the deputy, the deputy and root to nobody.
MCManagerOf == [u \in Users |-> IF u = chief /\ deputy \in Users THEN deputy ELSE Nobody]

SlotsAlike == Permutations(Slots)
=============================================================================
