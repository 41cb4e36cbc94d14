------------------------------- MODULE Assets -------------------------------
(***************************************************************************)
(* The device desk and procurement together: an approved device request    *)
(* sets off the listener that may raise a purchase request, and a receipt  *)
(* puts a device into the register.  Specification and properties.         *)
(***************************************************************************)
EXTENDS Procurement

vars == <<device, request, alloc, call, faults, purchase, steps, receipts>>

Init == RegisterInit /\ PurchaseInit

RegisterStep(s) ==
    /\ (\E u \in Users : RegisterBegin(s, u)) \/ RegisterGoOn(s)
    /\ UNCHANGED purchaseVars

PurchaseStep(s) == (\E u \in Users : PurchaseBegin(s, u)) \/ PurchaseGoOn(s)

Next == \E s \in Slots : RegisterStep(s) \/ PurchaseStep(s)

Spec == Init /\ [][Next]_vars

-----------------------------------------------------------------------------
(* What overlapping handlers, hand edits and failures leave intact.        *)

PCs == {"free", "insert", "decide", "announce", "check device", "claim", "find", "return",
        "shortage", "raise", "edit", "submit", "duties", "approve", "order",
        "device id", "receive"}

Call == [pc: PCs, by: Users \cup {Nobody},
         q: 0..MaxRequests, d: 0..MaxDevices, p: 0..MaxPurchases,
         to: DeviceStatus \cup RequestStatus \cup PurchaseStatus \cup {"NONE"},
         stage: Stages \cup {"NONE"}, decision: Decisions \cup {"NONE"}]

\* Every variable stays in its type.
TypeOK ==
    /\ device \in [DeviceIds -> DeviceStatus \cup {NoDevice}]
    /\ request \in [RequestIds -> RequestRow \cup {NoRequest}]
    /\ alloc \in [RequestIds -> Allocation]
    /\ call \in [Slots -> Call]
    /\ faults \in Nat
    /\ purchase \in [PurchaseIds -> PurchaseRow \cup {NoPurchase}]
    /\ steps \subseteq Step
    /\ receipts \in [PurchaseIds -> Nat]

\* u approved the stage of purchase request p, and was entitled to.
Approved(u, p, stage) ==
    /\ [p |-> p, by |-> u, stage |-> stage, decision |-> "APPROVED"] \in steps
    /\ HasRole(u, {stage, "SYS_ADMIN"})

\* Two people entitled to it have approved p, the second of them for finance;
\* only a system administrator may have done both.
TwoApproved(p) ==
    \E m \in Users, f \in Users :
        /\ Approved(m, p, "MANAGER")
        /\ Approved(f, p, "FINANCE")
        /\ m # f \/ IsSysAdmin(f)

\* Nothing is ordered or received that two people have not approved, however
\* submissions, approvals and orders of it overlapped (approve, recordPo).
OrderedOnlyApproved ==
    \A p \in Purchases :
        purchase[p].status \in {"FINANCE_APPROVED", "PO_RAISED", "RECEIVED"} => TwoApproved(p)

\* A request that reads ALLOCATED has its device out, one that reads RETURNED
\* has given it back (allocate and recordReturn write both in one transaction),
\* whatever a stale decision makes of the other statuses.
StatusMatchesAllocation ==
    \A q \in Asked :
        /\ request[q].status = "ALLOCATED" => alloc[q].device \in Devices /\ ~alloc[q].returned
        /\ request[q].status = "RETURNED"  => alloc[q].device \in Devices /\ alloc[q].returned

\* The manager of the row is someone entitled to decide for its requester.
DecidedRightly(row) ==
    /\ row.manager \in Users
    /\ \/ IsAdmin(row.manager)
       \/ HasRole(row.manager, {"MANAGER"}) /\ ManagerOf[row.requester] \in {Nobody, row.manager}

\* No device goes out for a request nobody entitled has decided on
\* (makeDecision's roles and reporting manager, allocate's status check).
AllocatedAfterDecision ==
    \A q \in Asked : alloc[q] # Unallocated => DecidedRightly(request[q])

\* A request gets one device, once: the allocation never moves to another
\* device and a device given back for it does not go out for it again.
AllocatedOnce ==
    [][\A q \in RequestIds : alloc[q] # Unallocated =>
          /\ alloc'[q].device = alloc[q].device
          /\ alloc[q].returned => alloc'[q].returned]_vars

-----------------------------------------------------------------------------
(* What holds as long as handlers do not overlap and nobody sets a status  *)
(* by hand.                                                                *)

\* A device reads ALLOCATED exactly while one request has it, and no device is
\* out for two (allocate, recordReturn).
AllocatedIffHeld ==
    \A d \in DeviceIds :
        LET holders == {q \in Asked : Holds(q, d)} IN
        /\ (device[d] = "ALLOCATED") <=> (holders # {})
        /\ \A q, c \in holders : q = c

\* procurement.service.ts:307: nobody but a system administrator approves both
\* the manager and the finance stage of a purchase request.
SeparationOfDuties ==
    \A u \in Users, p \in Purchases :
        Approved(u, p, "MANAGER") /\ Approved(u, p, "FINANCE") => IsSysAdmin(u)

\* A purchase request brings one device into the register, and is RECEIVED
\* exactly when it has (recordReceipt).
OneDevicePerPurchase ==
    \A p \in Purchases : receipts[p] = IF purchase[p].status = "RECEIVED" THEN 1 ELSE 0

\* devices.service.ts:469: an approval that finds no stock ends with a purchase
\* request raised for the device request, unless the listener is cut off.
ShortageRaisesPurchase ==
    [][\A s \in Slots :
          call[s].pc \in {"shortage", "raise"} /\ call[s].q # 0 /\ call'[s].pc = "free" /\ faults' = faults
              => \E p \in PurchaseIds : purchase'[p] # NoPurchase /\ purchase'[p].for = call[s].q]_vars

\* The register seen from outside.
Register == INSTANCE AssetRegister
    WITH Items  <- DeviceIds,
         Claims <- RequestIds,
         known  <- Devices,
         held   <- {i \in DeviceIds \X RequestIds : Holds(i[2], i[1])},
         served <- {q \in RequestIds : alloc[q] # Unallocated}

ImplementsRegister == Register!ArSpec
=============================================================================
