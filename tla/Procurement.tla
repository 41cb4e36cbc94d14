---------------------------- MODULE Procurement -----------------------------
(***************************************************************************)
(* Purchase requests (procurement.service.ts): raised by an administrator, *)
(* or by the listener to an approved device request when there is no       *)
(* stock; approved by a manager, then by finance; ordered; received, which *)
(* puts a device into the register.  One action per database access; the   *)
(* listener runs on in the slot of the decision that has set it off.       *)
(*                                                                         *)
(* Vendors, costs and texts are left out, except whether the placeholder   *)
(* cost and budget code of a draft have been filled in.                    *)
(***************************************************************************)
EXTENDS DeviceDesk

CONSTANTS
    MaxSteps,       \* bound: approvals begin while fewer steps than this are recorded
    NoPurchase

\* MANAGER_APPROVED, in the schema, is never written.
PurchaseStatus == {"RAISED", "PENDING_MANAGER_APPROVAL", "PENDING_FINANCE_APPROVAL",
                   "FINANCE_APPROVED", "PO_RAISED", "RECEIVED", "REJECTED", "ON_HOLD"}

Decisions == {"APPROVED", "REJECTED", "ON_HOLD"}
Stages == {"MANAGER", "FINANCE", "SYS_ADMIN"}

VARIABLES
    purchase,   \* the purchase requests
    steps,      \* the approval steps recorded, none ever removed
    receipts    \* per purchase request, the devices created from it

purchaseVars == <<purchase, steps, receipts>>

\* for: the device request behind it, 0 if none; ready: cost and budget code set.
PurchaseRow == [status: PurchaseStatus, for: 0..MaxRequests, ready: BOOLEAN]
Step == [p: PurchaseIds, by: Users, stage: Stages, decision: Decisions]

ASSUME PurchaseAssumption == MaxSteps \in Nat /\ NoPurchase \notin PurchaseRow

Purchases == {p \in PurchaseIds : purchase[p] # NoPurchase}
IsSysAdmin(u) == HasRole(u, {"SYS_ADMIN"})

\* Seeded fault: the identifier is the greatest so far.
NextPurchaseIdRepeated == IF Purchases = {} THEN 1 ELSE Cardinality(Purchases)

\* The greatest identifier so far plus one, read without a lock.
NextPurchaseId == Cardinality(Purchases) + 1

-----------------------------------------------------------------------------
(* Raising.                                                                *)

\* POST /purchase-requests, for a device request or for none.
BeginPurchase(s, u, q) ==
    /\ CanBegin(s) /\ IsAdmin(u)
    /\ q = 0 \/ q \in Asked
    /\ NextPurchaseId \in PurchaseIds
    /\ Go(s, [Free EXCEPT !.pc = "raise", !.by = u, !.q = q, !.p = NextPurchaseId,
                          !.to = "PENDING_MANAGER_APPROVAL"])
    /\ UNCHANGED <<registerVars, purchaseVars, faults>>

\* The decision has been audited and mailed; the event is emitted, and the
\* listener looks for stock.
Announce(s) ==
    LET h == call[s] IN
    /\ h.pc = "announce"
    /\ Go(s, IF \E d \in Devices : device[d] = "AVAILABLE" THEN Free
             ELSE [h EXCEPT !.pc = "shortage"])
    /\ UNCHANGED <<registerVars, purchaseVars, faults>>

ListenerId(s) ==
    LET h == call[s] IN
    /\ h.pc = "shortage"
    /\ NextPurchaseId \in PurchaseIds
    /\ Go(s, [h EXCEPT !.pc = "raise", !.p = NextPurchaseId, !.to = "RAISED"])
    /\ UNCHANGED <<registerVars, purchaseVars, faults>>

\* A draft has placeholders; what an administrator enters goes into approval
\* unchecked.  Two callers may have read the same identifier: the second fails.
InsertPurchase(s) ==
    LET h == call[s] IN
    /\ h.pc = "raise"
    /\ IF purchase[h.p] = NoPurchase
         THEN \E filled \in BOOLEAN :
                /\ h.to = "RAISED" => ~filled
                /\ purchase' = [purchase EXCEPT ![h.p] =
                                  [status |-> h.to, for |-> h.q, ready |-> filled]]
         ELSE UNCHANGED purchase
    /\ Go(s, Free)
    /\ UNCHANGED <<registerVars, steps, receipts, faults>>

-----------------------------------------------------------------------------
(* Drafts.                                                                 *)

\* PATCH /purchase-requests/:id.
BeginEdit(s, u, p) ==
    /\ CanBegin(s) /\ IsAdmin(u)
    /\ p \in Purchases /\ purchase[p].status = "RAISED"
    /\ Go(s, [Free EXCEPT !.pc = "edit", !.by = u, !.p = p])
    /\ UNCHANGED <<registerVars, purchaseVars, faults>>

\* Cost and budget code may be set, and set back to the placeholders.
EditWrite(s) ==
    LET h == call[s] IN
    /\ h.pc = "edit"
    /\ \E b \in BOOLEAN : purchase' = [purchase EXCEPT ![h.p].ready = b]
    /\ Go(s, Free)
    /\ UNCHANGED <<registerVars, steps, receipts, faults>>

Submittable(p) == purchase[p].status = "RAISED" /\ purchase[p].ready

\* POST /purchase-requests/:id/submit.
BeginSubmit(s, u, p) ==
    /\ CanBegin(s) /\ IsAdmin(u)
    /\ p \in Purchases /\ Submittable(p)
    /\ Go(s, [Free EXCEPT !.pc = "submit", !.by = u, !.p = p])
    /\ UNCHANGED <<registerVars, purchaseVars, faults>>

SubmitWrite(s) ==
    LET h == call[s] IN
    /\ h.pc = "submit"
    /\ purchase' = [purchase EXCEPT ![h.p].status = "PENDING_MANAGER_APPROVAL"]
    /\ Go(s, Free)
    /\ UNCHANGED <<registerVars, steps, receipts, faults>>

-----------------------------------------------------------------------------
(* Approval.                                                               *)

\* The stage a status is at, and who decides at it.
StageOf(status) == CASE status = "PENDING_MANAGER_APPROVAL" -> "MANAGER"
                     [] status = "PENDING_FINANCE_APPROVAL" -> "FINANCE"
                     [] status = "ON_HOLD"                  -> "SYS_ADMIN"
                     [] OTHER                               -> "NONE"

MayApprove(u, stage) == HasRole(u, {stage, "SYS_ADMIN"})

\* What a decision at a stage makes of the request.
Decided(stage, decision) ==
    CASE decision = "REJECTED"                            -> "REJECTED"
      [] stage = "SYS_ADMIN" /\ decision # "REJECTED"     -> "PENDING_MANAGER_APPROVAL"
      [] stage # "SYS_ADMIN" /\ decision = "ON_HOLD"      -> "ON_HOLD"
      [] stage = "MANAGER" /\ decision = "APPROVED"       -> "PENDING_FINANCE_APPROVAL"
      [] stage = "FINANCE" /\ decision = "APPROVED"       -> "FINANCE_APPROVED"

\* POST /purchase-requests/:id/approve: read, the stage and its roles.
BeginApproval(s, u, p, decision) ==
    LET stage == StageOf(purchase[p].status) IN
    /\ CanBegin(s)
    /\ p \in Purchases
    /\ Cardinality(steps) < MaxSteps
    /\ stage \in Stages
    /\ MayApprove(u, stage)
    /\ Go(s, [Free EXCEPT !.pc = IF stage = "FINANCE" /\ ~IsSysAdmin(u)
                                 THEN "duties" ELSE "approve",
                          !.by = u, !.p = p, !.stage = stage, !.decision = decision,
                          !.to = Decided(stage, decision)])
    /\ UNCHANGED <<registerVars, purchaseVars, faults>>

\* Seeded fault: the same person may take both stages.
TookNoStage(u, p) == FALSE

\* A step of the manager stage, whatever its decision.
TookManagerStage(u, p) == \E e \in steps : e.p = p /\ e.by = u /\ e.stage = "MANAGER"

CheckDuties(s) ==
    LET h == call[s] IN
    /\ h.pc = "duties"
    /\ Go(s, IF TookManagerStage(h.by, h.p) THEN Free ELSE [h EXCEPT !.pc = "approve"])
    /\ UNCHANGED <<registerVars, purchaseVars, faults>>

\* One transaction: the step, and the status computed from the row read before.
ApproveWrite(s) ==
    LET h == call[s] IN
    /\ h.pc = "approve"
    /\ steps' = steps \cup {[p |-> h.p, by |-> h.by, stage |-> h.stage, decision |-> h.decision]}
    /\ purchase' = [purchase EXCEPT ![h.p].status = h.to]
    /\ Go(s, Free)
    /\ UNCHANGED <<registerVars, receipts, faults>>

-----------------------------------------------------------------------------
(* Order and receipt.                                                      *)

\* POST /purchase-requests/:id/po.
BeginOrder(s, u, p) ==
    /\ CanBegin(s) /\ IsAdmin(u)
    /\ p \in Purchases /\ purchase[p].status = "FINANCE_APPROVED"
    /\ Go(s, [Free EXCEPT !.pc = "order", !.by = u, !.p = p])
    /\ UNCHANGED <<registerVars, purchaseVars, faults>>

OrderWrite(s) ==
    LET h == call[s] IN
    /\ h.pc = "order"
    /\ purchase' = [purchase EXCEPT ![h.p].status = "PO_RAISED"]
    /\ Go(s, Free)
    /\ UNCHANGED <<registerVars, steps, receipts, faults>>

\* POST /purchase-requests/:id/receive: the request, the next device
\* identifier, and the device and the status in one transaction.
BeginReceipt(s, u, p) ==
    /\ CanBegin(s) /\ IsAdmin(u)
    /\ p \in Purchases /\ purchase[p].status = "PO_RAISED"
    /\ Go(s, [Free EXCEPT !.pc = "device id", !.by = u, !.p = p])
    /\ UNCHANGED <<registerVars, purchaseVars, faults>>

ReceiptId(s) ==
    LET h == call[s] IN
    /\ h.pc = "device id"
    /\ NextDeviceId \in DeviceIds
    /\ Go(s, [h EXCEPT !.pc = "receive", !.d = NextDeviceId])
    /\ UNCHANGED <<registerVars, purchaseVars, faults>>

\* Seeded fault: the purchase request stays open after the receipt.
ReceiveLeavingOrder(s) ==
    LET h == call[s] IN
    /\ h.pc = "receive"
    /\ IF device[h.d] = NoDevice
         THEN /\ device' = [device EXCEPT ![h.d] = "AVAILABLE"]
              /\ receipts' = [receipts EXCEPT ![h.p] = @ + 1]
         ELSE UNCHANGED <<device, receipts>>
    /\ Go(s, Free)
    /\ UNCHANGED <<request, alloc, purchase, steps, faults>>

ReceiveWrite(s) ==
    LET h == call[s] IN
    /\ h.pc = "receive"
    /\ IF device[h.d] = NoDevice
         THEN /\ device' = [device EXCEPT ![h.d] = "AVAILABLE"]
              /\ purchase' = [purchase EXCEPT ![h.p].status = "RECEIVED"]
              /\ receipts' = [receipts EXCEPT ![h.p] = @ + 1]
         ELSE UNCHANGED <<device, purchase, receipts>>
    /\ Go(s, Free)
    /\ UNCHANGED <<request, alloc, steps, faults>>

PurchaseInit ==
    /\ purchase = [p \in PurchaseIds |-> NoPurchase]
    /\ steps = {}
    /\ receipts = [p \in PurchaseIds |-> 0]

PurchaseBegin(s, u) ==
    \/ \E q \in 0..MaxRequests : BeginPurchase(s, u, q)
    \/ \E p \in PurchaseIds :
         \/ BeginEdit(s, u, p) \/ BeginSubmit(s, u, p)
         \/ \E decision \in Decisions : BeginApproval(s, u, p, decision)
         \/ BeginOrder(s, u, p) \/ BeginReceipt(s, u, p)

PurchaseGoOn(s) ==
    \/ Announce(s) \/ ListenerId(s) \/ InsertPurchase(s)
    \/ EditWrite(s) \/ SubmitWrite(s)
    \/ CheckDuties(s) \/ ApproveWrite(s)
    \/ OrderWrite(s)
    \/ ReceiptId(s) \/ ReceiveWrite(s)
=============================================================================
