--------------------------- MODULE Assets_proofs ----------------------------
(***************************************************************************)
(* Type correctness of Assets, and what it keeps however handlers overlap, *)
(* whatever is set by hand and whichever handlers are cut off; then what   *)
(* it keeps if they do not overlap.                                        *)
(***************************************************************************)
EXTENDS Assets, FiniteSetTheorems, TLAPS

(* What a handler knows of the rows it is about to write, by what it has read  *)
(* of the registered devices D, the requests R made (A), their allocations L,  *)
(* the purchase requests P and the steps S.                                    *)
KnowsIds(h) ==
    /\ h.pc = "insert"  => h.d \in DeviceIds /\ h.to \in DeviceStatus
    /\ h.pc = "raise"   => h.p \in PurchaseIds /\ h.to \in {"RAISED", "PENDING_MANAGER_APPROVAL"}
    /\ h.pc = "receive" => h.d \in DeviceIds

KnowsRequest(h, D, A, R, L) ==
    /\ h.pc = "decide" =>
         /\ h.q \in A /\ h.by \in Users /\ h.to \in {"PENDING_FULFILMENT", "REJECTED"}
         /\ MayDecide(h.by, R[h.q].requester)
    /\ h.pc \in {"check device", "claim"} =>
         h.q \in A /\ h.d \in D /\ DecidedRightly(R[h.q])
    /\ h.pc = "find" => h.d \in D
    /\ h.pc = "return" => h.q \in A /\ h.d \in D /\ L[h.q].device = h.d

ApprovedIn(S, u, p, stage) ==
    /\ [p |-> p, by |-> u, stage |-> stage, decision |-> "APPROVED"] \in S
    /\ HasRole(u, {stage, "SYS_ADMIN"})

\* Some manager has approved, and not the one who is about to sign for finance.
ManagerIn(S, p) == \E m \in Users : ApprovedIn(S, m, p, "MANAGER")
OtherManagerIn(S, p, u) == \E m \in Users : ApprovedIn(S, m, p, "MANAGER") /\ (m # u \/ IsSysAdmin(u))
TwoIn(S, p) == \E f \in Users : ApprovedIn(S, f, p, "FINANCE") /\ OtherManagerIn(S, p, f)

KnowsPurchase(h, P, S) ==
    /\ h.pc \in {"edit", "submit", "order", "device id", "receive", "duties", "approve"} => h.p \in P
    /\ h.pc \in {"order", "device id", "receive"} => TwoIn(S, h.p)
    /\ h.pc \in {"duties", "approve"} =>
         /\ h.by \in Users /\ h.stage \in Stages /\ h.decision \in Decisions
         /\ h.to = Decided(h.stage, h.decision)
         /\ HasRole(h.by, {h.stage, "SYS_ADMIN"})
    /\ h.pc = "duties" => h.stage = "FINANCE" /\ ManagerIn(S, h.p)
    /\ h.pc = "approve" /\ h.stage = "FINANCE" => OtherManagerIn(S, h.p, h.by)

Knows(h, D, A, R, L, P, S) ==
    /\ KnowsIds(h)
    /\ KnowsRequest(h, D, A, R, L)
    /\ KnowsPurchase(h, P, S)

InHand ==
    \A s \in Slots : Knows(call[s], Devices, Asked, request, alloc, Purchases, steps)

(* What the rows say of one another.                                           *)
RequestRows ==
    \A q \in RequestIds :
        /\ alloc[q] # Unallocated => q \in Asked /\ alloc[q].device \in Devices
        /\ q \in Asked /\ request[q].status = "PENDING_FULFILMENT" => DecidedRightly(request[q])

PurchaseRows ==
    \A p \in Purchases :
        purchase[p].status = "PENDING_FINANCE_APPROVAL" => ManagerIn(steps, p)

Safe ==
    /\ TypeOK
    /\ InHand
    /\ RequestRows /\ PurchaseRows
    /\ StatusMatchesAllocation /\ AllocatedAfterDecision /\ OrderedOnlyApproved

-----------------------------------------------------------------------------
(* The steps.                                                                  *)

\* A step that only reads: the tables are unchanged.
Looked == UNCHANGED <<device, request, alloc, purchase, steps, receipts>>

\* Each step reads, or is one of the twelve writes.
LEMMA StepKinds ==
    ASSUME [Next]_vars
    PROVE  \/ Looked
           \/ \E s \in Slots :
                \/ InsertDevice(s) /\ UNCHANGED purchaseVars
                \/ \E u \in Users, d \in DeviceIds, to \in HandStatuses :
                     EditDevice(s, u, d, to) /\ UNCHANGED purchaseVars
                \/ \E u \in Users, q \in RequestIds : Ask(s, u, q) /\ UNCHANGED purchaseVars
                \/ DecisionWrite(s) /\ UNCHANGED purchaseVars
                \/ ClaimDevice(s) /\ UNCHANGED purchaseVars
                \/ ReturnWrite(s) /\ UNCHANGED purchaseVars
                \/ InsertPurchase(s) \/ EditWrite(s) \/ SubmitWrite(s)
                \/ ApproveWrite(s) \/ OrderWrite(s) \/ ReceiveWrite(s)
<1>1. CASE UNCHANGED vars
  BY <1>1 DEF vars, Looked
<1>2. ASSUME NEW s \in Slots, NEW u \in Users, RegisterBegin(s, u), UNCHANGED purchaseVars
      PROVE  \/ Looked
             \/ \E d \in DeviceIds, to \in HandStatuses : EditDevice(s, u, d, to)
             \/ \E q \in RequestIds : Ask(s, u, q)
  <2>1. ASSUME NEW to, BeginDevice(s, u, to) PROVE Looked
    BY <1>2, <2>1 DEF BeginDevice, Looked, registerVars, purchaseVars
  <2>2. ASSUME NEW q, NEW to, BeginDecision(s, u, q, to) PROVE Looked
    BY <1>2, <2>2 DEF BeginDecision, Looked, registerVars, purchaseVars
  <2>3. ASSUME NEW q, NEW d, BeginAllocation(s, u, q, d) PROVE Looked
    BY <1>2, <2>3 DEF BeginAllocation, Looked, registerVars, purchaseVars
  <2>4. ASSUME NEW d, BeginReturn(s, u, d) PROVE Looked
    BY <1>2, <2>4 DEF BeginReturn, Looked, registerVars, purchaseVars
  <2>5. QED BY <1>2, <2>1, <2>2, <2>3, <2>4 DEF RegisterBegin
<1>3. ASSUME NEW s \in Slots, RegisterGoOn(s), UNCHANGED purchaseVars
      PROVE  Looked \/ InsertDevice(s) \/ DecisionWrite(s) \/ ClaimDevice(s) \/ ReturnWrite(s)
  <2>1. CheckDevice(s) => Looked
    BY <1>3 DEF CheckDevice, Looked, registerVars, purchaseVars
  <2>2. FindAllocation(s) => Looked
    BY <1>3 DEF FindAllocation, Looked, registerVars, purchaseVars
  <2>3. CutOff(s) => Looked
    BY <1>3 DEF CutOff, Looked, registerVars, purchaseVars
  <2>4. QED BY <1>3, <2>1, <2>2, <2>3 DEF RegisterGoOn
<1>4. ASSUME NEW s \in Slots, NEW u \in Users, PurchaseBegin(s, u) PROVE Looked
  <2>1. ASSUME NEW q, BeginPurchase(s, u, q) PROVE Looked
    BY <2>1 DEF BeginPurchase, Looked, registerVars, purchaseVars
  <2>2. ASSUME NEW p, BeginEdit(s, u, p) \/ BeginSubmit(s, u, p) PROVE Looked
    BY <2>2 DEF BeginEdit, BeginSubmit, Looked, registerVars, purchaseVars
  <2>3. ASSUME NEW p, NEW decision, BeginApproval(s, u, p, decision) PROVE Looked
    BY <2>3 DEF BeginApproval, Looked, registerVars, purchaseVars
  <2>4. ASSUME NEW p, BeginOrder(s, u, p) \/ BeginReceipt(s, u, p) PROVE Looked
    BY <2>4 DEF BeginOrder, BeginReceipt, Looked, registerVars, purchaseVars
  <2>5. QED BY <1>4, <2>1, <2>2, <2>3, <2>4 DEF PurchaseBegin
<1>5. ASSUME NEW s \in Slots, PurchaseGoOn(s)
      PROVE  \/ Looked \/ InsertPurchase(s) \/ EditWrite(s) \/ SubmitWrite(s)
             \/ ApproveWrite(s) \/ OrderWrite(s) \/ ReceiveWrite(s)
  <2>1. Announce(s) => Looked
    BY DEF Announce, Looked, registerVars, purchaseVars
  <2>2. ListenerId(s) \/ ReceiptId(s) => Looked
    BY DEF ListenerId, ReceiptId, Looked, registerVars, purchaseVars
  <2>3. CheckDuties(s) => Looked
    BY DEF CheckDuties, Looked, registerVars, purchaseVars
  <2>4. QED BY <1>5, <2>1, <2>2, <2>3 DEF PurchaseGoOn
<1>6. QED BY <1>1, <1>2, <1>3, <1>4, <1>5 DEF Next, RegisterStep, PurchaseStep

(* What no step takes back: rows stay, steps stay, a request keeps its         *)
(* requester and a decision, once right, is only replaced by a right one, and  *)
(* an allocation keeps its device.                                             *)
Lasts ==
    /\ Devices \subseteq Devices' /\ Asked \subseteq Asked' /\ Purchases \subseteq Purchases'
    /\ steps \subseteq steps'
    /\ \A q \in Asked : /\ request'[q].requester = request[q].requester
                        /\ DecidedRightly(request[q]) => DecidedRightly(request'[q])
    /\ \A q \in RequestIds : alloc[q] # Unallocated => alloc'[q].device = alloc[q].device

(* Someone who passed the check of makeDecision decides rightly.               *)
LEMMA RightDecision ==
    ASSUME NEW u \in Users, NEW requester, MayDecide(u, requester), NEW row,
           row.manager = u, row.requester = requester
    PROVE  DecidedRightly(row)
BY DEF MayDecide, DecidedRightly, IsAdmin, HasRole

\* What the nine decisions come to.
LEMMA DecidedValues ==
    ASSUME NEW stage \in Stages, NEW decision \in Decisions
    PROVE  /\ Decided(stage, decision) \in
                {"PENDING_MANAGER_APPROVAL", "REJECTED", "ON_HOLD",
                 "PENDING_FINANCE_APPROVAL", "FINANCE_APPROVED"}
           /\ Decided(stage, decision) = "PENDING_FINANCE_APPROVAL" =>
                stage = "MANAGER" /\ decision = "APPROVED"
           /\ Decided(stage, decision) = "FINANCE_APPROVED" =>
                stage = "FINANCE" /\ decision = "APPROVED"
<1>1. CASE decision = "REJECTED"
  BY <1>1 DEF Decided
<1>2. CASE stage = "SYS_ADMIN" /\ decision # "REJECTED"
  BY <1>2 DEF Decided
<1>3. CASE stage # "SYS_ADMIN" /\ decision = "ON_HOLD"
  BY <1>3 DEF Decided
<1>4. CASE stage = "MANAGER" /\ decision = "APPROVED"
  BY <1>4 DEF Decided
<1>5. CASE stage = "FINANCE" /\ decision = "APPROVED"
  BY <1>5 DEF Decided
<1>6. QED BY <1>1, <1>2, <1>3, <1>4, <1>5 DEF Stages, Decisions

-----------------------------------------------------------------------------
(* The tables.                                                                 *)
\* Every step leaves the tables in their types and takes nothing back.
LEMMA TablesStep ==
    ASSUME TypeOK, InHand, [Next]_vars
    PROVE  /\ device' \in [DeviceIds -> DeviceStatus \cup {NoDevice}]
           /\ request' \in [RequestIds -> RequestRow \cup {NoRequest}]
           /\ alloc' \in [RequestIds -> Allocation]
           /\ purchase' \in [PurchaseIds -> PurchaseRow \cup {NoPurchase}]
           /\ steps' \subseteq Step
           /\ receipts' \in [PurchaseIds -> Nat]
           /\ Lasts
<1> DEFINE Goal == /\ device' \in [DeviceIds -> DeviceStatus \cup {NoDevice}]
                   /\ request' \in [RequestIds -> RequestRow \cup {NoRequest}]
                   /\ alloc' \in [RequestIds -> Allocation]
                   /\ purchase' \in [PurchaseIds -> PurchaseRow \cup {NoPurchase}]
                   /\ steps' \subseteq Step
                   /\ receipts' \in [PurchaseIds -> Nat]
                   /\ Lasts
<1> USE DEF Devices, Asked, Purchases
<1>t. /\ device \in [DeviceIds -> DeviceStatus \cup {NoDevice}]
      /\ request \in [RequestIds -> RequestRow \cup {NoRequest}]
      /\ alloc \in [RequestIds -> Allocation]
      /\ purchase \in [PurchaseIds -> PurchaseRow \cup {NoPurchase}]
      /\ steps \subseteq Step
      /\ receipts \in [PurchaseIds -> Nat]
      /\ NoDevice \notin DeviceStatus /\ NoRequest \notin RequestRow /\ NoPurchase \notin PurchaseRow
      /\ "AVAILABLE" \in DeviceStatus /\ "ALLOCATED" \in DeviceStatus
      /\ HandStatuses \subseteq DeviceStatus
  BY AssetBounds, AssetRowsAssumption, PurchaseAssumption DEF TypeOK, DeviceStatus
<1>k. \A s \in Slots : Knows(call[s], Devices, Asked, request, alloc, Purchases, steps)
  BY DEF InHand
<1>1. CASE Looked
  BY <1>1, <1>t DEF Looked, Lasts
<1>2. ASSUME NEW s \in Slots, UNCHANGED <<request, alloc, purchase, steps, receipts>>,
             NEW d \in DeviceIds, NEW to \in DeviceStatus, device' = [device EXCEPT ![d] = to]
      PROVE  Goal
  BY <1>2, <1>t DEF Lasts
<1>3. ASSUME NEW s \in Slots, InsertDevice(s), UNCHANGED purchaseVars PROVE Goal
  <2>1. call[s].d \in DeviceIds /\ call[s].to \in DeviceStatus
    BY <1>3, <1>k DEF InsertDevice, Knows, KnowsIds
  <2>2. UNCHANGED <<request, alloc, purchase, steps, receipts>>
    BY <1>3 DEF InsertDevice, purchaseVars
  <2>3. CASE device' = device
    BY <2>2, <2>3, <1>1 DEF Looked
  <2>4. CASE device' = [device EXCEPT ![call[s].d] = call[s].to]
    BY <2>1, <2>2, <2>4, <1>2
  <2>5. QED BY <1>3, <2>3, <2>4 DEF InsertDevice
<1>4. ASSUME NEW s \in Slots, NEW u \in Users, NEW d \in DeviceIds, NEW to \in HandStatuses,
             EditDevice(s, u, d, to), UNCHANGED purchaseVars
      PROVE  Goal
  BY <1>4, <1>2, <1>t DEF EditDevice, purchaseVars
<1>5. ASSUME NEW s \in Slots, NEW u \in Users, NEW q \in RequestIds,
             Ask(s, u, q), UNCHANGED purchaseVars
      PROVE  Goal
  <2>1. q \notin Asked
    BY <1>5 DEF Ask
  <2>2. QED BY <1>5, <2>1, <1>t DEF Ask, purchaseVars, Lasts, RequestRow, RequestStatus
<1>6. ASSUME NEW s \in Slots, DecisionWrite(s), UNCHANGED purchaseVars PROVE Goal
  <2> DEFINE h == call[s]
  <2>1. /\ h.q \in Asked /\ h.by \in Users /\ h.to \in {"PENDING_FULFILMENT", "REJECTED"}
        /\ MayDecide(h.by, request[h.q].requester)
    BY <1>6, <1>k DEF DecisionWrite, Knows, KnowsRequest
  <2>2. request[h.q] \in RequestRow
    BY <2>1, <1>t
  <2>3. /\ request' = [request EXCEPT ![h.q].status = h.to, ![h.q].manager = h.by]
        /\ UNCHANGED <<device, alloc, purchase, steps, receipts>>
    BY <1>6 DEF DecisionWrite, purchaseVars
  <2>4. /\ request'[h.q] = [request[h.q] EXCEPT !.status = h.to, !.manager = h.by]
        /\ \A q \in RequestIds \ {h.q} : request'[q] = request[q]
        /\ DOMAIN request' = RequestIds
    BY <2>1, <2>3, <1>t
  <2>5. /\ request'[h.q] \in RequestRow
        /\ request'[h.q].manager = h.by /\ request'[h.q].requester = request[h.q].requester
    BY <2>1, <2>2, <2>4 DEF RequestRow, RequestStatus
  <2>6. DecidedRightly(request'[h.q])
    BY <2>1, <2>5, RightDecision
  <2>7. request' \in [RequestIds -> RequestRow \cup {NoRequest}]
    BY <2>1, <2>2, <2>3, <2>5, <1>t DEF RequestRow
  <2> HIDE DEF h
  <2>8. QED BY <2>1, <2>3, <2>4, <2>5, <2>6, <2>7, <1>t DEF Lasts
<1>7. ASSUME NEW s \in Slots, ClaimDevice(s), UNCHANGED purchaseVars PROVE Goal
  <2> DEFINE h == call[s]
  <2>1. h.q \in Asked /\ h.d \in Devices
    BY <1>7, <1>k DEF ClaimDevice, Knows, KnowsRequest
  <2>2. CASE Looked
    BY <2>2, <1>1
  <2>3. CASE ~Looked
    <3>1. /\ alloc[h.q] = Unallocated
          /\ device' = [device EXCEPT ![h.d] = "ALLOCATED"]
          /\ alloc' = [alloc EXCEPT ![h.q] = [device |-> h.d, returned |-> FALSE]]
          /\ request' = [request EXCEPT ![h.q].status = "ALLOCATED"]
          /\ UNCHANGED <<purchase, steps, receipts>>
      BY <1>7, <2>3 DEF ClaimDevice, Claimable, purchaseVars, registerVars, Looked
    <3>2. request'[h.q] = [request[h.q] EXCEPT !.status = "ALLOCATED"] /\ request[h.q] \in RequestRow
      BY <2>1, <3>1, <1>t
    <3>3. /\ request'[h.q] \in RequestRow
          /\ request'[h.q].requester = request[h.q].requester
          /\ request'[h.q].manager = request[h.q].manager
      BY <3>2 DEF RequestRow, RequestStatus
    <3>4. alloc' \in [RequestIds -> Allocation]
      BY <2>1, <3>1, <1>t DEF Allocation, DeviceIds
    <3>5. DecidedRightly(request[h.q]) => DecidedRightly(request'[h.q])
      BY <3>3 DEF DecidedRightly
    <3> HIDE DEF h
    <3>6. QED BY <2>1, <3>1, <3>3, <3>4, <3>5, <1>t DEF Lasts
  <2>4. QED BY <2>2, <2>3
<1>8. ASSUME NEW s \in Slots, ReturnWrite(s), UNCHANGED purchaseVars PROVE Goal
  <2> DEFINE h == call[s]
  <2>1. h.q \in Asked /\ h.d \in Devices
    BY <1>8, <1>k DEF ReturnWrite, Knows, KnowsRequest
  <2>2. /\ device' = [device EXCEPT ![h.d] = "AVAILABLE"]
        /\ alloc' = [alloc EXCEPT ![h.q].returned = TRUE]
        /\ request' = [request EXCEPT ![h.q].status = "RETURNED"]
        /\ UNCHANGED <<purchase, steps, receipts>>
    BY <1>8 DEF ReturnWrite, purchaseVars
  <2>3. request'[h.q] = [request[h.q] EXCEPT !.status = "RETURNED"] /\ request[h.q] \in RequestRow
    BY <2>1, <2>2, <1>t
  <2>4. /\ request'[h.q] \in RequestRow
        /\ request'[h.q].requester = request[h.q].requester
        /\ request'[h.q].manager = request[h.q].manager
    BY <2>3 DEF RequestRow, RequestStatus
  <2>5. alloc[h.q] \in Allocation /\ alloc'[h.q] = [alloc[h.q] EXCEPT !.returned = TRUE]
    BY <2>1, <2>2, <1>t
  <2>6. alloc'[h.q] \in Allocation /\ alloc'[h.q].device = alloc[h.q].device
    BY <2>5 DEF Allocation
  <2>7. alloc' \in [RequestIds -> Allocation]
    BY <2>1, <2>2, <2>5, <2>6, <1>t
  <2>8. DecidedRightly(request[h.q]) => DecidedRightly(request'[h.q])
    BY <2>4 DEF DecidedRightly
  <2> HIDE DEF h
  <2>9. QED BY <2>1, <2>2, <2>4, <2>6, <2>7, <2>8, <1>t DEF Lasts
<1>9. ASSUME NEW s \in Slots, InsertPurchase(s) PROVE Goal
  <2> DEFINE h == call[s]
  <2>1. /\ h.p \in PurchaseIds /\ h.to \in {"RAISED", "PENDING_MANAGER_APPROVAL"}
        /\ h.q \in 0..MaxRequests
    BY <1>9, <1>k DEF InsertPurchase, Knows, KnowsIds, TypeOK, Call
  <2>2. CASE Looked
    BY <2>2, <1>1
  <2>3. CASE ~Looked
    <3>1. PICK filled \in BOOLEAN :
                purchase' = [purchase EXCEPT ![h.p] =
                               [status |-> h.to, for |-> h.q, ready |-> filled]]
      BY <1>9, <2>3 DEF InsertPurchase, registerVars, Looked
    <3>u. UNCHANGED <<device, request, alloc, steps, receipts>>
      BY <1>9 DEF InsertPurchase, registerVars
    <3>2. [status |-> h.to, for |-> h.q, ready |-> filled] \in PurchaseRow
      BY <2>1 DEF PurchaseRow, PurchaseStatus
    <3> HIDE DEF h
    <3>3. QED BY <2>1, <3>1, <3>u, <3>2, <1>t DEF Lasts
  <2>4. QED BY <2>2, <2>3
<1>a. ASSUME NEW p \in Purchases, NEW row \in PurchaseRow, purchase' = [purchase EXCEPT ![p] = row],
             UNCHANGED <<device, request, alloc, steps, receipts>>
      PROVE  Goal
  BY <1>a, <1>t DEF Lasts
<1>b. ASSUME NEW p \in Purchases, NEW to \in PurchaseStatus
      PROVE  [purchase[p] EXCEPT !.status = to] \in PurchaseRow
  BY <1>t DEF PurchaseRow
<1>c. ASSUME NEW s \in Slots,
             call[s].pc \in {"edit", "submit", "order", "device id", "receive", "duties", "approve"}
      PROVE  call[s].p \in Purchases
  BY <1>c, <1>k DEF Knows, KnowsPurchase
<1>10. ASSUME NEW s \in Slots, EditWrite(s) PROVE Goal
  <2>1. call[s].p \in Purchases
    BY <1>10, <1>c DEF EditWrite
  <2>2. PICK b \in BOOLEAN : purchase' = [purchase EXCEPT ![call[s].p].ready = b]
    BY <1>10 DEF EditWrite
  <2>3. [purchase[call[s].p] EXCEPT !.ready = b] \in PurchaseRow
    BY <2>1, <1>t DEF PurchaseRow
  <2>4. UNCHANGED <<device, request, alloc, steps, receipts>>
    BY <1>10 DEF EditWrite, registerVars
  <2>5. purchase' = [purchase EXCEPT ![call[s].p] = [purchase[call[s].p] EXCEPT !.ready = b]]
    BY <2>2
  <2>6. QED BY <2>1, <2>3, <2>4, <2>5, <1>a
<1>11. ASSUME NEW s \in Slots, SubmitWrite(s) \/ OrderWrite(s) PROVE Goal
  <2>1. call[s].p \in Purchases
    BY <1>11, <1>c DEF SubmitWrite, OrderWrite
  <2>2. UNCHANGED <<device, request, alloc, steps, receipts>>
    BY <1>11 DEF SubmitWrite, OrderWrite, registerVars
  <2>3. PICK to \in {"PENDING_MANAGER_APPROVAL", "PO_RAISED"} :
             purchase' = [purchase EXCEPT ![call[s].p].status = to]
    BY <1>11 DEF SubmitWrite, OrderWrite
  <2>4. purchase' = [purchase EXCEPT ![call[s].p] = [purchase[call[s].p] EXCEPT !.status = to]]
    BY <2>3
  <2>5. [purchase[call[s].p] EXCEPT !.status = to] \in PurchaseRow
    BY <2>1, <1>b DEF PurchaseStatus
  <2>6. QED BY <2>1, <2>2, <2>4, <2>5, <1>a
<1>12. ASSUME NEW s \in Slots, ApproveWrite(s) PROVE Goal
  <2> DEFINE h == call[s]
  <2>1. h.p \in Purchases /\ h.by \in Users /\ h.stage \in Stages /\ h.decision \in Decisions
    BY <1>12, <1>c, <1>k DEF ApproveWrite, Knows, KnowsPurchase
  <2>2. h.to \in PurchaseStatus
    <3>1. h.to = Decided(h.stage, h.decision)
      BY <1>12, <1>k DEF ApproveWrite, Knows, KnowsPurchase
    <3> HIDE DEF h
    <3>2. QED BY <2>1, <3>1, DecidedValues DEF PurchaseStatus
  <2>3. /\ purchase' = [purchase EXCEPT ![h.p].status = h.to]
        /\ steps' = steps \cup {[p |-> h.p, by |-> h.by, stage |-> h.stage, decision |-> h.decision]}
        /\ UNCHANGED <<device, request, alloc, receipts>>
    BY <1>12 DEF ApproveWrite, registerVars
  <2>4. steps' \subseteq Step /\ steps \subseteq steps'
    BY <2>1, <2>3, <1>t DEF Step
  <2>5. [purchase[h.p] EXCEPT !.status = h.to] \in PurchaseRow
    BY <2>1, <2>2, <1>b
  <2>6. purchase' = [purchase EXCEPT ![h.p] = [purchase[h.p] EXCEPT !.status = h.to]]
    BY <2>3
  <2> HIDE DEF h
  <2>7. QED BY <2>1, <2>3, <2>4, <2>5, <2>6, <1>t DEF Lasts
<1>13. ASSUME NEW s \in Slots, ReceiveWrite(s) PROVE Goal
  <2> DEFINE h == call[s]
  <2>1. h.p \in Purchases /\ h.d \in DeviceIds
    BY <1>13, <1>c, <1>k DEF ReceiveWrite, Knows, KnowsIds
  <2>2. CASE Looked
    BY <2>2, <1>1
  <2>3. CASE ~Looked
    <3>1. /\ device' = [device EXCEPT ![h.d] = "AVAILABLE"]
          /\ purchase' = [purchase EXCEPT ![h.p].status = "RECEIVED"]
          /\ receipts' = [receipts EXCEPT ![h.p] = @ + 1]
          /\ UNCHANGED <<request, alloc, steps>>
      BY <1>13, <2>3 DEF ReceiveWrite, Looked
    <3>2. [purchase[h.p] EXCEPT !.status = "RECEIVED"] \in PurchaseRow
      BY <2>1, <1>b DEF PurchaseStatus
    <3>3. purchase' = [purchase EXCEPT ![h.p] = [purchase[h.p] EXCEPT !.status = "RECEIVED"]]
      BY <3>1
    <3>4. receipts' \in [PurchaseIds -> Nat]
      BY <2>1, <3>1, <1>t
    <3> HIDE DEF h
    <3>5. QED BY <2>1, <3>1, <3>2, <3>3, <3>4, <1>t DEF Lasts
  <2>4. QED BY <2>2, <2>3
<1>14. QED BY StepKinds, <1>1, <1>3, <1>4, <1>5, <1>6, <1>7, <1>8, <1>9, <1>10, <1>11, <1>12, <1>13

-----------------------------------------------------------------------------
(* Requests and allocations.                                                   *)

\* What a step makes of request q: nothing; a new row; a decision; an allocation
\* by someone who saw it decided; a return.
RequestChange(q) ==
    \/ request'[q] = request[q] /\ alloc'[q] = alloc[q]
    \/ /\ q \notin Asked /\ alloc'[q] = alloc[q]
       /\ request'[q].status = "PENDING_MANAGER_APPROVAL"
    \/ /\ q \in Asked /\ alloc'[q] = alloc[q]
       /\ request'[q].status \in {"PENDING_FULFILMENT", "REJECTED"}
       /\ DecidedRightly(request'[q])
    \/ /\ q \in Asked /\ request'[q].status = "ALLOCATED" /\ DecidedRightly(request'[q])
       /\ alloc[q] = Unallocated
       /\ alloc'[q].device \in Devices /\ ~alloc'[q].returned
    \/ /\ q \in Asked /\ request'[q].status = "RETURNED"
       /\ DecidedRightly(request[q]) => DecidedRightly(request'[q])
       /\ alloc[q] # Unallocated
       /\ alloc'[q].device \in Devices /\ alloc'[q].returned

\* Nothing else becomes of a request.
LEMMA RequestSteps ==
    ASSUME TypeOK, InHand, [Next]_vars, NEW q \in RequestIds
    PROVE  RequestChange(q)
<1>t. /\ request \in [RequestIds -> RequestRow \cup {NoRequest}]
      /\ alloc \in [RequestIds -> Allocation]
      /\ NoRequest \notin RequestRow
      /\ Asked \subseteq RequestIds
      /\ \A c \in Asked : request[c] \in RequestRow
      /\ \A d \in Devices : d # 0
  BY AssetRowsAssumption DEF TypeOK, Asked, Devices, DeviceIds
<1>k. \A s \in Slots : Knows(call[s], Devices, Asked, request, alloc, Purchases, steps)
  BY DEF InHand
<1>l. Lasts
  BY TablesStep
<1>1. CASE UNCHANGED <<request, alloc>>
  BY <1>1 DEF RequestChange
<1>2. ASSUME NEW s \in Slots, NEW u \in Users, NEW c \in RequestIds, Ask(s, u, c)
      PROVE  RequestChange(q)
  BY <1>2, <1>t DEF Ask, RequestChange
<1>3. ASSUME NEW s \in Slots, DecisionWrite(s) PROVE RequestChange(q)
  <2> DEFINE h == call[s]
  <2>1. /\ h.q \in Asked /\ h.by \in Users /\ h.to \in {"PENDING_FULFILMENT", "REJECTED"}
        /\ MayDecide(h.by, request[h.q].requester)
    BY <1>3, <1>k DEF DecisionWrite, Knows, KnowsRequest
  <2>2. /\ request' = [request EXCEPT ![h.q].status = h.to, ![h.q].manager = h.by]
        /\ alloc' = alloc
    BY <1>3 DEF DecisionWrite
  <2>3. q # h.q => request'[q] = request[q]
    BY <2>2, <1>t
  <2>4. request'[h.q] = [request[h.q] EXCEPT !.status = h.to, !.manager = h.by]
    BY <2>1, <2>2, <1>t
  <2>5. /\ request'[h.q].status = h.to /\ request'[h.q].manager = h.by
        /\ request'[h.q].requester = request[h.q].requester
    BY <2>1, <2>4, <1>t DEF RequestRow
  <2>6. DecidedRightly(request'[h.q])
    BY <2>1, <2>5, RightDecision
  <2> HIDE DEF h
  <2>7. QED BY <2>1, <2>2, <2>3, <2>5, <2>6 DEF RequestChange
<1>4. ASSUME NEW s \in Slots, ClaimDevice(s) PROVE RequestChange(q)
  <2> DEFINE h == call[s]
  <2>1. h.q \in Asked /\ h.d \in Devices /\ DecidedRightly(request[h.q])
    BY <1>4, <1>k DEF ClaimDevice, Knows, KnowsRequest
  <2>2. CASE UNCHANGED registerVars
    BY <2>2, <1>1 DEF registerVars
  <2>3. CASE ~UNCHANGED registerVars
    <3>1. /\ alloc[h.q] = Unallocated
          /\ alloc' = [alloc EXCEPT ![h.q] = [device |-> h.d, returned |-> FALSE]]
          /\ request' = [request EXCEPT ![h.q].status = "ALLOCATED"]
      BY <1>4, <2>3 DEF ClaimDevice, Claimable
    <3>2. request'[h.q] = [request[h.q] EXCEPT !.status = "ALLOCATED"] /\ request[h.q] \in RequestRow
      BY <2>1, <3>1, <1>t
    <3>3. request'[h.q].status = "ALLOCATED"
      BY <3>2 DEF RequestRow
    <3>4. alloc'[h.q] = [device |-> h.d, returned |-> FALSE]
      BY <2>1, <3>1, <1>t
    <3>5. alloc'[h.q].device \in Devices /\ ~alloc'[h.q].returned
      BY <2>1, <3>4
    <3>6. DecidedRightly(request'[h.q])
      BY <2>1, <1>l DEF Lasts
    <3>7. q # h.q => request'[q] = request[q] /\ alloc'[q] = alloc[q]
      BY <3>1, <1>t
    <3> HIDE DEF h
    <3>8. QED BY <2>1, <3>1, <3>3, <3>5, <3>6, <3>7 DEF RequestChange
  <2>4. QED BY <2>2, <2>3
<1>5. ASSUME NEW s \in Slots, ReturnWrite(s) PROVE RequestChange(q)
  <2> DEFINE h == call[s]
  <2>1. h.q \in Asked /\ h.d \in Devices /\ alloc[h.q].device = h.d
    BY <1>5, <1>k DEF ReturnWrite, Knows, KnowsRequest
  <2>2. /\ alloc' = [alloc EXCEPT ![h.q].returned = TRUE]
        /\ request' = [request EXCEPT ![h.q].status = "RETURNED"]
    BY <1>5 DEF ReturnWrite
  <2>3. request'[h.q] = [request[h.q] EXCEPT !.status = "RETURNED"] /\ request[h.q] \in RequestRow
    BY <2>1, <2>2, <1>t
  <2>4. request'[h.q].status = "RETURNED"
    BY <2>3 DEF RequestRow
  <2>5. alloc[h.q] \in Allocation /\ alloc'[h.q] = [alloc[h.q] EXCEPT !.returned = TRUE]
    BY <2>1, <2>2, <1>t
  <2>6. alloc'[h.q].device \in Devices /\ alloc'[h.q].returned
    BY <2>1, <2>5 DEF Allocation
  <2>7. alloc[h.q] # Unallocated
    BY <2>1, <1>t DEF Unallocated
  <2>8. q # h.q => request'[q] = request[q] /\ alloc'[q] = alloc[q]
    BY <2>2, <1>t
  <2>9. DecidedRightly(request[h.q]) => DecidedRightly(request'[h.q])
    BY <2>1, <1>l DEF Lasts
  <2> HIDE DEF h
  <2>10. QED BY <2>1, <2>4, <2>6, <2>7, <2>8, <2>9 DEF RequestChange
<1>6. ASSUME NEW s \in Slots,
             \/ InsertPurchase(s) \/ EditWrite(s) \/ SubmitWrite(s) \/ OrderWrite(s)
             \/ ApproveWrite(s)
      PROVE  UNCHANGED <<request, alloc>>
  <2>1. InsertPurchase(s) \/ EditWrite(s) => UNCHANGED <<request, alloc>>
    BY DEF InsertPurchase, EditWrite, registerVars
  <2>2. SubmitWrite(s) \/ OrderWrite(s) \/ ApproveWrite(s) => UNCHANGED <<request, alloc>>
    BY DEF SubmitWrite, OrderWrite, ApproveWrite, registerVars
  <2>3. QED BY <1>6, <2>1, <2>2
<1>7. ASSUME NEW s \in Slots, ReceiveWrite(s) \/ InsertDevice(s)
      PROVE  UNCHANGED <<request, alloc>>
  BY <1>7 DEF ReceiveWrite, InsertDevice
<1>8. ASSUME NEW s \in Slots, NEW u, NEW d, NEW to, EditDevice(s, u, d, to)
      PROVE  UNCHANGED <<request, alloc>>
  BY <1>8 DEF EditDevice
<1>9. Looked => UNCHANGED <<request, alloc>>
  BY DEF Looked
<1>10. QED BY StepKinds, <1>1, <1>2, <1>3, <1>4, <1>5, <1>6, <1>7, <1>8, <1>9

\* What the rows of requests and allocations say of one another stays so.
LEMMA RequestRowsStep ==
    ASSUME TypeOK, InHand, RequestRows, StatusMatchesAllocation, AllocatedAfterDecision,
           [Next]_vars
    PROVE  RequestRows' /\ StatusMatchesAllocation' /\ AllocatedAfterDecision'
<1>l. Lasts /\ Asked \subseteq RequestIds /\ Asked' \subseteq RequestIds
  BY TablesStep DEF Asked
<1> SUFFICES ASSUME NEW q \in RequestIds
             PROVE  /\ alloc'[q] # Unallocated => q \in Asked' /\ alloc'[q].device \in Devices'
                    /\ q \in Asked' /\ request'[q].status = "PENDING_FULFILMENT"
                         => DecidedRightly(request'[q])
                    /\ q \in Asked' => /\ request'[q].status = "ALLOCATED" =>
                                            alloc'[q].device \in Devices' /\ ~alloc'[q].returned
                                       /\ request'[q].status = "RETURNED" =>
                                            alloc'[q].device \in Devices' /\ alloc'[q].returned
                    /\ q \in Asked' /\ alloc'[q] # Unallocated => DecidedRightly(request'[q])
  BY <1>l DEF RequestRows, StatusMatchesAllocation, AllocatedAfterDecision, DecidedRightly
<1>1. RequestChange(q)
  BY RequestSteps
<1>2. /\ alloc[q] # Unallocated => q \in Asked /\ alloc[q].device \in Devices
      /\ q \in Asked /\ request[q].status = "PENDING_FULFILMENT" => DecidedRightly(request[q])
      /\ q \in Asked => /\ request[q].status = "ALLOCATED" =>
                             alloc[q].device \in Devices /\ ~alloc[q].returned
                        /\ request[q].status = "RETURNED" =>
                             alloc[q].device \in Devices /\ alloc[q].returned
                        /\ alloc[q] # Unallocated => DecidedRightly(request[q])
  BY DEF RequestRows, StatusMatchesAllocation, AllocatedAfterDecision
<1>3. Devices \subseteq Devices' /\ Asked \subseteq Asked'
  BY <1>l DEF Lasts
<1>4. request'[q] = request[q] => (q \in Asked' <=> q \in Asked)
  BY DEF Asked
<1>5. QED BY <1>1, <1>2, <1>3, <1>4 DEF RequestChange

-----------------------------------------------------------------------------
(* Purchase requests.                                                          *)

\* Approvals once given stay given.
LEMMA ApprovalsLast ==
    ASSUME NEW S, NEW T, S \subseteq T, NEW p, NEW u
    PROVE  /\ ManagerIn(S, p) => ManagerIn(T, p)
           /\ OtherManagerIn(S, p, u) => OtherManagerIn(T, p, u)
           /\ TwoIn(S, p) => TwoIn(T, p)
<1>1. \A m, stage : ApprovedIn(S, m, p, stage) => ApprovedIn(T, m, p, stage)
  BY DEF ApprovedIn
<1>2. \A f : OtherManagerIn(S, p, f) => OtherManagerIn(T, p, f)
  BY <1>1 DEF OtherManagerIn
<1>3. QED BY <1>1, <1>2 DEF ManagerIn, TwoIn

\* Approved by two, in the words of the property and in those of this module.
LEMMA TwoApprovedIn ==
    ASSUME NEW p
    PROVE  TwoApproved(p) <=> TwoIn(steps, p)
<1>1. \A u, stage : Approved(u, p, stage) <=> ApprovedIn(steps, u, p, stage)
  BY DEF Approved, ApprovedIn
<1>2. QED BY <1>1 DEF TwoApproved, TwoIn, OtherManagerIn

\* What a step makes of the status of purchase request p: nothing; a status that
\* promises nothing; manager-approved; approved by two.
PurchaseChange(p) ==
    \/ p \in Purchases /\ purchase'[p].status = purchase[p].status
    \/ purchase'[p].status \in {"RAISED", "PENDING_MANAGER_APPROVAL", "REJECTED", "ON_HOLD"}
    \/ purchase'[p].status = "PENDING_FINANCE_APPROVAL" /\ ManagerIn(steps', p)
    \/ /\ purchase'[p].status \in {"FINANCE_APPROVED", "PO_RAISED", "RECEIVED"}
       /\ TwoIn(steps', p)

\* Nothing else becomes of a purchase request.
LEMMA PurchaseSteps ==
    ASSUME TypeOK, InHand, [Next]_vars, NEW p \in Purchases'
    PROVE  PurchaseChange(p)
<1>t. /\ purchase \in [PurchaseIds -> PurchaseRow \cup {NoPurchase}]
      /\ Purchases \subseteq PurchaseIds /\ p \in PurchaseIds
      /\ \A c \in Purchases : purchase[c] \in PurchaseRow
      /\ purchase'[p] # NoPurchase
  BY DEF TypeOK, Purchases
<1>k. \A s \in Slots : Knows(call[s], Devices, Asked, request, alloc, Purchases, steps)
  BY DEF InHand
<1>l. steps \subseteq steps'
  BY TablesStep DEF Lasts
<1>1. CASE UNCHANGED purchase
  BY <1>1, <1>t DEF PurchaseChange, Purchases
<1>2. ASSUME NEW c \in Purchases, NEW to, purchase' = [purchase EXCEPT ![c].status = to]
      PROVE  /\ p # c => p \in Purchases /\ purchase'[p] = purchase[p]
             /\ p = c => purchase'[p].status = to
  <2>1. purchase'[c] = [purchase[c] EXCEPT !.status = to] /\ purchase[c] \in PurchaseRow
    BY <1>2, <1>t
  <2>2. purchase'[c].status = to
    BY <2>1 DEF PurchaseRow
  <2>3. p # c => purchase'[p] = purchase[p]
    BY <1>2, <1>t
  <2>4. QED BY <2>2, <2>3, <1>t DEF Purchases
<1>3. ASSUME NEW s \in Slots, InsertPurchase(s) PROVE PurchaseChange(p)
  <2> DEFINE h == call[s]
  <2>1. h.p \in PurchaseIds /\ h.to \in {"RAISED", "PENDING_MANAGER_APPROVAL"}
    BY <1>3, <1>k DEF InsertPurchase, Knows, KnowsIds
  <2>2. CASE p = h.p /\ ~UNCHANGED purchase
    <3>1. PICK filled \in BOOLEAN :
                purchase' = [purchase EXCEPT ![h.p] =
                               [status |-> h.to, for |-> h.q, ready |-> filled]]
      BY <1>3, <2>2 DEF InsertPurchase
    <3>2. purchase'[p] = [status |-> h.to, for |-> h.q, ready |-> filled]
      BY <2>1, <2>2, <3>1, <1>t
    <3>3. QED BY <2>1, <3>2 DEF PurchaseChange
  <2>3. CASE p # h.p
    <3>1. purchase'[p] = purchase[p]
      BY <1>3, <2>1, <2>3, <1>t DEF InsertPurchase
    <3>2. QED BY <3>1, <1>t DEF PurchaseChange, Purchases
  <2>4. QED BY <2>2, <2>3, <1>1
<1>4. ASSUME NEW s \in Slots, EditWrite(s) PROVE PurchaseChange(p)
  <2>1. call[s].p \in Purchases
    BY <1>4, <1>k DEF EditWrite, Knows, KnowsPurchase
  <2>2. PICK b \in BOOLEAN : purchase' = [purchase EXCEPT ![call[s].p].ready = b]
    BY <1>4 DEF EditWrite
  <2>3. CASE p # call[s].p
    <3>1. purchase'[p] = purchase[p]
      BY <2>2, <2>3, <1>t
    <3>2. QED BY <3>1, <1>t DEF PurchaseChange, Purchases
  <2>4. CASE p = call[s].p
    <3>1. purchase'[p] = [purchase[p] EXCEPT !.ready = b] /\ purchase[p] \in PurchaseRow
      BY <2>1, <2>2, <2>4, <1>t
    <3>2. purchase'[p].status = purchase[p].status
      BY <3>1 DEF PurchaseRow
    <3>3. QED BY <3>2, <2>1, <2>4 DEF PurchaseChange
  <2>5. QED BY <2>3, <2>4
<1>5. ASSUME NEW s \in Slots, SubmitWrite(s) PROVE PurchaseChange(p)
  <2>1. call[s].p \in Purchases
    BY <1>5, <1>k DEF SubmitWrite, Knows, KnowsPurchase
  <2>2. purchase' = [purchase EXCEPT ![call[s].p].status = "PENDING_MANAGER_APPROVAL"]
    BY <1>5 DEF SubmitWrite
  <2>3. QED BY <2>1, <2>2, <1>2 DEF PurchaseChange
<1>6. ASSUME NEW s \in Slots, OrderWrite(s) PROVE PurchaseChange(p)
  <2>1. call[s].p \in Purchases /\ TwoIn(steps, call[s].p)
    BY <1>6, <1>k DEF OrderWrite, Knows, KnowsPurchase
  <2>2. purchase' = [purchase EXCEPT ![call[s].p].status = "PO_RAISED"]
    BY <1>6 DEF OrderWrite
  <2>3. TwoIn(steps', call[s].p)
    BY <2>1, <1>l, ApprovalsLast
  <2>4. QED BY <2>1, <2>2, <2>3, <1>2 DEF PurchaseChange
<1>7. ASSUME NEW s \in Slots, ReceiveWrite(s) PROVE PurchaseChange(p)
  <2>1. call[s].p \in Purchases /\ TwoIn(steps, call[s].p)
    BY <1>7, <1>k DEF ReceiveWrite, Knows, KnowsPurchase
  <2>2. CASE ~UNCHANGED purchase
    <3>1. purchase' = [purchase EXCEPT ![call[s].p].status = "RECEIVED"]
      BY <1>7, <2>2 DEF ReceiveWrite
    <3>2. TwoIn(steps', call[s].p)
      BY <2>1, <1>l, ApprovalsLast
    <3>3. QED BY <2>1, <3>1, <3>2, <1>2 DEF PurchaseChange
  <2>3. QED BY <2>2, <1>1
<1>8. ASSUME NEW s \in Slots, ApproveWrite(s) PROVE PurchaseChange(p)
  <2> DEFINE h == call[s]
  <2>1. /\ h.p \in Purchases /\ h.by \in Users /\ h.stage \in Stages /\ h.decision \in Decisions
        /\ h.to = Decided(h.stage, h.decision)
        /\ HasRole(h.by, {h.stage, "SYS_ADMIN"})
        /\ h.stage = "FINANCE" => OtherManagerIn(steps, h.p, h.by)
    BY <1>8, <1>k DEF ApproveWrite, Knows, KnowsPurchase
  <2>2. /\ purchase' = [purchase EXCEPT ![h.p].status = h.to]
        /\ [p |-> h.p, by |-> h.by, stage |-> h.stage, decision |-> h.decision] \in steps'
    BY <1>8 DEF ApproveWrite
  <2>3. h.decision = "APPROVED" => ApprovedIn(steps', h.by, h.p, h.stage)
    BY <2>1, <2>2 DEF ApprovedIn
  <2>4. h.to = "PENDING_FINANCE_APPROVAL" => ManagerIn(steps', h.p)
    <3> HIDE DEF h
    <3>1. h.to = "PENDING_FINANCE_APPROVAL" => h.stage = "MANAGER" /\ h.decision = "APPROVED"
      BY <2>1, DecidedValues
    <3>2. QED BY <3>1, <2>1, <2>3 DEF ManagerIn
  <2>5. h.to = "FINANCE_APPROVED" => TwoIn(steps', h.p)
    <3> HIDE DEF h
    <3>1. h.to = "FINANCE_APPROVED" => h.stage = "FINANCE" /\ h.decision = "APPROVED"
      BY <2>1, DecidedValues
    <3>2. h.stage = "FINANCE" => OtherManagerIn(steps', h.p, h.by)
      BY <2>1, <1>l, ApprovalsLast
    <3>3. QED BY <3>1, <3>2, <2>1, <2>3 DEF TwoIn
  <2>6. h.to \in {"PENDING_MANAGER_APPROVAL", "REJECTED", "ON_HOLD",
                  "PENDING_FINANCE_APPROVAL", "FINANCE_APPROVED"}
    BY <2>1, DecidedValues
  <2> HIDE DEF h
  <2>7. QED BY <2>1, <2>2, <2>4, <2>5, <2>6, <1>2 DEF PurchaseChange
<1>10. Looked \/ UNCHANGED purchaseVars => UNCHANGED purchase
  BY DEF Looked, purchaseVars
<1>11. QED BY StepKinds, <1>1, <1>3, <1>4, <1>5, <1>6, <1>7, <1>8, <1>10

\* The statuses of purchase requests stay backed by their approvals.
LEMMA PurchaseRowsStep ==
    ASSUME TypeOK, InHand, PurchaseRows, OrderedOnlyApproved, [Next]_vars
    PROVE  PurchaseRows' /\ OrderedOnlyApproved'
<1>l. steps \subseteq steps'
  BY TablesStep DEF Lasts
<1>2. ASSUME NEW p \in Purchases'
      PROVE  /\ purchase'[p].status = "PENDING_FINANCE_APPROVAL" => ManagerIn(steps', p)
             /\ purchase'[p].status \in {"FINANCE_APPROVED", "PO_RAISED", "RECEIVED"}
                  => TwoIn(steps', p)
  <2>1. PurchaseChange(p)
    BY PurchaseSteps
  <2>2. p \in Purchases /\ purchase[p].status = "PENDING_FINANCE_APPROVAL" => ManagerIn(steps', p)
    BY <1>l, ApprovalsLast DEF PurchaseRows
  <2>3. p \in Purchases /\ purchase[p].status \in {"FINANCE_APPROVED", "PO_RAISED", "RECEIVED"}
          => TwoIn(steps', p)
    BY <1>l, ApprovalsLast, TwoApprovedIn DEF OrderedOnlyApproved
  <2>4. QED BY <2>1, <2>2, <2>3 DEF PurchaseChange
<1>3. ASSUME NEW p \in Purchases', TwoIn(steps', p) PROVE TwoApproved(p)'
  <2>1. PICK f \in Users : ApprovedIn(steps', f, p, "FINANCE") /\ OtherManagerIn(steps', p, f)
    BY <1>3 DEF TwoIn
  <2>2. PICK m \in Users : ApprovedIn(steps', m, p, "MANAGER") /\ (m # f \/ IsSysAdmin(f))
    BY <2>1 DEF OtherManagerIn
  <2>3. QED BY <2>1, <2>2 DEF TwoApproved, Approved, ApprovedIn
<1>4. QED BY <1>2, <1>3 DEF PurchaseRows, OrderedOnlyApproved

-----------------------------------------------------------------------------
(* What handlers have in hand.                                                 *)

\* What a handler knows of the rows stays so while others write.
LEMMA HandLasts ==
    ASSUME TypeOK, Lasts, NEW h,
           Knows(h, Devices, Asked, request, alloc, Purchases, steps)
    PROVE  Knows(h, Devices', Asked', request', alloc', Purchases', steps')
<1>t. /\ Devices \subseteq DeviceIds /\ Asked \subseteq RequestIds
      /\ 0 \notin DeviceIds
  BY DEF Devices, Asked, DeviceIds
<1>l. /\ Devices \subseteq Devices' /\ Asked \subseteq Asked' /\ Purchases \subseteq Purchases'
      /\ steps \subseteq steps'
  BY DEF Lasts
<1>1. KnowsIds(h)
  BY DEF Knows
<1>2. KnowsRequest(h, Devices', Asked', request', alloc')
  <2>k. KnowsRequest(h, Devices, Asked, request, alloc)
    BY DEF Knows
  <2>1. h.pc = "return" => alloc'[h.q].device = h.d
    <3>1. SUFFICES ASSUME h.pc = "return" PROVE alloc'[h.q].device = h.d
      OBVIOUS
    <3>2. h.q \in Asked /\ h.d \in Devices /\ alloc[h.q].device = h.d
      BY <3>1, <2>k DEF KnowsRequest
    <3>3. alloc[h.q] # Unallocated
      BY <3>2, <1>t DEF Unallocated
    <3>4. QED BY <3>2, <3>3, <1>t DEF Lasts
  <2>2. h.pc = "decide" => MayDecide(h.by, request'[h.q].requester)
    BY <2>k DEF KnowsRequest, Lasts
  <2>3. h.pc \in {"check device", "claim"} => DecidedRightly(request'[h.q])
    BY <2>k DEF KnowsRequest, Lasts
  <2>4. QED BY <2>k, <2>1, <2>2, <2>3, <1>l DEF KnowsRequest
<1>3. KnowsPurchase(h, Purchases', steps')
  <2>k. KnowsPurchase(h, Purchases, steps)
    BY DEF Knows
  <2>1. \A p, u : /\ ManagerIn(steps, p) => ManagerIn(steps', p)
                  /\ OtherManagerIn(steps, p, u) => OtherManagerIn(steps', p, u)
                  /\ TwoIn(steps, p) => TwoIn(steps', p)
    BY <1>l, ApprovalsLast
  <2>2. QED BY <2>k, <2>1, <1>l DEF KnowsPurchase
<1>4. QED BY <1>1, <1>2, <1>3 DEF Knows

\* A hand is well formed and knows what it should of the rows as they are.
GoodHand(h) == h \in Call /\ Knows(h, Devices, Asked, request, alloc, Purchases, steps)
NewHand(s, h) == call' = [call EXCEPT ![s] = h] /\ GoodHand(h)

\* An empty hand is good.
LEMMA FreeIsGood == GoodHand(Free)
<1>1. Free \in Call
  BY AssetBounds DEF Free, Call, PCs
<1>2. Free.pc = "free" /\ Free.stage = "NONE"
  BY DEF Free
<1>3. QED BY <1>1, <1>2 DEF GoodHand, Knows, KnowsIds, KnowsRequest, KnowsPurchase

\* Where no slot changes hands or one is emptied, nothing is to be known.
LEMMA FreeHand ==
    ASSUME NEW s \in Slots, Go(s, Free)
    PROVE  NewHand(s, Free)
BY FreeIsGood DEF Go, NewHand

\* Requests of the device desk begin with what they have read.
LEMMA RegisterBeginHands ==
    ASSUME TypeOK, InHand, RequestRows, NEW s \in Slots, NEW u \in Users, RegisterBegin(s, u)
    PROVE  call' = call \/ \E h : NewHand(s, h)
<1>t. /\ Devices \subseteq DeviceIds /\ Asked \subseteq RequestIds
      /\ DeviceIds \subseteq 0..MaxDevices /\ RequestIds \subseteq 0..MaxRequests
      /\ 0 \in 0..MaxDevices /\ 0 \in 0..MaxRequests /\ 0 \in 0..MaxPurchases
      /\ HandStatuses \subseteq DeviceStatus /\ "AVAILABLE" \in DeviceStatus
  BY AssetBounds DEF Devices, Asked, DeviceIds, RequestIds, DeviceStatus
<1>1. ASSUME NEW to \in HandStatuses \cup {"AVAILABLE"}, BeginDevice(s, u, to)
      PROVE  \E h : NewHand(s, h)
  <2> DEFINE h == [Free EXCEPT !.pc = "insert", !.by = u, !.d = NextDeviceId, !.to = to]
  <2>1. call' = [call EXCEPT ![s] = h] /\ NextDeviceId \in DeviceIds
    BY <1>1 DEF BeginDevice, Go
  <2>2. /\ h.pc = "insert" /\ h.by = u /\ h.q = 0 /\ h.d = NextDeviceId /\ h.p = 0
        /\ h.to = to /\ h.stage = "NONE" /\ h.decision = "NONE"
    BY DEF Free
  <2>3. h \in Call
    BY <1>t, <2>1 DEF Free, Call, PCs
  <2>4. GoodHand(h)
    BY <1>t, <2>1, <2>2, <2>3 DEF GoodHand, Knows, KnowsIds, KnowsRequest, KnowsPurchase
  <2>5. QED BY <2>1, <2>4 DEF NewHand
<1>2. ASSUME NEW q \in RequestIds, NEW to \in {"PENDING_FULFILMENT", "REJECTED"},
             BeginDecision(s, u, q, to)
      PROVE  \E h : NewHand(s, h)
  <2> DEFINE h == [Free EXCEPT !.pc = "decide", !.by = u, !.q = q, !.to = to]
  <2>1. /\ call' = [call EXCEPT ![s] = h]
        /\ q \in Asked /\ MayDecide(u, request[q].requester)
    BY <1>2 DEF BeginDecision, Go
  <2>2. /\ h.pc = "decide" /\ h.by = u /\ h.q = q /\ h.to = to /\ h.stage = "NONE"
    BY DEF Free
  <2>3. h \in Call
    BY <1>t, <2>1 DEF Free, Call, PCs, RequestStatus
  <2>4. GoodHand(h)
    BY <2>1, <2>2, <2>3 DEF GoodHand, Knows, KnowsIds, KnowsRequest, KnowsPurchase
  <2>5. QED BY <2>1, <2>4 DEF NewHand
<1>3. ASSUME NEW q \in RequestIds, NEW d \in DeviceIds, BeginAllocation(s, u, q, d)
      PROVE  \E h : NewHand(s, h)
  <2> DEFINE h == [Free EXCEPT !.pc = "check device", !.by = u, !.q = q, !.d = d]
  <2>1. /\ call' = [call EXCEPT ![s] = h]
        /\ q \in Asked /\ d \in Devices /\ request[q].status = "PENDING_FULFILMENT"
    BY <1>3 DEF BeginAllocation, Go
  <2>2. DecidedRightly(request[q])
    BY <2>1 DEF RequestRows
  <2>3. /\ h.pc = "check device" /\ h.q = q /\ h.d = d /\ h.stage = "NONE"
    BY DEF Free
  <2>4. h \in Call
    BY <1>t, <2>1 DEF Free, Call, PCs
  <2>5. GoodHand(h)
    BY <2>1, <2>2, <2>3, <2>4 DEF GoodHand, Knows, KnowsIds, KnowsRequest, KnowsPurchase
  <2>6. QED BY <2>1, <2>5 DEF NewHand
<1>4. ASSUME NEW d \in DeviceIds, BeginReturn(s, u, d)
      PROVE  \E h : NewHand(s, h)
  <2> DEFINE h == [Free EXCEPT !.pc = "find", !.by = u, !.d = d]
  <2>1. call' = [call EXCEPT ![s] = h] /\ d \in Devices
    BY <1>4 DEF BeginReturn, Go
  <2>2. h.pc = "find" /\ h.d = d /\ h.stage = "NONE"
    BY DEF Free
  <2>3. h \in Call
    BY <1>t, <2>1 DEF Free, Call, PCs
  <2>4. GoodHand(h)
    BY <2>1, <2>2, <2>3 DEF GoodHand, Knows, KnowsIds, KnowsRequest, KnowsPurchase
  <2>5. QED BY <2>1, <2>4 DEF NewHand
<1>5. ASSUME NEW q, NEW d, NEW to, EditDevice(s, u, d, to) \/ Ask(s, u, q) PROVE call' = call
  BY <1>5 DEF EditDevice, Ask
<1>6. QED BY <1>1, <1>2, <1>3, <1>4, <1>5 DEF RegisterBegin

\* They go on with what they knew.
LEMMA RegisterGoOnHands ==
    ASSUME TypeOK, InHand, NEW s \in Slots, RegisterGoOn(s)
    PROVE  \E h : NewHand(s, h)
<1> DEFINE c == call[s]
<1>t. c \in Call /\ Asked \subseteq 0..MaxRequests
  BY AssetBounds DEF TypeOK, Asked, RequestIds
<1>k. Knows(c, Devices, Asked, request, alloc, Purchases, steps)
  BY DEF InHand
<1>g. ASSUME Go(s, Free) PROVE \E h : NewHand(s, h)
  BY <1>g, FreeHand
<1>1. CASE InsertDevice(s) \/ ClaimDevice(s) \/ ReturnWrite(s) \/ CutOff(s)
  BY <1>1, <1>g DEF InsertDevice, ClaimDevice, ReturnWrite, CutOff
<1>a. ASSUME NEW pc \in {"announce", "claim"}, c.pc = "check device" \/ pc = "announce",
             Go(s, [c EXCEPT !.pc = pc])
      PROVE  \E h : NewHand(s, h)
  <2> DEFINE h == [c EXCEPT !.pc = pc]
  <2>1. h \in Call
    BY <1>t DEF Call, PCs
  <2>2. h.pc = pc /\ h.q = c.q /\ h.d = c.d
    BY <1>t DEF Call
  <2> HIDE DEF c
  <2>3. GoodHand(h)
    <3> HIDE DEF h
    <3>1. QED BY <1>a, <1>k, <2>1, <2>2 DEF GoodHand, Knows, KnowsIds, KnowsRequest, KnowsPurchase
  <2>4. QED BY <1>a, <2>3 DEF NewHand, Go
<1>2. CASE DecisionWrite(s)
  BY <1>2, <1>a, <1>g DEF DecisionWrite
<1>3. CASE CheckDevice(s)
  BY <1>3, <1>a, <1>g DEF CheckDevice
<1>4. CASE FindAllocation(s)
  <2>1. CASE Go(s, Free)
    BY <2>1, <1>g
  <2>2. CASE ~Go(s, Free)
    <3>1. PICK q \in Asked : Holds(q, c.d) /\ Go(s, [c EXCEPT !.pc = "return", !.q = q])
      BY <1>4, <2>2 DEF FindAllocation
    <3> DEFINE h == [c EXCEPT !.pc = "return", !.q = q]
    <3>2. h \in Call
      BY <1>t DEF Call, PCs
    <3>3. h.pc = "return" /\ h.q = q /\ h.d = c.d
      BY <1>t DEF Call
    <3>4. c.pc = "find"
      BY <1>4 DEF FindAllocation
    <3> HIDE DEF c
    <3>5. GoodHand(h)
      <4> HIDE DEF h
      <4>1. QED BY <1>k, <3>1, <3>2, <3>3, <3>4
              DEF GoodHand, Knows, KnowsIds, KnowsRequest, KnowsPurchase, Holds
    <3>6. QED BY <3>1, <3>5 DEF NewHand, Go
  <2>3. QED BY <2>1, <2>2
<1>5. QED BY <1>1, <1>2, <1>3, <1>4 DEF RegisterGoOn

\* Requests of procurement begin with what they have read: whoever is about to
\* sign for finance has seen a manager's approval.
LEMMA PurchaseBeginHands ==
    ASSUME TypeOK, InHand, PurchaseRows, OrderedOnlyApproved,
           NEW s \in Slots, NEW u \in Users, PurchaseBegin(s, u)
    PROVE  \E h : NewHand(s, h)
<1>t. /\ Purchases \subseteq PurchaseIds /\ PurchaseIds \subseteq 0..MaxPurchases
      /\ 0 \in 0..MaxDevices /\ 0 \in 0..MaxRequests /\ 0 \in 0..MaxPurchases
  BY AssetBounds DEF Purchases, PurchaseIds
<1>1. ASSUME NEW q \in 0..MaxRequests, BeginPurchase(s, u, q)
      PROVE  \E h : NewHand(s, h)
  <2> DEFINE h == [Free EXCEPT !.pc = "raise", !.by = u, !.q = q, !.p = NextPurchaseId,
                               !.to = "PENDING_MANAGER_APPROVAL"]
  <2>1. call' = [call EXCEPT ![s] = h] /\ NextPurchaseId \in PurchaseIds
    BY <1>1 DEF BeginPurchase, Go
  <2>2. /\ h.pc = "raise" /\ h.p = NextPurchaseId /\ h.to = "PENDING_MANAGER_APPROVAL"
        /\ h.stage = "NONE"
    BY DEF Free
  <2>3. h \in Call
    BY <1>t, <2>1 DEF Free, Call, PCs, PurchaseStatus
  <2>4. GoodHand(h)
    BY <2>1, <2>2, <2>3 DEF GoodHand, Knows, KnowsIds, KnowsRequest, KnowsPurchase
  <2>5. QED BY <2>1, <2>4 DEF NewHand
<1>2. ASSUME NEW p \in Purchases, NEW pc \in {"edit", "submit", "order", "device id"},
             pc \in {"order", "device id"} =>
                purchase[p].status \in {"FINANCE_APPROVED", "PO_RAISED"},
             Go(s, [Free EXCEPT !.pc = pc, !.by = u, !.p = p])
      PROVE  \E h : NewHand(s, h)
  <2> DEFINE h == [Free EXCEPT !.pc = pc, !.by = u, !.p = p]
  <2>1. h.pc = pc /\ h.p = p /\ h.stage = "NONE"
    BY DEF Free
  <2>2. h \in Call
    BY <1>t DEF Free, Call, PCs
  <2>3. pc \in {"order", "device id"} => TwoIn(steps, p)
    BY <1>2, TwoApprovedIn DEF OrderedOnlyApproved
  <2>4. GoodHand(h)
    BY <2>1, <2>2, <2>3 DEF GoodHand, Knows, KnowsIds, KnowsRequest, KnowsPurchase
  <2>5. QED BY <1>2, <2>4 DEF NewHand, Go
<1>3. ASSUME NEW p \in PurchaseIds, BeginEdit(s, u, p) \/ BeginSubmit(s, u, p)
      PROVE  \E h : NewHand(s, h)
  BY <1>3, <1>2 DEF BeginEdit, BeginSubmit
<1>4. ASSUME NEW p \in PurchaseIds, BeginOrder(s, u, p) \/ BeginReceipt(s, u, p)
      PROVE  \E h : NewHand(s, h)
  BY <1>4, <1>2 DEF BeginOrder, BeginReceipt
<1>5. ASSUME NEW p \in PurchaseIds, NEW decision \in Decisions, BeginApproval(s, u, p, decision)
      PROVE  \E h : NewHand(s, h)
  <2> DEFINE stage == StageOf(purchase[p].status)
             pc == IF stage = "FINANCE" /\ ~IsSysAdmin(u) THEN "duties" ELSE "approve"
             h == [Free EXCEPT !.pc = pc, !.by = u, !.p = p, !.stage = stage,
                               !.decision = decision, !.to = Decided(stage, decision)]
  <2>1. /\ p \in Purchases /\ stage \in Stages /\ HasRole(u, {stage, "SYS_ADMIN"})
        /\ call' = [call EXCEPT ![s] = h]
    BY <1>5 DEF BeginApproval, Go, MayApprove
  <2>2. stage = "FINANCE" => ManagerIn(steps, p)
    <3>1. stage = "FINANCE" => purchase[p].status = "PENDING_FINANCE_APPROVAL"
      BY DEF StageOf
    <3>2. QED BY <2>1, <3>1 DEF PurchaseRows
  <2> HIDE DEF stage
  <2>3. Decided(stage, decision) \in PurchaseStatus
    BY <2>1, DecidedValues DEF PurchaseStatus
  <2>4. pc \in {"duties", "approve"} /\ (pc = "duties" => stage = "FINANCE")
        /\ (pc = "approve" /\ stage = "FINANCE" => IsSysAdmin(u))
    OBVIOUS
  <2> HIDE DEF pc
  <2>5. /\ h.pc = pc /\ h.by = u /\ h.p = p /\ h.stage = stage /\ h.decision = decision
        /\ h.to = Decided(stage, decision)
    BY DEF Free
  <2>6. h \in Call
    BY <1>t, <2>1, <2>3, <2>4 DEF Free, Call, PCs
  <2>7. pc = "approve" /\ stage = "FINANCE" => OtherManagerIn(steps, p, u)
    BY <2>2, <2>4 DEF ManagerIn, OtherManagerIn
  <2>8. GoodHand(h)
    <3> HIDE DEF h
    <3>1. QED BY <2>1, <2>2, <2>4, <2>5, <2>6, <2>7
            DEF GoodHand, Knows, KnowsIds, KnowsRequest, KnowsPurchase
  <2>9. QED BY <2>1, <2>8 DEF NewHand
<1>6. QED BY <1>1, <1>3, <1>4, <1>5 DEF PurchaseBegin

\* They go on with what they knew; whoever passes the check of the duties has
\* seen that the manager's approval is someone else's.
LEMMA PurchaseGoOnHands ==
    ASSUME TypeOK, InHand, NEW s \in Slots, PurchaseGoOn(s)
    PROVE  \E h : NewHand(s, h)
<1> DEFINE c == call[s]
<1>t. /\ c \in Call
      /\ DeviceIds \subseteq 0..MaxDevices /\ PurchaseIds \subseteq 0..MaxPurchases
  BY AssetBounds DEF TypeOK, DeviceIds, PurchaseIds
<1>k. Knows(c, Devices, Asked, request, alloc, Purchases, steps)
  BY DEF InHand
<1>g. ASSUME Go(s, Free) PROVE \E h : NewHand(s, h)
  BY <1>g, FreeHand
<1>1. CASE \/ InsertPurchase(s) \/ EditWrite(s) \/ SubmitWrite(s)
           \/ ApproveWrite(s) \/ OrderWrite(s) \/ ReceiveWrite(s)
  BY <1>1, <1>g
    DEF InsertPurchase, EditWrite, SubmitWrite, ApproveWrite, OrderWrite, ReceiveWrite
<1>2. CASE Announce(s)
  <2> DEFINE h == [c EXCEPT !.pc = "shortage"]
  <2>1. CASE Go(s, Free)
    BY <2>1, <1>g
  <2>2. CASE Go(s, h)
    <3>1. h \in Call
      BY <1>t DEF Call, PCs
    <3>2. h.pc = "shortage"
      BY <1>t DEF Call
    <3> HIDE DEF c, h
    <3>3. GoodHand(h)
      BY <3>1, <3>2 DEF GoodHand, Knows, KnowsIds, KnowsRequest, KnowsPurchase
    <3>4. QED BY <2>2, <3>3 DEF NewHand, Go
  <2>3. QED BY <1>2, <2>1, <2>2 DEF Announce
<1>3. CASE ListenerId(s)
  <2> DEFINE h == [c EXCEPT !.pc = "raise", !.p = NextPurchaseId, !.to = "RAISED"]
  <2>1. Go(s, h) /\ NextPurchaseId \in PurchaseIds
    BY <1>3 DEF ListenerId
  <2>2. h \in Call
    BY <1>t, <2>1 DEF Call, PCs, PurchaseStatus
  <2>3. h.pc = "raise" /\ h.p = NextPurchaseId /\ h.to = "RAISED"
    BY <1>t DEF Call
  <2> HIDE DEF c, h
  <2>4. GoodHand(h)
    BY <2>1, <2>2, <2>3 DEF GoodHand, Knows, KnowsIds, KnowsRequest, KnowsPurchase
  <2>5. QED BY <2>1, <2>4 DEF NewHand, Go
<1>4. CASE ReceiptId(s)
  <2> DEFINE h == [c EXCEPT !.pc = "receive", !.d = NextDeviceId]
  <2>1. Go(s, h) /\ NextDeviceId \in DeviceIds /\ c.pc = "device id"
    BY <1>4 DEF ReceiptId
  <2>2. h \in Call
    BY <1>t, <2>1 DEF Call, PCs
  <2>3. h.pc = "receive" /\ h.d = NextDeviceId /\ h.p = c.p
    BY <1>t DEF Call
  <2> HIDE DEF c, h
  <2>4. GoodHand(h)
    BY <1>k, <2>1, <2>2, <2>3 DEF GoodHand, Knows, KnowsIds, KnowsRequest, KnowsPurchase
  <2>5. QED BY <2>1, <2>4 DEF NewHand, Go
<1>5. CASE CheckDuties(s)
  <2> DEFINE h == [c EXCEPT !.pc = "approve"]
  <2>1. CASE Go(s, Free)
    BY <2>1, <1>g
  <2>2. CASE ~TookManagerStage(c.by, c.p) /\ Go(s, h)
    <3>1. h \in Call
      BY <1>t DEF Call, PCs
    <3>2. /\ h.pc = "approve" /\ h.by = c.by /\ h.p = c.p /\ h.stage = c.stage
          /\ h.decision = c.decision /\ h.to = c.to
      BY <1>t DEF Call
    <3>3. c.pc = "duties"
      BY <1>5 DEF CheckDuties
    <3> HIDE DEF c, h
    <3>4. ManagerIn(steps, c.p)
      BY <1>k, <3>3 DEF Knows, KnowsPurchase
    <3>5. PICK m \in Users : ApprovedIn(steps, m, c.p, "MANAGER")
      BY <3>4 DEF ManagerIn
    <3>6. m # c.by
      BY <2>2, <3>5 DEF TookManagerStage, ApprovedIn
    <3>7. OtherManagerIn(steps, c.p, c.by)
      BY <3>5, <3>6 DEF OtherManagerIn
    <3>8. GoodHand(h)
      BY <1>k, <3>1, <3>2, <3>3, <3>7
        DEF GoodHand, Knows, KnowsIds, KnowsRequest, KnowsPurchase
    <3>9. QED BY <2>2, <3>8 DEF NewHand, Go
  <2>3. QED BY <1>5, <2>1, <2>2 DEF CheckDuties
<1>6. QED BY <1>1, <1>2, <1>3, <1>4, <1>5 DEF PurchaseGoOn

\* Every step leaves every slot with a hand that knows its rows.
LEMMA HandsStep ==
    ASSUME Safe, [Next]_vars
    PROVE  InHand' /\ call' \in [Slots -> Call] /\ faults' \in Nat
<1>t. call \in [Slots -> Call] /\ faults \in Nat /\ MaxFaults \in Nat
  BY AssetBounds DEF Safe, TypeOK
<1>l. Lasts
  BY TablesStep DEF Safe
<1>k. \A s \in Slots : GoodHand(call[s])
  BY <1>t DEF Safe, InHand, GoodHand
<1>1. call' = call \/ \E s \in Slots : \E h : NewHand(s, h)
  <2>1. CASE UNCHANGED vars
    BY <2>1 DEF vars
  <2>2. ASSUME NEW s \in Slots, RegisterStep(s)
        PROVE  call' = call \/ \E h : NewHand(s, h)
    BY <2>2, RegisterBeginHands, RegisterGoOnHands DEF RegisterStep, Safe
  <2>3. ASSUME NEW s \in Slots, PurchaseStep(s) PROVE \E h : NewHand(s, h)
    BY <2>3, PurchaseBeginHands, PurchaseGoOnHands DEF PurchaseStep, Safe
  <2>4. QED BY <2>1, <2>2, <2>3 DEF Next
<1>2. \A s \in Slots : GoodHand(call'[s])
  BY <1>1, <1>k, <1>t DEF NewHand
<1>3. call' \in [Slots -> Call]
  BY <1>1, <1>t DEF NewHand, GoodHand
<1>4. ASSUME NEW s \in Slots
      PROVE  Knows(call'[s], Devices', Asked', request', alloc', Purchases', steps')
  <2>1. Knows(call'[s], Devices, Asked, request, alloc, Purchases, steps)
    BY <1>2 DEF GoodHand
  <2>2. QED BY <2>1, <1>l, HandLasts DEF Safe
<1>5. InHand'
  BY <1>4 DEF InHand
<1>6. faults' = faults \/ faults' = faults + 1
  <2>1. CASE UNCHANGED vars
    BY <2>1 DEF vars
  <2>2. ASSUME NEW s \in Slots, NEW u \in Users, RegisterBegin(s, u) PROVE faults' = faults
    BY <2>2 DEF RegisterBegin, BeginDevice, EditDevice, Ask, BeginDecision, BeginAllocation,
                BeginReturn
  <2>3. ASSUME NEW s \in Slots, RegisterGoOn(s) PROVE faults' = faults \/ faults' = faults + 1
    BY <2>3 DEF RegisterGoOn, InsertDevice, DecisionWrite, CheckDevice, ClaimDevice,
                FindAllocation, ReturnWrite, CutOff
  <2>4. ASSUME NEW s \in Slots, NEW u \in Users, PurchaseBegin(s, u) PROVE faults' = faults
    BY <2>4 DEF PurchaseBegin, BeginPurchase, BeginEdit, BeginSubmit, BeginApproval, BeginOrder,
                BeginReceipt
  <2>5. ASSUME NEW s \in Slots, PurchaseGoOn(s) PROVE faults' = faults
    BY <2>5 DEF PurchaseGoOn, Announce, ListenerId, InsertPurchase, EditWrite, SubmitWrite,
                CheckDuties, ApproveWrite, OrderWrite, ReceiptId, ReceiveWrite
  <2>6. QED BY <2>1, <2>2, <2>3, <2>4, <2>5 DEF Next, RegisterStep, PurchaseStep
<1>7. QED BY <1>3, <1>5, <1>6, <1>t

-----------------------------------------------------------------------------
(* The theorems.                                                               *)

\* The inductive invariant holds at the start.
LEMMA SafeInit == Init => Safe
<1> SUFFICES ASSUME Init PROVE Safe
  OBVIOUS
<1>1. /\ device = [d \in DeviceIds |-> NoDevice] /\ request = [q \in RequestIds |-> NoRequest]
      /\ alloc = [q \in RequestIds |-> Unallocated] /\ call = [s \in Slots |-> Free]
      /\ faults = 0 /\ purchase = [p \in PurchaseIds |-> NoPurchase] /\ steps = {}
      /\ receipts = [p \in PurchaseIds |-> 0]
  BY DEF Init, RegisterInit, PurchaseInit
<1>2. Devices = {} /\ Asked = {} /\ Purchases = {}
  BY <1>1 DEF Devices, Asked, Purchases
<1>3. GoodHand(Free)
  BY FreeIsGood
<1>4. Unallocated \in Allocation
  BY AssetBounds DEF Unallocated, Allocation
<1>5. TypeOK
  BY <1>1, <1>3, <1>4 DEF TypeOK, GoodHand
<1>6. InHand
  BY <1>1, <1>3 DEF InHand, GoodHand
<1>7. RequestRows /\ PurchaseRows
  BY <1>1, <1>2 DEF RequestRows, PurchaseRows
<1>8. StatusMatchesAllocation /\ AllocatedAfterDecision /\ OrderedOnlyApproved
  BY <1>2 DEF StatusMatchesAllocation, AllocatedAfterDecision, OrderedOnlyApproved
<1>9. QED BY <1>5, <1>6, <1>7, <1>8 DEF Safe

\* Every step keeps the inductive invariant.
LEMMA SafeStep == Safe /\ [Next]_vars => Safe'
<1> SUFFICES ASSUME Safe, [Next]_vars PROVE Safe'
  OBVIOUS
<1>1. InHand' /\ call' \in [Slots -> Call] /\ faults' \in Nat
  BY HandsStep
<1>2. TypeOK'
  BY <1>1, TablesStep DEF Safe, TypeOK
<1>3. RequestRows' /\ StatusMatchesAllocation' /\ AllocatedAfterDecision'
  BY RequestRowsStep DEF Safe
<1>4. PurchaseRows' /\ OrderedOnlyApproved'
  BY PurchaseRowsStep DEF Safe
<1>5. QED BY <1>1, <1>2, <1>3, <1>4 DEF Safe

\* The inductive invariant holds throughout.
THEOREM SafeAlways == Spec => []Safe
<1>1. QED BY SafeInit, SafeStep, PTL DEF Spec

\* Every variable of the device desk and of procurement stays in its type.
THEOREM AssetsTypeCorrect == Spec => []TypeOK
<1>1. Safe => TypeOK
  BY DEF Safe
<1>2. QED BY <1>1, SafeAlways, PTL

\* However submissions, approvals, orders and receipts overlap, nothing is
\* ordered or received that two people entitled to it have not approved.
THEOREM OrdersCorrect == Spec => []OrderedOnlyApproved
<1>1. Safe => OrderedOnlyApproved
  BY DEF Safe
<1>2. QED BY <1>1, SafeAlways, PTL

\* A request that reads ALLOCATED has its device out and one that reads RETURNED
\* has given it back, whatever else overlaps or is set by hand.
THEOREM RequestStatusCorrect == Spec => []StatusMatchesAllocation
<1>1. Safe => StatusMatchesAllocation
  BY DEF Safe
<1>2. QED BY <1>1, SafeAlways, PTL

\* A device only goes out for a request that someone entitled has decided on,
\* although allocation checks the decision on an earlier read.
THEOREM AllocationCorrect == Spec => []AllocatedAfterDecision
<1>1. Safe => AllocatedAfterDecision
  BY DEF Safe
<1>2. QED BY <1>1, SafeAlways, PTL

\* The allocation of a request never moves to another device, and once given
\* back it stays given back.
THEOREM AllocatedForGood == Spec => AllocatedOnce
<1>1. ASSUME Safe, [Next]_vars, NEW q \in RequestIds, alloc[q] # Unallocated
      PROVE  /\ alloc'[q].device = alloc[q].device
             /\ alloc[q].returned => alloc'[q].returned
  <2>1. alloc'[q].device = alloc[q].device
    BY <1>1, TablesStep DEF Safe, Lasts
  <2>2. RequestChange(q)
    BY <1>1, RequestSteps DEF Safe
  <2>3. QED BY <1>1, <2>1, <2>2 DEF RequestChange
<1>2. Safe /\ [Next]_vars =>
        [\A q \in RequestIds : alloc[q] # Unallocated =>
           /\ alloc'[q].device = alloc[q].device
           /\ alloc[q].returned => alloc'[q].returned]_vars
  BY <1>1
<1>3. QED BY <1>2, SafeAlways, PTL DEF Spec, AllocatedOnce

-----------------------------------------------------------------------------
(***************************************************************************)
(* What Assets keeps as long as handlers do not overlap: with one slot     *)
(* what a handler has read is still so when it writes.                     *)
(***************************************************************************)

\* No two handlers are in progress at once.
OneSlot == \A s, r \in Slots : s = r

-----------------------------------------------------------------------------
(* Purchase requests.                                                      *)

PurchasePCs == {"raise", "edit", "submit", "duties", "approve", "order", "device id", "receive"}

\* Handlers that write the shelf by what they have read of it.
ShelfPCs == {"insert", "return"}

\* What a handler has read of the purchase request it is at is still so.
PurchaseSeen(h) ==
    /\ h.pc = "raise" => Purchases = 1..(h.p - 1)
    /\ h.pc \in {"edit", "submit"} => purchase[h.p].status = "RAISED"
    /\ h.pc \in {"duties", "approve"} => StageOf(purchase[h.p].status) = h.stage
    /\ h.pc = "approve" /\ h.stage = "FINANCE" /\ ~IsSysAdmin(h.by) => ~TookManagerStage(h.by, h.p)
    /\ h.pc = "order" => purchase[h.p].status = "FINANCE_APPROVED"
    /\ h.pc \in {"device id", "receive"} => purchase[h.p].status = "PO_RAISED"

\* Identifiers are given out in order.
Numbered == \E n \in Nat : Purchases = 1..n

Signed(e, stage) == e \in steps /\ e.stage = stage /\ e.decision = "APPROVED"

\* Finance signs last ...
FinanceLast ==
    \A e \in steps : Signed(e, "FINANCE") =>
        e.p \in Purchases /\ purchase[e.p].status \in {"FINANCE_APPROVED", "PO_RAISED", "RECEIVED"}

\* ... and is somebody else than the manager who signed.
DutiesApart ==
    \A e, f \in steps :
        Signed(e, "MANAGER") /\ Signed(f, "FINANCE") /\ e.p = f.p /\ e.by = f.by => IsSysAdmin(e.by)

Received(p) == purchase[p] # NoPurchase /\ purchase[p].status = "RECEIVED"

\* A device came with each that is received, and with no other.
ReceiptsRight == \A p \in PurchaseIds : receipts[p] = IF Received(p) THEN 1 ELSE 0

PurchasesInOrder ==
    /\ Numbered /\ FinanceLast /\ DutiesApart /\ ReceiptsRight
    /\ \A s \in Slots : PurchaseSeen(call[s])

\* The only handler goes on with h.
LEMMA OnlyHand ==
    ASSUME OneSlot, TypeOK, NEW s \in Slots, NEW h, Go(s, h), NEW r \in Slots
    PROVE  call'[r] = h
BY DEF OneSlot, TypeOK, Go

\* Handlers of the register have no purchase request in hand.
LEMMA RegisterHands ==
    ASSUME TypeOK, NEW s \in Slots, (\E u \in Users : RegisterBegin(s, u)) \/ RegisterGoOn(s)
    PROVE  call' = call \/ \E h : Go(s, h) /\ h.pc \notin PurchasePCs
<1>1. call[s] \in Call
  BY DEF TypeOK
<1>2. Free.pc \notin PurchasePCs
  BY DEF Free, PurchasePCs
<1>3. ASSUME NEW u \in Users, RegisterBegin(s, u)
      PROVE  call' = call \/ \E h : Go(s, h) /\ h.pc \notin PurchasePCs
  <2>1. ASSUME NEW to, BeginDevice(s, u, to) PROVE \E h : Go(s, h) /\ h.pc \notin PurchasePCs
    <3> DEFINE h == [Free EXCEPT !.pc = "insert", !.by = u, !.d = NextDeviceId, !.to = to]
    <3>1. Go(s, h) /\ h.pc = "insert"
      BY <2>1 DEF BeginDevice, Free
    <3> HIDE DEF h
    <3> QED BY <3>1 DEF PurchasePCs
  <2>2. ASSUME NEW d, NEW to, EditDevice(s, u, d, to) PROVE call' = call
    BY <2>2 DEF EditDevice
  <2>3. ASSUME NEW q, Ask(s, u, q) PROVE call' = call
    BY <2>3 DEF Ask
  <2>4. ASSUME NEW q, NEW to, BeginDecision(s, u, q, to) PROVE \E h : Go(s, h) /\ h.pc \notin PurchasePCs
    <3> DEFINE h == [Free EXCEPT !.pc = "decide", !.by = u, !.q = q, !.to = to]
    <3>1. Go(s, h) /\ h.pc = "decide"
      BY <2>4 DEF BeginDecision, Free
    <3> HIDE DEF h
    <3> QED BY <3>1 DEF PurchasePCs
  <2>5. ASSUME NEW q, NEW d, BeginAllocation(s, u, q, d) PROVE \E h : Go(s, h) /\ h.pc \notin PurchasePCs
    <3> DEFINE h == [Free EXCEPT !.pc = "check device", !.by = u, !.q = q, !.d = d]
    <3>1. Go(s, h) /\ h.pc = "check device"
      BY <2>5 DEF BeginAllocation, Free
    <3> HIDE DEF h
    <3> QED BY <3>1 DEF PurchasePCs
  <2>6. ASSUME NEW d, BeginReturn(s, u, d) PROVE \E h : Go(s, h) /\ h.pc \notin PurchasePCs
    <3> DEFINE h == [Free EXCEPT !.pc = "find", !.by = u, !.d = d]
    <3>1. Go(s, h) /\ h.pc = "find"
      BY <2>6 DEF BeginReturn, Free
    <3> HIDE DEF h
    <3> QED BY <3>1 DEF PurchasePCs
  <2> QED BY <1>3, <2>1, <2>2, <2>3, <2>4, <2>5, <2>6 DEF RegisterBegin
<1>4. ASSUME RegisterGoOn(s)
      PROVE  \E h : Go(s, h) /\ h.pc \notin PurchasePCs
  <2>1. CASE InsertDevice(s) \/ ClaimDevice(s) \/ ReturnWrite(s) \/ CutOff(s)
    BY <1>2, <2>1 DEF InsertDevice, ClaimDevice, ReturnWrite, CutOff
  <2>2. CASE DecisionWrite(s)
    <3>1. [call[s] EXCEPT !.pc = "announce"].pc \notin PurchasePCs
      BY <1>1 DEF Call, PurchasePCs
    <3> QED BY <1>2, <2>2, <3>1 DEF DecisionWrite
  <2>3. CASE CheckDevice(s)
    <3>1. [call[s] EXCEPT !.pc = "claim"].pc \notin PurchasePCs
      BY <1>1 DEF Call, PurchasePCs
    <3> QED BY <1>2, <2>3, <3>1 DEF CheckDevice
  <2>4. CASE FindAllocation(s)
    <3>1. \A q : [call[s] EXCEPT !.pc = "return", !.q = q].pc \notin PurchasePCs
      BY <1>1 DEF Call, PurchasePCs
    <3> QED BY <1>2, <2>4, <3>1 DEF FindAllocation
  <2> QED BY <1>4, <2>1, <2>2, <2>3, <2>4 DEF RegisterGoOn
<1> QED BY <1>3, <1>4

\* What the tables say stays as it is while they do.
LEMMA TablesSame ==
    ASSUME PurchasesInOrder, UNCHANGED purchaseVars
    PROVE  Numbered' /\ FinanceLast' /\ DutiesApart' /\ ReceiptsRight'
BY DEF PurchasesInOrder, purchaseVars, Numbered, FinanceLast, DutiesApart, ReceiptsRight,
       Signed, Received, Purchases, IsSysAdmin

LEMMA RegisterKeepsPurchases ==
    ASSUME OneSlot, TypeOK, PurchasesInOrder, NEW s \in Slots, RegisterStep(s)
    PROVE  PurchasesInOrder'
<1>1. UNCHANGED purchaseVars
  BY DEF RegisterStep
<1>2. Numbered' /\ FinanceLast' /\ DutiesApart' /\ ReceiptsRight'
  BY <1>1, TablesSame
<1>3. ASSUME NEW r \in Slots PROVE PurchaseSeen(call[r])'
  <2>1. call' = call \/ \E h : Go(s, h) /\ h.pc \notin PurchasePCs
    BY RegisterHands DEF RegisterStep
  <2>2. CASE call' = call
    BY <1>1, <2>2 DEF PurchasesInOrder, PurchaseSeen, purchaseVars, Purchases, TookManagerStage
  <2>3. ASSUME NEW h, Go(s, h), h.pc \notin PurchasePCs PROVE PurchaseSeen(call[r])'
    BY <2>3, OnlyHand DEF PurchaseSeen, PurchasePCs
  <2> QED BY <2>1, <2>2, <2>3
<1> QED BY <1>2, <1>3 DEF PurchasesInOrder

(* The handlers of procurement.                                            *)

\* A purchase request whose status is written stays one, and the others stay
\* as they are.
LEMMA StatusWritten ==
    ASSUME TypeOK, NEW p \in Purchases, NEW status \in PurchaseStatus,
           purchase' = [purchase EXCEPT ![p].status = status]
    PROVE  /\ Purchases' = Purchases
           /\ purchase'[p].status = status
           /\ \A x \in PurchaseIds \ {p} : purchase'[x] = purchase[x]
<1>1. /\ p \in PurchaseIds /\ purchase[p] \in PurchaseRow
      /\ purchase'[p] = [purchase[p] EXCEPT !.status = status]
      /\ \A x \in PurchaseIds \ {p} : purchase'[x] = purchase[x]
  BY DEF TypeOK, Purchases
<1>2. purchase'[p] \in PurchaseRow /\ purchase'[p].status = status
  BY <1>1 DEF PurchaseRow
<1>3. purchase'[p] # NoPurchase /\ purchase[p] # NoPurchase
  BY <1>1, <1>2, PurchaseAssumption
<1>4. \A x \in PurchaseIds : purchase'[x] # NoPurchase <=> purchase[x] # NoPurchase
  BY <1>1, <1>3
<1> QED BY <1>1, <1>2, <1>4 DEF Purchases

\* What the hand has seen stays so while the tables do.
LEMMA SeenStays ==
    ASSUME OneSlot, TypeOK, UNCHANGED purchaseVars, NEW s \in Slots, NEW h, Go(s, h), PurchaseSeen(h),
           NEW r \in Slots
    PROVE  PurchaseSeen(call[r])'
<1>1. call'[r] = h
  BY OnlyHand
<1> QED BY <1>1 DEF PurchaseSeen, purchaseVars, Purchases, TookManagerStage

\* The next identifier follows on the last.
LEMMA NextFollows ==
    ASSUME Numbered
    PROVE  Purchases = 1..(NextPurchaseId - 1)
<1>1. PICK n \in Nat : Purchases = 1..n
  BY DEF Numbered
<1>2. Cardinality(1..n) = n
  BY <1>1, FS_Interval
<1>3. NextPurchaseId - 1 = n
  BY <1>1, <1>2 DEF NextPurchaseId
<1> QED BY <1>1, <1>3

LEMMA PurchaseBeginSeen ==
    ASSUME TypeOK, PurchasesInOrder, NEW s \in Slots, NEW u \in Users, PurchaseBegin(s, u)
    PROVE  \E h : Go(s, h) /\ PurchaseSeen(h) /\ h.pc \notin ShelfPCs
<1>1. ASSUME NEW q, BeginPurchase(s, u, q) PROVE \E h : Go(s, h) /\ PurchaseSeen(h) /\ h.pc \notin ShelfPCs
  <2> DEFINE h == [Free EXCEPT !.pc = "raise", !.by = u, !.q = q, !.p = NextPurchaseId,
                               !.to = "PENDING_MANAGER_APPROVAL"]
  <2>1. h.pc = "raise" /\ h.p = NextPurchaseId
    BY DEF Free
  <2>2. Go(s, h)
    BY <1>1 DEF BeginPurchase
  <2> HIDE DEF h
  <2> QED BY <2>1, <2>2, NextFollows DEF PurchasesInOrder, PurchaseSeen, ShelfPCs
<1>2. ASSUME NEW p, NEW pc, Go(s, [Free EXCEPT !.pc = pc, !.by = u, !.p = p]),
             \/ pc \in {"edit", "submit"} /\ purchase[p].status = "RAISED"
             \/ pc = "order" /\ purchase[p].status = "FINANCE_APPROVED"
             \/ pc = "device id" /\ purchase[p].status = "PO_RAISED"
      PROVE  \E h : Go(s, h) /\ PurchaseSeen(h) /\ h.pc \notin ShelfPCs
  <2> DEFINE h == [Free EXCEPT !.pc = pc, !.by = u, !.p = p]
  <2>1. h.pc = pc /\ h.p = p
    BY DEF Free
  <2>2. Go(s, h)
    BY <1>2
  <2> HIDE DEF h
  <2> QED BY <1>2, <2>1, <2>2 DEF PurchaseSeen, ShelfPCs
<1>3. ASSUME NEW p, BeginEdit(s, u, p) \/ BeginSubmit(s, u, p)
      PROVE  \E h : Go(s, h) /\ PurchaseSeen(h) /\ h.pc \notin ShelfPCs
  BY <1>3, <1>2 DEF BeginEdit, BeginSubmit, Submittable
<1>4. ASSUME NEW p, BeginOrder(s, u, p) \/ BeginReceipt(s, u, p)
      PROVE  \E h : Go(s, h) /\ PurchaseSeen(h) /\ h.pc \notin ShelfPCs
  BY <1>4, <1>2 DEF BeginOrder, BeginReceipt
<1>5. ASSUME NEW p, NEW decision, BeginApproval(s, u, p, decision)
      PROVE  \E h : Go(s, h) /\ PurchaseSeen(h) /\ h.pc \notin ShelfPCs
  <2> DEFINE stage == StageOf(purchase[p].status)
             pc == IF stage = "FINANCE" /\ ~IsSysAdmin(u) THEN "duties" ELSE "approve"
             h == [Free EXCEPT !.pc = pc, !.by = u, !.p = p, !.stage = stage,
                               !.decision = decision, !.to = Decided(stage, decision)]
  <2>1. Go(s, h)
    BY <1>5 DEF BeginApproval
  <2>2. h.pc = pc /\ h.by = u /\ h.p = p /\ h.stage = stage
    BY DEF Free
  <2> HIDE DEF h
  <2>3. PurchaseSeen(h) /\ h.pc \notin ShelfPCs
    BY <2>2 DEF PurchaseSeen, ShelfPCs
  <2> QED BY <2>1, <2>3
<1> QED BY <1>1, <1>3, <1>4, <1>5 DEF PurchaseBegin

LEMMA PurchaseBeginKeeps ==
    ASSUME OneSlot, TypeOK, PurchasesInOrder, NEW s \in Slots, NEW u \in Users, PurchaseBegin(s, u)
    PROVE  PurchasesInOrder'
<1>1. UNCHANGED purchaseVars
  BY DEF PurchaseBegin, BeginPurchase, BeginEdit, BeginSubmit, BeginApproval, BeginOrder, BeginReceipt
<1>2. Numbered' /\ FinanceLast' /\ DutiesApart' /\ ReceiptsRight'
  BY <1>1, TablesSame
<1>3. \A r \in Slots : PurchaseSeen(call[r])'
  BY <1>1, PurchaseBeginSeen, SeenStays
<1> QED BY <1>2, <1>3 DEF PurchasesInOrder

\* A handler that has only looked has seen what it goes on with.
LEMMA PurchaseLook ==
    ASSUME TypeOK, PurchasesInOrder, NEW s \in Slots,
           Announce(s) \/ ListenerId(s) \/ CheckDuties(s) \/ ReceiptId(s)
    PROVE  \E h : Go(s, h) /\ PurchaseSeen(h) /\ h.pc \notin ShelfPCs
<1> DEFINE c == call[s]
<1>t. c \in Call
  BY DEF TypeOK
<1>s. PurchaseSeen(c)
  BY DEF PurchasesInOrder
<1>f. PurchaseSeen(Free) /\ Free.pc \notin ShelfPCs
  BY DEF PurchaseSeen, ShelfPCs, Free
<1> HIDE DEF c
<1>1. CASE Announce(s)
  <2>1. [c EXCEPT !.pc = "shortage"].pc = "shortage"
    BY <1>t DEF Call
  <2> DEFINE h == [c EXCEPT !.pc = "shortage"]
  <2>2. PurchaseSeen(h) /\ h.pc \notin ShelfPCs
    BY <2>1 DEF PurchaseSeen, ShelfPCs
  <2>3. Go(s, Free) \/ Go(s, h)
    BY <1>1 DEF Announce, c
  <2> QED BY <1>f, <2>2, <2>3
<1>2. CASE ListenerId(s)
  <2> DEFINE h == [c EXCEPT !.pc = "raise", !.p = NextPurchaseId, !.to = "RAISED"]
  <2>1. h.pc = "raise" /\ h.p = NextPurchaseId
    BY <1>t DEF Call
  <2>2. Go(s, h)
    BY <1>2 DEF ListenerId, c
  <2> HIDE DEF h
  <2> QED BY <2>1, <2>2, NextFollows DEF PurchasesInOrder, PurchaseSeen, ShelfPCs
<1>3. CASE CheckDuties(s)
  <2> DEFINE h == [c EXCEPT !.pc = "approve"]
  <2>1. h.pc = "approve" /\ h.p = c.p /\ h.by = c.by /\ h.stage = c.stage
    BY <1>t DEF Call
  <2>2. c.pc = "duties" /\ (Go(s, Free) \/ (Go(s, h) /\ ~TookManagerStage(c.by, c.p)))
    BY <1>3 DEF CheckDuties, c
  <2> HIDE DEF h
  <2>3. ~TookManagerStage(c.by, c.p) => (PurchaseSeen(h) /\ h.pc \notin ShelfPCs)
    BY <1>s, <2>1, <2>2 DEF PurchaseSeen, ShelfPCs
  <2> QED BY <1>f, <2>2, <2>3
<1>4. CASE ReceiptId(s)
  <2> DEFINE h == [c EXCEPT !.pc = "receive", !.d = NextDeviceId]
  <2>1. h.pc = "receive" /\ h.p = c.p
    BY <1>t DEF Call
  <2>2. c.pc = "device id" /\ Go(s, h)
    BY <1>4 DEF ReceiptId, c
  <2> HIDE DEF h
  <2>3. PurchaseSeen(h) /\ h.pc \notin ShelfPCs
    BY <1>s, <2>1, <2>2 DEF PurchaseSeen, ShelfPCs
  <2> QED BY <2>2, <2>3
<1> QED BY <1>1, <1>2, <1>3, <1>4

\* Where every other hand is empty it has seen all it should.
LEMMA EmptyHands ==
    ASSUME OneSlot, TypeOK, NEW s \in Slots, Go(s, Free), NEW r \in Slots
    PROVE  PurchaseSeen(call[r])'
<1>1. call'[r] = Free
  BY OnlyHand
<1> QED BY <1>1 DEF PurchaseSeen, Free

LEMMA InsertPurchaseKeeps ==
    ASSUME OneSlot, Safe, PurchasesInOrder, NEW s \in Slots, InsertPurchase(s)
    PROVE  PurchasesInOrder'
<1> DEFINE c == call[s]
<1>1. /\ c \in Call /\ Purchases = 1..(c.p - 1)
      /\ c.p \in PurchaseIds /\ c.to \in {"RAISED", "PENDING_MANAGER_APPROVAL"}
      /\ UNCHANGED <<steps, receipts>> /\ Go(s, Free)
  BY DEF Safe, TypeOK, InHand, Knows, KnowsIds, PurchasesInOrder, PurchaseSeen, InsertPurchase
<1>n. c.p \in Nat /\ c.p - 1 \in Nat /\ c.p \notin 1..(c.p - 1) /\ 1..c.p = 1..(c.p - 1) \cup {c.p}
      /\ c.p # 0
  BY <1>1, AssetBounds DEF PurchaseIds
<1>2. c.p \notin Purchases /\ purchase[c.p] = NoPurchase
  BY <1>1, <1>n DEF Purchases
<1>3. PICK filled \in BOOLEAN :
        purchase' = [purchase EXCEPT ![c.p] = [status |-> c.to, for |-> c.q, ready |-> filled]]
  BY <1>2 DEF InsertPurchase
<1> DEFINE row == [status |-> c.to, for |-> c.q, ready |-> filled]
<1>4. row \in PurchaseRow /\ row.status = c.to /\ row # NoPurchase
  BY <1>1, PurchaseAssumption DEF Call, PurchaseRow, PurchaseStatus
<1> HIDE DEF row, c
<1>5. purchase'[c.p] = row /\ \A x \in PurchaseIds \ {c.p} : purchase'[x] = purchase[x]
  BY <1>1, <1>3 DEF Safe, TypeOK, row
<1>6. Purchases' = Purchases \cup {c.p}
  BY <1>1, <1>4, <1>5 DEF Purchases
<1>7. Numbered'
  BY <1>1, <1>6, <1>n DEF Numbered
<1>8. FinanceLast'
  BY <1>1, <1>2, <1>5, <1>6 DEF PurchasesInOrder, FinanceLast, Signed, Purchases
<1>9. DutiesApart'
  BY <1>1 DEF PurchasesInOrder, DutiesApart, Signed, IsSysAdmin
<1>10. ReceiptsRight'
  <2>1. PICK p \in PurchaseIds : p = c.p
    BY <1>1
  <2>2. ~Received(p) /\ ~Received(p)'
    BY <1>1, <1>2, <1>4, <1>5, <2>1 DEF Received
  <2>3. \A x \in PurchaseIds \ {p} : Received(x)' <=> Received(x)
    BY <1>5, <2>1 DEF Received
  <2> QED BY <1>1, <2>2, <2>3 DEF PurchasesInOrder, ReceiptsRight
<1>11. \A r \in Slots : PurchaseSeen(call[r])'
  BY <1>1, EmptyHands DEF Safe
<1> QED BY <1>7, <1>8, <1>9, <1>10, <1>11 DEF PurchasesInOrder

\* A status that a receipt has not written changes nothing but itself, if it
\* was not the last one before.
LEMMA StatusMoves ==
    ASSUME OneSlot, Safe, PurchasesInOrder, NEW s \in Slots, Go(s, Free), UNCHANGED <<steps, receipts>>,
           NEW p \in Purchases, NEW status \in PurchaseStatus,
           purchase' = [purchase EXCEPT ![p].status = status],
           purchase[p].status # "RECEIVED", status # "RECEIVED",
           purchase[p].status \in {"FINANCE_APPROVED", "PO_RAISED"} => status = "PO_RAISED"
    PROVE  PurchasesInOrder'
<1>1. /\ Purchases' = Purchases /\ purchase'[p].status = status
      /\ \A x \in PurchaseIds \ {p} : purchase'[x] = purchase[x]
  BY StatusWritten DEF Safe
<1>p. p \in PurchaseIds
  BY DEF Purchases
<1>2. Numbered'
  BY <1>1 DEF PurchasesInOrder, Numbered
<1>3. FinanceLast'
  <2> SUFFICES ASSUME NEW e \in steps, Signed(e, "FINANCE")
               PROVE  e.p \in Purchases /\ purchase'[e.p].status \in {"FINANCE_APPROVED", "PO_RAISED", "RECEIVED"}
    BY <1>1 DEF FinanceLast, Signed
  <2>1. e.p \in Purchases /\ purchase[e.p].status \in {"FINANCE_APPROVED", "PO_RAISED", "RECEIVED"}
    BY DEF PurchasesInOrder, FinanceLast
  <2> QED BY <1>1, <2>1 DEF Purchases
<1>4. DutiesApart'
  BY DEF PurchasesInOrder, DutiesApart, Signed, IsSysAdmin
<1>5. ReceiptsRight'
  <2>1. ~Received(p) /\ ~Received(p)'
    BY <1>1 DEF Received
  <2>2. \A x \in PurchaseIds \ {p} : Received(x)' <=> Received(x)
    BY <1>1 DEF Received
  <2> QED BY <2>1, <2>2 DEF PurchasesInOrder, ReceiptsRight
<1>6. \A r \in Slots : PurchaseSeen(call[r])'
  BY EmptyHands DEF Safe
<1> QED BY <1>2, <1>3, <1>4, <1>5, <1>6 DEF PurchasesInOrder

LEMMA DraftAndOrderKeep ==
    ASSUME OneSlot, Safe, PurchasesInOrder, NEW s \in Slots,
           EditWrite(s) \/ SubmitWrite(s) \/ OrderWrite(s)
    PROVE  PurchasesInOrder'
<1> DEFINE c == call[s]
<1>1. c.p \in Purchases /\ Go(s, Free) /\ UNCHANGED <<steps, receipts>> /\ PurchaseSeen(c)
  BY DEF Safe, InHand, Knows, KnowsPurchase, PurchasesInOrder, EditWrite, SubmitWrite, OrderWrite
<1>2. PICK p \in Purchases : p = c.p
  BY <1>1
<1>3. CASE EditWrite(s)
  <2>1. purchase[p].status = "RAISED"
    BY <1>1, <1>2, <1>3 DEF EditWrite, PurchaseSeen
  <2>2. PICK b \in BOOLEAN : purchase' = [purchase EXCEPT ![p].ready = b]
    BY <1>2, <1>3 DEF EditWrite
  <2>3. p \in PurchaseIds /\ purchase[p] \in PurchaseRow
    BY DEF Purchases, Safe, TypeOK
  <2>4. /\ purchase'[p] = [purchase[p] EXCEPT !.ready = b]
        /\ \A x \in PurchaseIds \ {p} : purchase'[x] = purchase[x]
    BY <2>2, <2>3 DEF Safe, TypeOK
  <2>5. purchase'[p] \in PurchaseRow /\ purchase'[p].status = "RAISED"
    BY <2>1, <2>3, <2>4 DEF PurchaseRow
  <2>6. /\ Purchases' = Purchases
        /\ \A x \in Purchases : purchase'[x].status = purchase[x].status
    BY <2>1, <2>3, <2>4, <2>5, PurchaseAssumption DEF Purchases
  <2>7. Numbered' /\ DutiesApart'
    BY <1>1, <2>6 DEF PurchasesInOrder, Numbered, DutiesApart, Signed, IsSysAdmin
  <2>8. FinanceLast'
    BY <1>1, <2>6 DEF PurchasesInOrder, FinanceLast, Signed
  <2>9. \A x \in PurchaseIds : Received(x)' <=> Received(x)
    BY <2>6 DEF Received, Purchases
  <2>10. ReceiptsRight'
    BY <1>1, <2>9 DEF PurchasesInOrder, ReceiptsRight
  <2>11. \A r \in Slots : PurchaseSeen(call[r])'
    BY <1>1, EmptyHands DEF Safe
  <2> QED BY <2>7, <2>8, <2>10, <2>11 DEF PurchasesInOrder
<1>4. CASE SubmitWrite(s)
  <2>1. purchase[p].status = "RAISED"
    BY <1>1, <1>2, <1>4 DEF SubmitWrite, PurchaseSeen
  <2>2. /\ purchase' = [purchase EXCEPT ![p].status = "PENDING_MANAGER_APPROVAL"]
        /\ "PENDING_MANAGER_APPROVAL" \in PurchaseStatus
    BY <1>2, <1>4 DEF SubmitWrite, PurchaseStatus
  <2> QED BY <1>1, <2>1, <2>2, StatusMoves
<1>5. CASE OrderWrite(s)
  <2>1. purchase[p].status = "FINANCE_APPROVED"
    BY <1>1, <1>2, <1>5 DEF OrderWrite, PurchaseSeen
  <2>2. purchase' = [purchase EXCEPT ![p].status = "PO_RAISED"] /\ "PO_RAISED" \in PurchaseStatus
    BY <1>2, <1>5 DEF OrderWrite, PurchaseStatus
  <2> QED BY <1>1, <2>1, <2>2, StatusMoves
<1> QED BY <1>3, <1>4, <1>5

\* Only what is awaiting a decision is approved.
LEMMA StageStatus ==
    ASSUME NEW status, StageOf(status) \in Stages
    PROVE  /\ status \notin {"FINANCE_APPROVED", "PO_RAISED", "RECEIVED"}
           /\ "NONE" \notin Stages
BY DEF StageOf, Stages

LEMMA ApproveWriteKeeps ==
    ASSUME OneSlot, Safe, PurchasesInOrder, NEW s \in Slots, ApproveWrite(s)
    PROVE  PurchasesInOrder'
<1> DEFINE c == call[s]
<1>1. /\ c.p \in Purchases /\ c.by \in Users /\ c.stage \in Stages /\ c.decision \in Decisions
      /\ c.to = Decided(c.stage, c.decision)
      /\ StageOf(purchase[c.p].status) = c.stage
      /\ c.stage = "FINANCE" /\ ~IsSysAdmin(c.by) => ~TookManagerStage(c.by, c.p)
      /\ steps' = steps \cup {[p |-> c.p, by |-> c.by, stage |-> c.stage, decision |-> c.decision]}
      /\ purchase' = [purchase EXCEPT ![c.p].status = c.to]
      /\ Go(s, Free) /\ receipts' = receipts
  BY DEF Safe, InHand, Knows, KnowsPurchase, PurchasesInOrder, PurchaseSeen, ApproveWrite
<1>p. PICK p \in Purchases : p = c.p
  BY <1>1
<1>2. PICK status : p = c.p /\ status = c.to
  BY <1>p
<1> DEFINE new == [p |-> c.p, by |-> c.by, stage |-> c.stage, decision |-> c.decision]
<1>3. new.p = p /\ new.by = c.by /\ new.stage = c.stage /\ new.decision = c.decision
  BY <1>2
<1>s. steps' = steps \cup {new}
  BY <1>1
<1> HIDE DEF c, new
<1>4. /\ status \in PurchaseStatus /\ status # "RECEIVED"
      /\ status = "FINANCE_APPROVED" <=> c.stage = "FINANCE" /\ c.decision = "APPROVED"
  <2>1. Decided("FINANCE", "APPROVED") = "FINANCE_APPROVED"
    BY DEF Decided
  <2> QED BY <1>1, <1>2, <2>1, DecidedValues DEF PurchaseStatus
<1>5. /\ Purchases' = Purchases /\ purchase'[p].status = status
      /\ \A x \in PurchaseIds \ {p} : purchase'[x] = purchase[x]
  BY <1>1, <1>2, <1>4, StatusWritten DEF Safe
<1>6. purchase[p].status \notin {"FINANCE_APPROVED", "PO_RAISED", "RECEIVED"}
  BY <1>1, <1>2, StageStatus
<1>7. \A e \in steps : Signed(e, "FINANCE") => e.p # p
  BY <1>6 DEF PurchasesInOrder, FinanceLast
<1>8. Numbered'
  BY <1>5 DEF PurchasesInOrder, Numbered
<1>9. FinanceLast'
  <2> SUFFICES ASSUME NEW e \in steps \cup {new}, e.stage = "FINANCE", e.decision = "APPROVED"
               PROVE  /\ e.p \in Purchases
                      /\ purchase'[e.p].status \in {"FINANCE_APPROVED", "PO_RAISED", "RECEIVED"}
    BY <1>s, <1>5 DEF FinanceLast, Signed
  <2>1. CASE e = new
    BY <1>3, <1>4, <1>5, <2>1
  <2>2. CASE e \in steps
    <3>1. /\ e.p \in Purchases /\ e.p # p
          /\ purchase[e.p].status \in {"FINANCE_APPROVED", "PO_RAISED", "RECEIVED"}
      BY <1>7, <2>2 DEF PurchasesInOrder, FinanceLast, Signed
    <3> QED BY <1>5, <3>1 DEF Purchases
  <2> QED BY <2>1, <2>2
<1>10. DutiesApart'
  <2> SUFFICES ASSUME NEW e \in steps \cup {new}, NEW g \in steps \cup {new},
                      e.stage = "MANAGER", e.decision = "APPROVED",
                      g.stage = "FINANCE", g.decision = "APPROVED", e.p = g.p, e.by = g.by
               PROVE  IsSysAdmin(e.by)
    BY <1>s DEF DutiesApart, Signed, IsSysAdmin
  <2>1. CASE e \in steps /\ g \in steps
    BY <2>1 DEF PurchasesInOrder, DutiesApart, Signed
  <2>2. CASE e = new
    <3>1. g # new
      BY <2>2
    <3>2. g.p = p /\ g \in steps
      BY <1>3, <2>2, <3>1
    <3> QED BY <1>7, <3>2 DEF Signed
  <2>3. CASE e \in steps /\ g = new
    <3>1. c.stage = "FINANCE" /\ TookManagerStage(c.by, c.p)
      BY <1>2, <1>3, <2>3 DEF TookManagerStage
    <3> QED BY <1>1, <1>3, <2>3, <3>1
  <2> QED BY <2>1, <2>2, <2>3
<1>11. ReceiptsRight'
  <2>1. ~Received(p) /\ ~Received(p)'
    BY <1>4, <1>5, <1>6 DEF Received
  <2>2. \A x \in PurchaseIds \ {p} : Received(x)' <=> Received(x)
    BY <1>5 DEF Received
  <2> QED BY <1>1, <2>1, <2>2 DEF PurchasesInOrder, ReceiptsRight
<1>12. \A r \in Slots : PurchaseSeen(call[r])'
  BY <1>1, EmptyHands DEF Safe
<1> QED BY <1>8, <1>9, <1>10, <1>11, <1>12 DEF PurchasesInOrder

LEMMA ReceiveWriteKeeps ==
    ASSUME OneSlot, Safe, PurchasesInOrder, NEW s \in Slots, ReceiveWrite(s)
    PROVE  PurchasesInOrder'
<1> DEFINE c == call[s]
<1>1. /\ c.p \in Purchases /\ purchase[c.p].status = "PO_RAISED"
      /\ Go(s, Free) /\ steps' = steps
      /\ \/ UNCHANGED <<purchase, receipts>>
         \/ /\ purchase' = [purchase EXCEPT ![c.p].status = "RECEIVED"]
            /\ receipts' = [receipts EXCEPT ![c.p] = @ + 1]
  BY DEF Safe, InHand, Knows, KnowsPurchase, PurchasesInOrder, PurchaseSeen, ReceiveWrite
<1>2. PICK p \in Purchases : p = c.p
  BY <1>1
<1>3. \A r \in Slots : PurchaseSeen(call[r])'
  BY <1>1, EmptyHands DEF Safe
<1>4. CASE UNCHANGED <<purchase, receipts>>
  <2>1. Numbered' /\ FinanceLast' /\ DutiesApart' /\ ReceiptsRight'
    BY <1>1, <1>4, TablesSame DEF purchaseVars
  <2> QED BY <1>3, <2>1 DEF PurchasesInOrder
<1>5. CASE /\ purchase' = [purchase EXCEPT ![p].status = "RECEIVED"]
           /\ receipts' = [receipts EXCEPT ![p] = @ + 1]
  <2>1. /\ Purchases' = Purchases /\ purchase'[p].status = "RECEIVED"
        /\ \A x \in PurchaseIds \ {p} : purchase'[x] = purchase[x]
    BY <1>5, StatusWritten DEF Safe, PurchaseStatus
  <2>2. Numbered' /\ DutiesApart'
    BY <1>1, <2>1 DEF PurchasesInOrder, Numbered, DutiesApart, Signed, IsSysAdmin
  <2>3. FinanceLast'
    <3> SUFFICES ASSUME NEW e \in steps, e.stage = "FINANCE", e.decision = "APPROVED"
                 PROVE  /\ e.p \in Purchases
                        /\ purchase'[e.p].status \in {"FINANCE_APPROVED", "PO_RAISED", "RECEIVED"}
      BY <1>1, <2>1 DEF FinanceLast, Signed
    <3>1. e.p \in Purchases /\ purchase[e.p].status \in {"FINANCE_APPROVED", "PO_RAISED", "RECEIVED"}
      BY DEF PurchasesInOrder, FinanceLast, Signed
    <3> QED BY <2>1, <3>1 DEF Purchases
  <2>4. ReceiptsRight'
    <3>1. /\ p \in PurchaseIds /\ receipts[p] = 0
          /\ purchase[p] # NoPurchase /\ p \in Purchases'
      BY <1>1, <1>2, <2>1 DEF PurchasesInOrder, ReceiptsRight, Received, Purchases
    <3>2. receipts'[p] = 1 /\ \A x \in PurchaseIds \ {p} : receipts'[x] = receipts[x]
      BY <1>5, <3>1 DEF Safe, TypeOK
    <3>3. Received(p)' /\ \A x \in PurchaseIds \ {p} : Received(x)' <=> Received(x)
      BY <2>1, <3>1 DEF Received, Purchases
    <3> QED BY <3>2, <3>3 DEF PurchasesInOrder, ReceiptsRight
  <2> QED BY <1>3, <2>2, <2>3, <2>4 DEF PurchasesInOrder
<1> QED BY <1>1, <1>2, <1>4, <1>5

LEMMA PurchaseGoOnKeeps ==
    ASSUME OneSlot, Safe, PurchasesInOrder, NEW s \in Slots, PurchaseGoOn(s)
    PROVE  PurchasesInOrder'
<1>1. CASE Announce(s) \/ ListenerId(s) \/ CheckDuties(s) \/ ReceiptId(s)
  <2>1. UNCHANGED purchaseVars
    BY <1>1 DEF Announce, ListenerId, CheckDuties, ReceiptId
  <2>2. Numbered' /\ FinanceLast' /\ DutiesApart' /\ ReceiptsRight'
    BY <2>1, TablesSame
  <2>3. \A r \in Slots : PurchaseSeen(call[r])'
    BY <1>1, <2>1, PurchaseLook, SeenStays DEF Safe
  <2> QED BY <2>2, <2>3 DEF PurchasesInOrder
<1> QED
  BY <1>1, InsertPurchaseKeeps, DraftAndOrderKeep, ApproveWriteKeeps, ReceiveWriteKeeps DEF PurchaseGoOn

LEMMA PurchasesInOrderInit == Init => PurchasesInOrder
<1> SUFFICES ASSUME Init PROVE PurchasesInOrder
  OBVIOUS
<1>1. /\ call = [r \in Slots |-> Free] /\ purchase = [p \in PurchaseIds |-> NoPurchase]
      /\ steps = {} /\ receipts = [p \in PurchaseIds |-> 0]
  BY DEF Init, RegisterInit, PurchaseInit
<1>2. Purchases = {}
  BY <1>1 DEF Purchases
<1>3. Numbered
  <2>1. 0 \in Nat /\ {} = 1..0
    OBVIOUS
  <2> QED BY <1>2, <2>1 DEF Numbered
<1>4. FinanceLast /\ DutiesApart
  BY <1>1 DEF FinanceLast, DutiesApart
<1>5. ReceiptsRight
  BY <1>1 DEF ReceiptsRight, Received
<1>6. \A r \in Slots : PurchaseSeen(call[r])
  BY <1>1 DEF PurchaseSeen, Free
<1> QED BY <1>3, <1>4, <1>5, <1>6 DEF PurchasesInOrder

LEMMA PurchasesInOrderStep == OneSlot /\ Safe /\ PurchasesInOrder /\ [Next]_vars => PurchasesInOrder'
<1> SUFFICES ASSUME OneSlot, Safe, PurchasesInOrder, [Next]_vars PROVE PurchasesInOrder'
  OBVIOUS
<1>1. CASE UNCHANGED vars
  <2>1. Numbered' /\ FinanceLast' /\ DutiesApart' /\ ReceiptsRight'
    BY <1>1, TablesSame DEF vars, purchaseVars
  <2>2. \A r \in Slots : PurchaseSeen(call[r])'
    BY <1>1 DEF vars, PurchasesInOrder, PurchaseSeen, Purchases, TookManagerStage
  <2> QED BY <2>1, <2>2 DEF PurchasesInOrder
<1>2. CASE Next
  BY <1>2, RegisterKeepsPurchases, PurchaseBeginKeeps, PurchaseGoOnKeeps DEF Next, PurchaseStep, Safe
<1> QED BY <1>1, <1>2

LEMMA PurchasesInOrderAlways ==
    ASSUME OneSlot
    PROVE  Spec => []PurchasesInOrder
<1>1. Safe /\ PurchasesInOrder /\ [Next]_vars => PurchasesInOrder'
  BY PurchasesInOrderStep
<1> QED BY <1>1, SafeAlways, PurchasesInOrderInit, PTL DEF Spec

\* Nobody but a system administrator signs both stages of a purchase request,
\* as long as handlers do not overlap.
THEOREM DutiesSeparated ==
    ASSUME OneSlot
    PROVE  Spec => []SeparationOfDuties
<1>1. PurchasesInOrder => SeparationOfDuties
  <2> SUFFICES ASSUME PurchasesInOrder, NEW u \in Users, NEW p \in Purchases,
                      Approved(u, p, "MANAGER"), Approved(u, p, "FINANCE")
               PROVE  IsSysAdmin(u)
    BY DEF SeparationOfDuties
  <2> DEFINE e == [p |-> p, by |-> u, stage |-> "MANAGER", decision |-> "APPROVED"]
             g == [p |-> p, by |-> u, stage |-> "FINANCE", decision |-> "APPROVED"]
  <2>1. /\ Signed(e, "MANAGER") /\ Signed(g, "FINANCE") /\ e.p = g.p /\ e.by = g.by /\ e.by = u
        /\ e \in steps /\ g \in steps
    BY DEF Approved, Signed
  <2> HIDE DEF e, g
  <2> QED BY <2>1 DEF PurchasesInOrder, DutiesApart
<1> QED BY <1>1, PurchasesInOrderAlways, PTL

\* A purchase request brings one device into the register, and is RECEIVED
\* exactly when it has, as long as receipts do not overlap.
THEOREM ReceivedOnce ==
    ASSUME OneSlot
    PROVE  Spec => []OneDevicePerPurchase
<1>1. PurchasesInOrder => OneDevicePerPurchase
  BY DEF PurchasesInOrder, ReceiptsRight, Received, OneDevicePerPurchase, Purchases
<1> QED BY <1>1, PurchasesInOrderAlways, PTL

\* Only the insert takes a handler from the listener to its end, unless it is cut off.
LEMMA EndOfListener ==
    ASSUME OneSlot, Safe, [Next]_vars, NEW s \in Slots,
           call[s].pc \in {"shortage", "raise"}, call'[s].pc = "free", faults' = faults
    PROVE  InsertPurchase(s)
<1>1. call' # call
  OBVIOUS
<1>2. PICK r \in Slots : RegisterStep(r) \/ PurchaseStep(r)
  BY <1>1 DEF Next, vars
<1>3. r = s
  BY DEF OneSlot
<1>4. ~CanBegin(s)
  BY DEF CanBegin
<1>5. \A u \in Users : ~RegisterBegin(s, u) /\ ~PurchaseBegin(s, u)
  BY <1>4 DEF RegisterBegin, BeginDevice, EditDevice, Ask, BeginDecision, BeginAllocation, BeginReturn,
              PurchaseBegin, BeginPurchase, BeginEdit, BeginSubmit, BeginApproval, BeginOrder, BeginReceipt
<1>6. ~RegisterGoOn(s)
  <2>1. ~CutOff(s)
    BY DEF CutOff, Safe, TypeOK
  <2> QED BY <2>1 DEF RegisterGoOn, InsertDevice, DecisionWrite, CheckDevice, ClaimDevice, FindAllocation, ReturnWrite
<1>7. ~ListenerId(s)
  <2> SUFFICES ASSUME ListenerId(s) PROVE FALSE
    OBVIOUS
  <2> DEFINE h == [call[s] EXCEPT !.pc = "raise", !.p = NextPurchaseId, !.to = "RAISED"]
  <2>1. call[s] \in Call /\ call \in [Slots -> Call]
    BY DEF Safe, TypeOK
  <2>2. h.pc = "raise"
    BY <2>1 DEF Call
  <2>3. call' = [call EXCEPT ![s] = h]
    BY DEF ListenerId, Go
  <2> HIDE DEF h
  <2>4. call'[s].pc = "raise"
    BY <2>1, <2>2, <2>3
  <2> QED BY <2>4
<1>8. PurchaseGoOn(s)
  BY <1>2, <1>3, <1>5, <1>6 DEF RegisterStep, PurchaseStep
<1> QED BY <1>7, <1>8 DEF PurchaseGoOn, Announce, EditWrite, SubmitWrite, CheckDuties, ApproveWrite,
                          OrderWrite, ReceiptId, ReceiveWrite

\* An approval that finds no stock ends with a purchase request raised for the
\* device request, as long as handlers do not overlap and unless the listener
\* is cut off.
THEOREM ShortageAnswered ==
    ASSUME OneSlot
    PROVE  Spec => ShortageRaisesPurchase
<1>1. ASSUME Safe, PurchasesInOrder, [Next]_vars, NEW s \in Slots,
             call[s].pc \in {"shortage", "raise"}, call[s].q # 0, call'[s].pc = "free", faults' = faults
      PROVE  \E p \in PurchaseIds : purchase'[p] # NoPurchase /\ purchase'[p].for = call[s].q
  <2> DEFINE c == call[s]
  <2>1. InsertPurchase(s)
    BY <1>1, EndOfListener
  <2>2. c.pc = "raise" /\ c.p \in PurchaseIds /\ Purchases = 1..(c.p - 1) /\ c \in Call
        /\ c.to \in {"RAISED", "PENDING_MANAGER_APPROVAL"}
    BY <1>1, <2>1 DEF InsertPurchase, Safe, TypeOK, InHand, Knows, KnowsIds, PurchasesInOrder, PurchaseSeen
  <2>3. purchase[c.p] = NoPurchase
    BY <2>2, AssetBounds DEF Purchases, PurchaseIds
  <2>4. PICK filled \in BOOLEAN :
          purchase' = [purchase EXCEPT ![c.p] = [status |-> c.to, for |-> c.q, ready |-> filled]]
    BY <2>1, <2>3 DEF InsertPurchase
  <2> DEFINE row == [status |-> c.to, for |-> c.q, ready |-> filled]
  <2>5. row.for = c.q /\ row \in PurchaseRow
    BY <2>2 DEF Call, PurchaseRow, PurchaseStatus
  <2> HIDE DEF row
  <2>6. purchase'[c.p] = row
    BY <1>1, <2>2, <2>4 DEF Safe, TypeOK, row
  <2> QED BY <2>2, <2>5, <2>6, PurchaseAssumption
<1>2. Safe /\ PurchasesInOrder /\ [Next]_vars =>
        [\A s \in Slots :
           call[s].pc \in {"shortage", "raise"} /\ call[s].q # 0 /\ call'[s].pc = "free" /\ faults' = faults
               => \E p \in PurchaseIds : purchase'[p] # NoPurchase /\ purchase'[p].for = call[s].q]_vars
  BY <1>1
<1> QED BY <1>2, SafeAlways, PurchasesInOrderAlways, PTL DEF Spec, ShortageRaisesPurchase

-----------------------------------------------------------------------------
(* The shelf.                                                              *)

\* A device reads ALLOCATED while a request has it, and one request at most does.
HeldRight(d) ==
    /\ device[d] = "ALLOCATED" <=> \E q \in RequestIds : Holds(q, d)
    /\ \A q, c \in RequestIds : Holds(q, d) /\ Holds(c, d) => q = c

\* What a handler about to insert or to take back a device has read.
ShelfSeen(h) ==
    /\ h.pc = "insert" => h.to = "AVAILABLE"
    /\ h.pc = "return" => ~alloc[h.q].returned

ShelfInOrder ==
    /\ \A d \in DeviceIds : HeldRight(d)
    /\ \A s \in Slots : ShelfSeen(call[s])

\* Every handler goes on with what it has seen.
LEMMA ShelfHands ==
    ASSUME HandStatuses = {}, Safe, PurchasesInOrder, [Next]_vars
    PROVE  \/ call' = call /\ alloc' = alloc
           \/ \E s \in Slots : \E h : Go(s, h) /\ ShelfSeen(h) /\ (h.pc = "return" => alloc' = alloc)
<1> DEFINE Fine(s) == \E h : Go(s, h) /\ ShelfSeen(h) /\ (h.pc = "return" => alloc' = alloc)
<1>1. ASSUME NEW s, NEW h, Go(s, h), h.pc \notin ShelfPCs PROVE Fine(s)
  BY <1>1 DEF ShelfSeen, ShelfPCs
<1>2. Free.pc \notin ShelfPCs
  BY DEF Free, ShelfPCs
<1>3. \A s : Go(s, Free) => Fine(s)
  BY <1>1, <1>2
<1>4. ASSUME NEW s \in Slots, NEW u \in Users, RegisterBegin(s, u)
      PROVE  (call' = call /\ alloc' = alloc) \/ Fine(s)
  <2>1. ASSUME BeginDevice(s, u, "AVAILABLE") PROVE Fine(s)
    <3> DEFINE h == [Free EXCEPT !.pc = "insert", !.by = u, !.d = NextDeviceId, !.to = "AVAILABLE"]
    <3>1. Go(s, h) /\ h.pc = "insert" /\ h.to = "AVAILABLE"
      BY <2>1 DEF BeginDevice, Free
    <3> HIDE DEF h
    <3> QED BY <3>1 DEF ShelfSeen
  <2>2. ASSUME NEW q, Ask(s, u, q) PROVE call' = call /\ alloc' = alloc
    BY <2>2 DEF Ask
  <2>3. ASSUME NEW q, NEW to, BeginDecision(s, u, q, to) PROVE Fine(s)
    <3> DEFINE h == [Free EXCEPT !.pc = "decide", !.by = u, !.q = q, !.to = to]
    <3>1. Go(s, h) /\ h.pc = "decide"
      BY <2>3 DEF BeginDecision, Free
    <3> HIDE DEF h
    <3> QED BY <1>1, <3>1 DEF ShelfPCs
  <2>4. ASSUME NEW q, NEW d, BeginAllocation(s, u, q, d) PROVE Fine(s)
    <3> DEFINE h == [Free EXCEPT !.pc = "check device", !.by = u, !.q = q, !.d = d]
    <3>1. Go(s, h) /\ h.pc = "check device"
      BY <2>4 DEF BeginAllocation, Free
    <3> HIDE DEF h
    <3> QED BY <1>1, <3>1 DEF ShelfPCs
  <2>5. ASSUME NEW d, BeginReturn(s, u, d) PROVE Fine(s)
    <3> DEFINE h == [Free EXCEPT !.pc = "find", !.by = u, !.d = d]
    <3>1. Go(s, h) /\ h.pc = "find"
      BY <2>5 DEF BeginReturn, Free
    <3> HIDE DEF h
    <3> QED BY <1>1, <3>1 DEF ShelfPCs
  <2>6. HandStatuses \cup {"AVAILABLE"} = {"AVAILABLE"} /\ ~\E d \in DeviceIds, to \in HandStatuses : TRUE
    OBVIOUS
  <2> HIDE DEF Fine
  <2> QED BY <1>4, <2>1, <2>2, <2>3, <2>4, <2>5, <2>6 DEF RegisterBegin
<1>5. ASSUME NEW s \in Slots, RegisterGoOn(s) PROVE Fine(s)
  <2> DEFINE c == call[s]
  <2>t. c \in Call
    BY DEF Safe, TypeOK
  <2>1. CASE InsertDevice(s) \/ ClaimDevice(s) \/ ReturnWrite(s) \/ CutOff(s)
    BY <1>3, <2>1 DEF InsertDevice, ClaimDevice, ReturnWrite, CutOff
  <2>2. ASSUME NEW pc, pc \notin ShelfPCs, Go(s, [c EXCEPT !.pc = pc]) PROVE Fine(s)
    <3> DEFINE h == [c EXCEPT !.pc = pc]
    <3>1. h.pc = pc
      BY <2>t DEF Call
    <3>2. Go(s, h)
      BY <2>2
    <3> HIDE DEF h
    <3> QED BY <1>1, <2>2, <3>1, <3>2
  <2>3. "announce" \notin ShelfPCs /\ "claim" \notin ShelfPCs
    BY DEF ShelfPCs
  <2>4. CASE DecisionWrite(s)
    <3>1. Go(s, Free) \/ Go(s, [c EXCEPT !.pc = "announce"])
      BY <2>4 DEF DecisionWrite
    <3> QED BY <1>3, <2>2, <2>3, <3>1
  <2>5. CASE CheckDevice(s)
    <3>1. Go(s, Free) \/ Go(s, [c EXCEPT !.pc = "claim"])
      BY <2>5 DEF CheckDevice
    <3> QED BY <1>3, <2>2, <2>3, <3>1
  <2>6. CASE FindAllocation(s)
    <3>1. CASE Go(s, Free)
      BY <1>3, <3>1
    <3>2. ASSUME NEW q, Holds(q, c.d), Go(s, [c EXCEPT !.pc = "return", !.q = q]) PROVE Fine(s)
      <4> DEFINE h == [c EXCEPT !.pc = "return", !.q = q]
      <4>1. h.pc = "return" /\ h.q = q
        BY <2>t DEF Call
      <4>2. Go(s, h) /\ ~alloc[q].returned /\ alloc' = alloc
        BY <2>6, <3>2 DEF Holds, FindAllocation, registerVars
      <4> HIDE DEF h
      <4> QED BY <4>1, <4>2 DEF ShelfSeen
    <3> QED BY <2>6, <3>1, <3>2 DEF FindAllocation
  <2> QED BY <1>5, <2>1, <2>4, <2>5, <2>6 DEF RegisterGoOn
<1>6. ASSUME NEW s \in Slots, PurchaseStep(s) PROVE Fine(s)
  <2>1. \/ \E u \in Users : PurchaseBegin(s, u)
        \/ Announce(s) \/ ListenerId(s) \/ CheckDuties(s) \/ ReceiptId(s)
        \/ InsertPurchase(s) \/ EditWrite(s) \/ SubmitWrite(s) \/ ApproveWrite(s)
        \/ OrderWrite(s) \/ ReceiveWrite(s)
    BY <1>6 DEF PurchaseStep, PurchaseGoOn
  <2>2. \/ Go(s, Free) \/ \E h : Go(s, h) /\ h.pc \notin ShelfPCs
    <3>1. CASE InsertPurchase(s) \/ EditWrite(s) \/ SubmitWrite(s) \/ ApproveWrite(s)
               \/ OrderWrite(s) \/ ReceiveWrite(s)
      BY <3>1 DEF InsertPurchase, EditWrite, SubmitWrite, ApproveWrite, OrderWrite, ReceiveWrite
    <3> QED BY <2>1, <3>1, PurchaseLook, PurchaseBeginSeen DEF Safe
  <2> QED BY <1>1, <1>3, <2>2
<1>7. UNCHANGED vars => call' = call /\ alloc' = alloc
  BY DEF vars
<1> HIDE DEF Fine
<1>8. (call' = call /\ alloc' = alloc) \/ \E s \in Slots : Fine(s)
  <2>1. CASE Next
    <3>1. PICK s \in Slots : RegisterStep(s) \/ PurchaseStep(s)
      BY <2>1 DEF Next
    <3>2. (\E u \in Users : RegisterBegin(s, u)) \/ RegisterGoOn(s) \/ PurchaseStep(s)
      BY <3>1 DEF RegisterStep
    <3> QED BY <1>4, <1>5, <1>6, <3>2
  <2> QED BY <1>7, <2>1
<1> QED BY <1>8 DEF Fine

\* A new device is with nobody.
LEMMA NewDevice ==
    ASSUME TypeOK, ShelfInOrder, NEW d \in DeviceIds, device[d] = NoDevice,
           device' = [device EXCEPT ![d] = "AVAILABLE"], alloc' = alloc, NEW x \in DeviceIds
    PROVE  HeldRight(x)'
<1>1. /\ device'[d] = "AVAILABLE" /\ (x # d => device'[x] = device[x])
      /\ device[d] # "ALLOCATED"
  BY AssetRowsAssumption DEF TypeOK, DeviceStatus
<1>2. HeldRight(x) /\ HeldRight(d)
  BY DEF ShelfInOrder
<1> QED BY <1>1, <1>2 DEF HeldRight, Holds

\* A claimed device is with the request that claimed it.
LEMMA ClaimedDevice ==
    ASSUME TypeOK, ShelfInOrder, NEW q \in RequestIds, NEW d \in DeviceIds, Claimable(q, d),
           device' = [device EXCEPT ![d] = "ALLOCATED"],
           alloc' = [alloc EXCEPT ![q] = [device |-> d, returned |-> FALSE]], NEW x \in DeviceIds
    PROVE  HeldRight(x)'
<1>1. /\ device'[d] = "ALLOCATED" /\ (x # d => device'[x] = device[x])
      /\ alloc'[q] = [device |-> d, returned |-> FALSE]
      /\ \A c \in RequestIds \ {q} : alloc'[c] = alloc[c]
  BY DEF TypeOK
<1>2. \A c \in RequestIds : ~Holds(c, d)
  BY DEF ShelfInOrder, HeldRight, Claimable
<1>3. \A y : ~Holds(q, y) \/ y = 0
  BY DEF Claimable, Holds, Unallocated
<1>4. \A c \in RequestIds : Holds(c, x)' <=> IF c = q THEN x = d ELSE Holds(c, x)
  BY <1>1 DEF Holds
<1>5. x # 0
  BY DEF DeviceIds
<1>6. HeldRight(x)
  BY DEF ShelfInOrder
<1>7. CASE x = d
  BY <1>1, <1>2, <1>4, <1>7 DEF HeldRight
<1>8. CASE x # d
  BY <1>1, <1>3, <1>4, <1>5, <1>6, <1>8 DEF HeldRight
<1> QED BY <1>7, <1>8

\* A device taken back is with nobody.
LEMMA ReturnedDevice ==
    ASSUME TypeOK, ShelfInOrder, NEW q \in RequestIds, NEW d \in DeviceIds, Holds(q, d),
           device' = [device EXCEPT ![d] = "AVAILABLE"],
           alloc' = [alloc EXCEPT ![q].returned = TRUE], NEW x \in DeviceIds
    PROVE  HeldRight(x)'
<1>1. /\ device'[d] = "AVAILABLE" /\ (x # d => device'[x] = device[x])
      /\ alloc'[q] = [alloc[q] EXCEPT !.returned = TRUE] /\ alloc[q] \in Allocation
      /\ \A c \in RequestIds \ {q} : alloc'[c] = alloc[c]
  BY DEF TypeOK
<1>2. alloc'[q].returned = TRUE
  BY <1>1 DEF Allocation
<1>3. \A c \in RequestIds : Holds(c, x)' <=> c # q /\ Holds(c, x)
  BY <1>1, <1>2 DEF Holds
<1>4. HeldRight(x)
  BY DEF ShelfInOrder
<1>5. CASE x = d
  BY <1>1, <1>3, <1>4, <1>5 DEF HeldRight
<1>6. CASE x # d
  <2>1. ~Holds(q, x)
    BY <1>6 DEF Holds
  <2> QED BY <1>1, <1>3, <1>4, <1>6, <2>1 DEF HeldRight
<1> QED BY <1>5, <1>6

\* The four ways the register and what is out of it change together.
ShelfChange ==
    \/ UNCHANGED <<device, alloc>>
    \/ \E d \in DeviceIds :
         /\ device[d] = NoDevice
         /\ device' = [device EXCEPT ![d] = "AVAILABLE"] /\ alloc' = alloc
    \/ \E q \in RequestIds, d \in Devices :
         /\ Claimable(q, d)
         /\ device' = [device EXCEPT ![d] = "ALLOCATED"]
         /\ alloc' = [alloc EXCEPT ![q] = [device |-> d, returned |-> FALSE]]
    \/ \E q \in RequestIds, d \in Devices :
         /\ Holds(q, d)
         /\ device' = [device EXCEPT ![d] = "AVAILABLE"]
         /\ alloc' = [alloc EXCEPT ![q].returned = TRUE]

LEMMA ShelfChanges ==
    ASSUME HandStatuses = {}, Safe, ShelfInOrder, [Next]_vars
    PROVE  ShelfChange
<1>1. ASSUME NEW s \in Slots, InsertDevice(s) PROVE ShelfChange
  <2>1. call[s].d \in DeviceIds /\ call[s].to = "AVAILABLE"
    BY <1>1 DEF InsertDevice, Safe, InHand, Knows, KnowsIds, ShelfInOrder, ShelfSeen
  <2> QED BY <1>1, <2>1 DEF InsertDevice, ShelfChange
<1>2. ASSUME NEW s \in Slots, ReceiveWrite(s) PROVE ShelfChange
  <2>1. call[s].d \in DeviceIds
    BY <1>2 DEF ReceiveWrite, Safe, InHand, Knows, KnowsIds
  <2> QED BY <1>2, <2>1 DEF ReceiveWrite, ShelfChange
<1>3. ASSUME NEW s \in Slots, ClaimDevice(s) PROVE ShelfChange
  <2>1. call[s].q \in RequestIds /\ call[s].d \in Devices
    BY <1>3 DEF ClaimDevice, Safe, InHand, Knows, KnowsRequest, Asked
  <2> QED BY <1>3, <2>1 DEF ClaimDevice, ShelfChange, registerVars
<1>4. ASSUME NEW s \in Slots, ReturnWrite(s) PROVE ShelfChange
  <2>1. call[s].q \in RequestIds /\ call[s].d \in Devices /\ Holds(call[s].q, call[s].d)
    BY <1>4 DEF ReturnWrite, Safe, InHand, Knows, KnowsRequest, Asked, ShelfInOrder, ShelfSeen, Holds
  <2> QED BY <1>4, <2>1 DEF ReturnWrite, ShelfChange
<1>5. ASSUME NEW s \in Slots, NEW u \in Users, NEW q \in RequestIds, Ask(s, u, q)
      PROVE  UNCHANGED <<device, alloc>>
  BY <1>5 DEF Ask
<1>6. ASSUME NEW s \in Slots,
             \/ DecisionWrite(s)
             \/ InsertPurchase(s) \/ EditWrite(s) \/ SubmitWrite(s) \/ ApproveWrite(s) \/ OrderWrite(s)
      PROVE  UNCHANGED <<device, alloc>>
  BY <1>6 DEF DecisionWrite, InsertPurchase, EditWrite, SubmitWrite, ApproveWrite, OrderWrite, registerVars
<1>7. Looked => UNCHANGED <<device, alloc>>
  BY DEF Looked
<1>8. ~\E u \in Users, d \in DeviceIds, to \in HandStatuses : TRUE
  OBVIOUS
<1>9. UNCHANGED <<device, alloc>> => ShelfChange
  BY DEF ShelfChange
<1> QED BY StepKinds, <1>1, <1>2, <1>3, <1>4, <1>5, <1>6, <1>7, <1>8, <1>9

LEMMA ShelfInOrderStep ==
    ASSUME OneSlot, HandStatuses = {}, Safe, PurchasesInOrder, ShelfInOrder, [Next]_vars
    PROVE  ShelfInOrder'
<1>1. ASSUME NEW x \in DeviceIds PROVE HeldRight(x)'
  <2>1. CASE UNCHANGED <<device, alloc>>
    BY <2>1 DEF ShelfInOrder, HeldRight, Holds
  <2>2. TypeOK /\ Devices \subseteq DeviceIds
    BY DEF Safe, Devices
  <2> QED BY <2>1, <2>2, ShelfChanges, NewDevice, ClaimedDevice, ReturnedDevice DEF ShelfChange
<1>2. ASSUME NEW r \in Slots PROVE ShelfSeen(call[r])'
  <2>1. CASE call' = call /\ alloc' = alloc
    BY <2>1 DEF ShelfInOrder, ShelfSeen
  <2>2. ASSUME NEW s \in Slots, NEW h, Go(s, h), ShelfSeen(h), h.pc = "return" => alloc' = alloc
        PROVE  ShelfSeen(call[r])'
    <3>1. call'[r] = h
      BY <2>2, OnlyHand DEF Safe
    <3> QED BY <2>2, <3>1 DEF ShelfSeen
  <2> QED BY <2>1, <2>2, ShelfHands
<1> QED BY <1>1, <1>2 DEF ShelfInOrder

LEMMA ShelfInOrderInit == Init => ShelfInOrder
<1> SUFFICES ASSUME Init PROVE ShelfInOrder
  OBVIOUS
<1>1. /\ device = [d \in DeviceIds |-> NoDevice] /\ alloc = [q \in RequestIds |-> Unallocated]
      /\ call = [s \in Slots |-> Free]
  BY DEF Init, RegisterInit
<1>2. 0 \notin DeviceIds /\ "ALLOCATED" \in DeviceStatus
  BY DEF DeviceIds, DeviceStatus
<1>3. \A d \in DeviceIds : HeldRight(d)
  BY <1>1, <1>2, AssetRowsAssumption DEF HeldRight, Holds, Unallocated
<1>4. \A s \in Slots : ShelfSeen(call[s])
  BY <1>1 DEF ShelfSeen, Free
<1> QED BY <1>3, <1>4 DEF ShelfInOrder

LEMMA ShelfInOrderAlways ==
    ASSUME OneSlot, HandStatuses = {}
    PROVE  Spec => []ShelfInOrder
<1>1. Safe /\ PurchasesInOrder /\ ShelfInOrder /\ [Next]_vars => ShelfInOrder'
  BY ShelfInOrderStep
<1> QED BY <1>1, SafeAlways, PurchasesInOrderAlways, ShelfInOrderInit, PTL DEF Spec

\* A device reads ALLOCATED exactly while one request has it, and no device is
\* out for two, as long as handlers do not overlap and nobody sets a status by hand.
THEOREM ShelfCorrect ==
    ASSUME OneSlot, HandStatuses = {}
    PROVE  Spec => []AllocatedIffHeld
<1>1. Safe /\ ShelfInOrder => AllocatedIffHeld
  <2> SUFFICES ASSUME Safe, ShelfInOrder, NEW d \in DeviceIds
               PROVE  LET holders == {q \in Asked : Holds(q, d)} IN
                      /\ (device[d] = "ALLOCATED") <=> (holders # {})
                      /\ \A q, c \in holders : q = c
    BY DEF AllocatedIffHeld
  <2>1. \A q \in RequestIds : Holds(q, d) => q \in Asked
    BY DEF Safe, RequestRows, Holds, Unallocated, DeviceIds
  <2>2. Asked \subseteq RequestIds
    BY DEF Asked
  <2>3. HeldRight(d)
    BY DEF ShelfInOrder
  <2> QED BY <2>1, <2>2, <2>3 DEF HeldRight
<1> QED BY <1>1, SafeAlways, ShelfInOrderAlways, PTL

-----------------------------------------------------------------------------
(* The abstract register.                                                  *)

AbsHeld == {i \in DeviceIds \X RequestIds : Holds(i[2], i[1])}
AbsServed == {q \in RequestIds : alloc[q] # Unallocated}

\* What is out, pair by pair.
LEMMA AbsHeldIs ==
    ASSUME NEW d, NEW q
    PROVE  <<d, q>> \in AbsHeld <=> d \in DeviceIds /\ q \in RequestIds /\ Holds(q, d)
BY DEF AbsHeld

\* An allocation that leaves the pairs but one, and the requests but one, as
\* they were adds it, or takes it away.
LEMMA AbsIssue ==
    ASSUME NEW q \in RequestIds, NEW d \in DeviceIds, Holds(q, d)', alloc'[q] # Unallocated,
           \A x \in DeviceIds : x # d => ~Holds(q, x)',
           \A y \in DeviceIds : ~Holds(q, y),
           \A c \in RequestIds \ {q} : alloc'[c] = alloc[c]
    PROVE  AbsHeld' = AbsHeld \cup {<<d, q>>} /\ AbsServed' = AbsServed \cup {q}
<1>1. ASSUME NEW i \in DeviceIds \X RequestIds
      PROVE  Holds(i[2], i[1])' <=> i = <<d, q>> \/ Holds(i[2], i[1])
  <2>1. i = <<i[1], i[2]>> /\ i[1] \in DeviceIds /\ i[2] \in RequestIds
    OBVIOUS
  <2>2. CASE i[2] = q
    BY <2>1, <2>2
  <2>3. CASE i[2] # q
    BY <2>1, <2>3 DEF Holds
  <2> QED BY <2>2, <2>3
<1>2. AbsHeld' = AbsHeld \cup {<<d, q>>}
  BY <1>1 DEF AbsHeld
<1> QED BY <1>2 DEF AbsServed

LEMMA AbsTakeBack ==
    ASSUME NEW q \in RequestIds, NEW d \in DeviceIds, Holds(q, d), d # 0,
           alloc'[q].device = d, alloc'[q].returned = TRUE,
           \A c \in RequestIds \ {q} : alloc'[c] = alloc[c]
    PROVE  AbsHeld' = AbsHeld \ {<<d, q>>} /\ AbsServed' = AbsServed
<1>1. ASSUME NEW i \in DeviceIds \X RequestIds
      PROVE  Holds(i[2], i[1])' <=> i # <<d, q>> /\ Holds(i[2], i[1])
  <2>1. i = <<i[1], i[2]>> /\ i[1] \in DeviceIds /\ i[2] \in RequestIds
    OBVIOUS
  <2>2. CASE i[2] = q
    BY <2>1, <2>2 DEF Holds
  <2>3. CASE i[2] # q
    BY <2>1, <2>3 DEF Holds
  <2> QED BY <2>2, <2>3
<1>2. AbsHeld' = AbsHeld \ {<<d, q>>}
  BY <1>1 DEF AbsHeld
<1>3. alloc[q] # Unallocated /\ alloc'[q] # Unallocated
  BY DEF Holds, Unallocated
<1> QED BY <1>2, <1>3 DEF AbsServed

\* The three kinds of change are the three operations of the register.
LEMMA ShelfRefines ==
    ASSUME TypeOK, ShelfInOrder, ShelfChange
    PROVE  [Register!ArNext]_(Register!arVars)
<1>t. Devices \subseteq DeviceIds /\ 0 \notin DeviceIds
  BY DEF Devices, DeviceIds
<1>1. CASE UNCHANGED <<device, alloc>>
  <2>1. Devices' = Devices /\ AbsHeld' = AbsHeld /\ AbsServed' = AbsServed
    BY <1>1 DEF Devices, AbsHeld, AbsServed, Holds
  <2> QED BY <2>1 DEF Register!arVars, AbsHeld, AbsServed
<1>2. ASSUME NEW d \in DeviceIds, device[d] = NoDevice,
             device' = [device EXCEPT ![d] = "AVAILABLE"], alloc' = alloc
      PROVE  Register!ArNext
  <2>1. "AVAILABLE" # NoDevice
    BY AssetRowsAssumption DEF DeviceStatus
  <2>2. d \notin Devices /\ Devices' = Devices \cup {d}
    BY <1>2, <2>1 DEF TypeOK, Devices
  <2>3. AbsHeld' = AbsHeld /\ AbsServed' = AbsServed
    BY <1>2 DEF AbsHeld, AbsServed, Holds
  <2>4. Register!Acquire(d)
    BY <2>2, <2>3 DEF Register!Acquire, AbsHeld, AbsServed
  <2> QED BY <2>4 DEF Register!ArNext
<1>3. ASSUME NEW q \in RequestIds, NEW d \in Devices, Claimable(q, d),
             device' = [device EXCEPT ![d] = "ALLOCATED"],
             alloc' = [alloc EXCEPT ![q] = [device |-> d, returned |-> FALSE]]
      PROVE  Register!ArNext
  <2>1. d \in DeviceIds /\ device[d] = "AVAILABLE" /\ alloc[q] = Unallocated
    BY <1>3, <1>t DEF Claimable
  <2>2. "ALLOCATED" # NoDevice
    BY AssetRowsAssumption DEF DeviceStatus
  <2>3. Devices' = Devices
    BY <1>3, <2>1, <2>2 DEF TypeOK, Devices
  <2>4. \A c \in RequestIds : <<d, c>> \notin AbsHeld
    BY <2>1, AbsHeldIs DEF ShelfInOrder, HeldRight
  <2>5. q \notin AbsServed
    BY <2>1 DEF AbsServed
  <2>6. /\ alloc'[q] = [device |-> d, returned |-> FALSE]
        /\ \A c \in RequestIds \ {q} : alloc'[c] = alloc[c]
    BY <1>3 DEF TypeOK
  <2>7. AbsHeld' = AbsHeld \cup {<<d, q>>} /\ AbsServed' = AbsServed \cup {q}
    <3>1. Holds(q, d)' /\ alloc'[q] # Unallocated /\ \A x \in DeviceIds : x # d => ~Holds(q, x)'
      BY <1>t, <2>6 DEF Holds, Unallocated
    <3>2. \A y \in DeviceIds : ~Holds(q, y)
      BY <1>t, <2>1 DEF Holds, Unallocated
    <3> QED BY <2>1, <2>6, <3>1, <3>2, AbsIssue
  <2>8. Register!Issue(d, q)
    BY <2>3, <2>4, <2>5, <2>7 DEF Register!Issue, AbsHeld, AbsServed
  <2> QED BY <1>t, <2>8 DEF Register!ArNext
<1>4. ASSUME NEW q \in RequestIds, NEW d \in Devices, Holds(q, d),
             device' = [device EXCEPT ![d] = "AVAILABLE"],
             alloc' = [alloc EXCEPT ![q].returned = TRUE]
      PROVE  Register!ArNext
  <2>1. d \in DeviceIds /\ d # 0 /\ alloc[q].device = d
    BY <1>4, <1>t DEF Holds
  <2>2. "AVAILABLE" # NoDevice
    BY AssetRowsAssumption DEF DeviceStatus
  <2>3. Devices' = Devices
    BY <1>4, <2>1, <2>2 DEF TypeOK, Devices
  <2>4. <<d, q>> \in AbsHeld
    BY <1>4, <2>1, AbsHeldIs
  <2>5. /\ alloc[q] \in Allocation /\ alloc'[q] = [alloc[q] EXCEPT !.returned = TRUE]
        /\ \A c \in RequestIds \ {q} : alloc'[c] = alloc[c]
    BY <1>4 DEF TypeOK
  <2>6. alloc'[q].device = d /\ alloc'[q].returned = TRUE
    BY <2>1, <2>5 DEF Allocation
  <2>7. AbsHeld' = AbsHeld \ {<<d, q>>} /\ AbsServed' = AbsServed
    BY <1>4, <2>1, <2>5, <2>6, AbsTakeBack
  <2>8. Register!TakeBack(d, q)
    BY <2>3, <2>4, <2>7 DEF Register!TakeBack, AbsHeld, AbsServed
  <2> QED BY <1>t, <2>8 DEF Register!ArNext
<1> QED BY <1>1, <1>2, <1>3, <1>4 DEF ShelfChange

LEMMA RegisterInitRefines == Init => Register!ArInit
<1> SUFFICES ASSUME Init PROVE Register!ArInit
  OBVIOUS
<1>1. device = [d \in DeviceIds |-> NoDevice] /\ alloc = [q \in RequestIds |-> Unallocated]
  BY DEF Init, RegisterInit
<1>2. Devices = {} /\ AbsServed = {}
  BY <1>1 DEF Devices, AbsServed
<1>3. AbsHeld = {}
  BY <1>1 DEF AbsHeld, Holds, Unallocated, DeviceIds
<1> QED BY <1>2, <1>3 DEF Register!ArInit, AbsHeld, AbsServed

\* As long as handlers do not overlap and nobody sets a status by hand, the
\* device desk with procurement implements the abstract register: a device is
\* issued to one request at a time, and a request is served once.
THEOREM AssetsImplementRegister ==
    ASSUME OneSlot, HandStatuses = {}
    PROVE  Spec => ImplementsRegister
<1>1. Safe /\ ShelfInOrder /\ [Next]_vars => [Register!ArNext]_(Register!arVars)
  BY ShelfChanges, ShelfRefines DEF Safe
<1> QED BY <1>1, RegisterInitRefines, SafeAlways, ShelfInOrderAlways, PTL
        DEF Spec, ImplementsRegister, Register!ArSpec
=============================================================================
