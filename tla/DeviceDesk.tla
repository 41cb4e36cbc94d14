----------------------------- MODULE DeviceDesk -----------------------------
(***************************************************************************)
(* The device register, the requests for devices and the allocations       *)
(* (devices.service.ts), one action per database access: a handler checks  *)
(* rows it has read, and its later writes repeat none of the checks but    *)
(* two, the claim of a device ("updateMany where status = AVAILABLE") and  *)
(* the unique request of an allocation.                                    *)
(*                                                                         *)
(* All devices are of one type: the register is a register per type, the   *)
(* identifiers and the stock check being per type.  Audit rows and mail    *)
(* change nothing here, except that a handler can fail at them before it   *)
(* has announced an approval.                                              *)
(***************************************************************************)
EXTENDS Roles, Integers, FiniteSets

CONSTANTS
    ManagerOf,      \* the reporting manager of each user, or Nobody
    Slots,          \* slots for handlers in progress; with one, none overlap
    MaxDevices,     \* bound: devices in the register
    MaxRequests,    \* bound: device requests
    MaxPurchases,   \* bound: purchase requests
    MaxFaults,      \* bound: handlers cut off by a failing call or a restart
    HandStatuses,   \* the statuses an administrator or an imported sheet sets
    Nobody, NoDevice, NoRequest

DeviceStatus == {"AVAILABLE", "ALLOCATED", "IN_REPAIR", "RETIRED"}

\* SUBMITTED, the default of the column, is never left there by the code, and
\* three more statuses of the schema are never written.
RequestStatus == {"PENDING_MANAGER_APPROVAL", "PENDING_FULFILMENT",
                  "REJECTED", "ALLOCATED", "RETURNED"}

ASSUME AssetBounds ==
    /\ MaxDevices \in Nat /\ MaxRequests \in Nat /\ MaxPurchases \in Nat /\ MaxFaults \in Nat
    /\ HandStatuses \subseteq DeviceStatus

ASSUME AssetUsers ==
    /\ RolesOf \in [Users -> SUBSET RoleName]
    /\ ManagerOf \in [Users -> Users \cup {Nobody}]
    /\ Nobody \notin Users

VARIABLES
    device,     \* the status of each device in the register
    request,    \* the device requests
    alloc,      \* the allocation made for each request; device 0 if none
    call,       \* what the handler in each slot has in hand
    faults      \* handlers cut off so far

registerVars == <<device, request, alloc>>

DeviceIds == 1..MaxDevices
RequestIds == 1..MaxRequests
PurchaseIds == 1..MaxPurchases

RequestRow == [status: RequestStatus, requester: Users, manager: Users \cup {Nobody}]
Allocation == [device: 0..MaxDevices, returned: BOOLEAN]
Unallocated == [device |-> 0, returned |-> FALSE]

ASSUME AssetRowsAssumption == NoDevice \notin DeviceStatus /\ NoRequest \notin RequestRow

Devices == {d \in DeviceIds : device[d] # NoDevice}
Asked == {q \in RequestIds : request[q] # NoRequest}

\* Request q has device d and has not given it back.
Holds(q, d) == alloc[q].device = d /\ ~alloc[q].returned

-----------------------------------------------------------------------------
(* Handlers.                                                               *)

\* The request q, device d, purchase request p at hand, the status to write,
\* and for an approval of a purchase its stage and decision.
Free == [pc |-> "free", by |-> Nobody, q |-> 0, d |-> 0, p |-> 0,
         to |-> "NONE", stage |-> "NONE", decision |-> "NONE"]

CanBegin(s) == call[s].pc = "free"
Go(s, h) == call' = [call EXCEPT ![s] = h]

IsAdmin(u) == HasRole(u, {"IT_ADMIN", "SYS_ADMIN"})

\* The greatest identifier so far plus one, read without a lock.
NextDeviceId == Cardinality(Devices) + 1

\* POST /devices, and a row of an imported sheet whose device is new.
BeginDevice(s, u, to) ==
    /\ CanBegin(s) /\ IsAdmin(u)
    /\ NextDeviceId \in DeviceIds
    /\ Go(s, [Free EXCEPT !.pc = "insert", !.by = u, !.d = NextDeviceId, !.to = to])
    /\ UNCHANGED <<registerVars, faults>>

\* The insert fails when the identifier has been taken meanwhile.
InsertDevice(s) ==
    LET h == call[s] IN
    /\ h.pc = "insert"
    /\ device' = IF device[h.d] = NoDevice THEN [device EXCEPT ![h.d] = h.to] ELSE device
    /\ Go(s, Free)
    /\ UNCHANGED <<request, alloc, faults>>

\* PATCH /devices/:id, and a row of an imported sheet whose device is known:
\* the status is set to anything, whatever it was.
EditDevice(s, u, d, to) ==
    /\ CanBegin(s) /\ IsAdmin(u)
    /\ d \in Devices
    /\ device' = [device EXCEPT ![d] = to]
    /\ UNCHANGED <<request, alloc, call, faults>>

\* POST /device-requests: one insert, under a fresh identifier.
Ask(s, u, q) ==
    /\ CanBegin(s)
    /\ q \notin Asked /\ 1..(q - 1) \subseteq Asked
    /\ request' = [request EXCEPT ![q] =
         [status |-> "PENDING_MANAGER_APPROVAL", requester |-> u, manager |-> Nobody]]
    /\ UNCHANGED <<device, alloc, call, faults>>

\* Seeded fault: any manager decides, whoever the requester reports to.
MayDecideForAnyone(u, requester) == HasRole(u, {"MANAGER", "IT_ADMIN", "SYS_ADMIN"})

\* The roles of the route, and the requester's own manager if there is one.
MayDecide(u, requester) ==
    /\ HasRole(u, {"MANAGER", "IT_ADMIN", "SYS_ADMIN"})
    /\ IsAdmin(u) \/ ManagerOf[requester] \in {Nobody, u}

\* POST /device-requests/:id/decision: read and checks.
BeginDecision(s, u, q, to) ==
    /\ CanBegin(s)
    /\ q \in Asked
    /\ request[q].status = "PENDING_MANAGER_APPROVAL"
    /\ MayDecide(u, request[q].requester)
    /\ Go(s, [Free EXCEPT !.pc = "decide", !.by = u, !.q = q, !.to = to])
    /\ UNCHANGED <<registerVars, faults>>

\* The decision overwrites whatever the request has become.
DecisionWrite(s) ==
    LET h == call[s] IN
    /\ h.pc = "decide"
    /\ request' = [request EXCEPT ![h.q].status = h.to, ![h.q].manager = h.by]
    /\ Go(s, IF h.to = "PENDING_FULFILMENT" THEN [h EXCEPT !.pc = "announce"] ELSE Free)
    /\ UNCHANGED <<device, alloc, faults>>

\* POST /device-requests/:id/allocate: the request, the device, the transaction.
BeginAllocation(s, u, q, d) ==
    /\ CanBegin(s) /\ IsAdmin(u)
    /\ q \in Asked /\ d \in Devices
    /\ request[q].status = "PENDING_FULFILMENT"
    /\ Go(s, [Free EXCEPT !.pc = "check device", !.by = u, !.q = q, !.d = d])
    /\ UNCHANGED <<registerVars, faults>>

CheckDevice(s) ==
    LET h == call[s] IN
    /\ h.pc = "check device"
    /\ Go(s, IF device[h.d] = "AVAILABLE" THEN [h EXCEPT !.pc = "claim"] ELSE Free)
    /\ UNCHANGED <<registerVars, faults>>

\* Seeded fault: the request of an allocation is not unique.
ClaimableAgain(q, d) == device[d] = "AVAILABLE"

\* Device claimed only while available, request allocated only once.
Claimable(q, d) == device[d] = "AVAILABLE" /\ alloc[q] = Unallocated

ClaimDevice(s) ==
    LET h == call[s] IN
    /\ h.pc = "claim"
    /\ IF Claimable(h.q, h.d)
         THEN /\ device' = [device EXCEPT ![h.d] = "ALLOCATED"]
              /\ alloc' = [alloc EXCEPT ![h.q] = [device |-> h.d, returned |-> FALSE]]
              /\ request' = [request EXCEPT ![h.q].status = "ALLOCATED"]
         ELSE UNCHANGED registerVars
    /\ Go(s, Free)
    /\ UNCHANGED faults

\* POST /devices/:id/return: the device, its open allocation, the transaction.
BeginReturn(s, u, d) ==
    /\ CanBegin(s) /\ IsAdmin(u)
    /\ d \in Devices /\ device[d] = "ALLOCATED"
    /\ Go(s, [Free EXCEPT !.pc = "find", !.by = u, !.d = d])
    /\ UNCHANGED <<registerVars, faults>>

FindAllocation(s) ==
    LET h == call[s] IN
    /\ h.pc = "find"
    /\ \/ \E q \in Asked : Holds(q, h.d) /\ Go(s, [h EXCEPT !.pc = "return", !.q = q])
       \/ (\A q \in Asked : ~Holds(q, h.d)) /\ Go(s, Free)
    /\ UNCHANGED <<registerVars, faults>>

\* Seeded fault: the allocation is closed and the device forgotten.
ReturnLeavingDevice(s) ==
    LET h == call[s] IN
    /\ h.pc = "return"
    /\ alloc' = [alloc EXCEPT ![h.q].returned = TRUE]
    /\ request' = [request EXCEPT ![h.q].status = "RETURNED"]
    /\ Go(s, Free)
    /\ UNCHANGED <<device, faults>>

\* Seeded fault: the device is put back and its allocation left open.
ReturnLeavingAllocation(s) ==
    LET h == call[s] IN
    /\ h.pc = "return"
    /\ device' = [device EXCEPT ![h.d] = "AVAILABLE"]
    /\ request' = [request EXCEPT ![h.q].status = "RETURNED"]
    /\ Go(s, Free)
    /\ UNCHANGED <<alloc, faults>>

ReturnWrite(s) ==
    LET h == call[s] IN
    /\ h.pc = "return"
    /\ alloc' = [alloc EXCEPT ![h.q].returned = TRUE]
    /\ device' = [device EXCEPT ![h.d] = "AVAILABLE"]
    /\ request' = [request EXCEPT ![h.q].status = "RETURNED"]
    /\ Go(s, Free)
    /\ UNCHANGED faults

\* A database call throws, or the process stops: the handler, or the listener
\* it has set off, ends where it is.
CutOff(s) ==
    /\ call[s].pc # "free"
    /\ faults < MaxFaults
    /\ faults' = faults + 1
    /\ Go(s, Free)
    /\ UNCHANGED registerVars

RegisterInit ==
    /\ device = [d \in DeviceIds |-> NoDevice]
    /\ request = [q \in RequestIds |-> NoRequest]
    /\ alloc = [q \in RequestIds |-> Unallocated]
    /\ call = [s \in Slots |-> Free]
    /\ faults = 0

RegisterBegin(s, u) ==
    \/ \E to \in HandStatuses \cup {"AVAILABLE"} : BeginDevice(s, u, to)
    \/ \E d \in DeviceIds, to \in HandStatuses : EditDevice(s, u, d, to)
    \/ \E q \in RequestIds : Ask(s, u, q)
    \/ \E q \in RequestIds, to \in {"PENDING_FULFILMENT", "REJECTED"} : BeginDecision(s, u, q, to)
    \/ \E q \in RequestIds, d \in DeviceIds : BeginAllocation(s, u, q, d)
    \/ \E d \in DeviceIds : BeginReturn(s, u, d)

RegisterGoOn(s) ==
    \/ InsertDevice(s)
    \/ DecisionWrite(s)
    \/ CheckDevice(s) \/ ClaimDevice(s)
    \/ FindAllocation(s) \/ ReturnWrite(s)
    \/ CutOff(s)
=============================================================================
