----------------------------- MODULE Reminders ------------------------------
(***************************************************************************)
(* The daily check of the device limit (device-reminder.processor.ts) and  *)
(* the return of a device that ends the reminders (recordReturn of         *)
(* devices.service.ts).  The mails of a reminder are calls of Mail.        *)
(*                                                                         *)
(* The check runs alone, as the one worker of its queue runs it; a day is  *)
(* a run of the schedule, and a check is over before the next day.         *)
(***************************************************************************)
EXTENDS Mail

CONSTANTS
    Limit,          \* MAX_DEVICES_PER_EMPLOYEE
    Cadence,        \* REMINDER_CADENCE_DAYS
    Past,           \* the reminders of each employee so far
    JobSlot,        \* the slot of the check's calls
    MaxDays,        \* bound: days
    MaxHolds        \* bound: devices held by one employee

Reminder == [cycle: Nat, day: Nat, resolved: BOOLEAN]

ASSUME ReminderAssumption ==
    /\ Limit \in Nat /\ Cadence \in Nat /\ MaxDays \in Nat /\ MaxHolds \in Nat
    /\ JobSlot \in Slots
    /\ Past \in Seq(Reminder)
    /\ \A i \in DOMAIN Past : /\ Past[i].cycle = i
                              /\ i > 1 => Past[i].day >= Past[i - 1].day + Cadence

VARIABLES
    today,          \* days since the schedule was set up
    holds,          \* the devices each employee has and has not given back
    reminders,      \* the reminder rows of each employee, in their order
    check,          \* the check in progress: whom it has still to look at ...
    back,           \* returns in progress, by employee
    returned        \* ghost: who began a return during the check

reminderVars == <<today, holds, reminders, check, back, returned>>

\* All users here are active; the others are never looked at.
Employees == {u \in Users : "EMPLOYEE" \in RolesOf[u]}

NoCheck == [pc |-> "idle", todo |-> {}, who |-> Nobody, count |-> 0, stalls |-> 0]

Last(e) == reminders[e][Len(reminders[e])]
IsOpen(e) == \E i \in DOMAIN reminders[e] : ~reminders[e][i].resolved
Resolved(e) == [i \in DOMAIN reminders[e] |-> [reminders[e][i] EXCEPT !.resolved = TRUE]]

-----------------------------------------------------------------------------
(* The check.                                                              *)

StartCheck ==
    /\ check.pc = "idle" /\ today < MaxDays
    /\ today' = today + 1
    /\ check' = [NoCheck EXCEPT !.pc = "next", !.todo = Employees]
    /\ returned' = {}
    /\ UNCHANGED <<holds, reminders, back, mailVars>>

CountDevices(e) ==
    /\ check.pc = "next" /\ e \in check.todo
    /\ CanCall(JobSlot)
    /\ check' = [check EXCEPT !.pc = "decide", !.todo = check.todo \ {e},
                              !.who = e, !.count = holds[e]]
    /\ UNCHANGED <<today, holds, reminders, back, returned, mailVars>>

\* Seeded fault: only the newest reminder is resolved.
ResolveNewest(e) ==
    /\ check.pc = "decide" /\ check.who = e /\ check.count <= Limit
    /\ reminders' = IF reminders[e] = <<>> THEN reminders
                    ELSE [reminders EXCEPT ![e][Len(reminders[e])].resolved = TRUE]
    /\ check' = [check EXCEPT !.pc = "next"]
    /\ UNCHANGED <<today, holds, back, returned, mailVars>>

\* Within the limit: whatever is open is resolved.
ResolveAll(e) ==
    /\ check.pc = "decide" /\ check.who = e /\ check.count <= Limit
    /\ reminders' = [reminders EXCEPT ![e] = Resolved(e)]
    /\ check' = [check EXCEPT !.pc = "next"]
    /\ UNCHANGED <<today, holds, back, returned, mailVars>>

\* A reminder exactly Cadence days old is recent or not by the minute of its
\* creation.
MayBeRecent(e) == reminders[e] # <<>> /\ Last(e).day + Cadence >= today

\* Seeded fault: a resolved reminder does not count as the last one.
OpenIsDue(e) == IsOpen(e) => Last(e).day + Cadence <= today

MayBeDue(e) == reminders[e] # <<>> => Last(e).day + Cadence <= today

SkipRecent(e) ==
    /\ check.pc = "decide" /\ check.who = e /\ check.count > Limit
    /\ MayBeRecent(e)
    /\ check' = [check EXCEPT !.pc = "next"]
    /\ UNCHANGED <<today, holds, reminders, back, returned, mailVars>>

\* The row comes before the mails, and goes on counting where the last one,
\* resolved or not, stopped.
RecordReminder(e) ==
    /\ check.pc = "decide" /\ check.who = e /\ check.count > Limit
    /\ MayBeDue(e)
    /\ reminders' = [reminders EXCEPT ![e] = Append(reminders[e],
         [cycle |-> IF reminders[e] = <<>> THEN 1 ELSE Last(e).cycle + 1,
          day |-> today, resolved |-> FALSE])]
    /\ check' = [check EXCEPT !.pc = "remind"]
    /\ UNCHANGED <<today, holds, back, returned, mailVars>>

SendReminder(e) ==
    /\ check.pc = "remind" /\ check.who = e
    /\ BeginAdHoc(JobSlot, "device.reminder.cycle", AdHoc({e}))
    /\ check' = [check EXCEPT !.pc = "copy"]
    /\ UNCHANGED <<today, holds, reminders, back, returned,
                   transport, ticket, notices, queue, worker, handed, doubted, faults, crashes>>

\* Copies to the administrators, from the third reminder to the managers too:
\* to one who is both, two.
Copies(e) ==
    {r \in WithRole("IT_ADMIN", "admin")
           \cup (IF Last(e).cycle >= 3 THEN WithRole("MANAGER", "manager") ELSE {}) : r.to # e}

SendCopies(e) ==
    /\ check.pc = "copy" /\ check.who = e
    /\ BeginAdHoc(JobSlot, "device.reminder.escalation_cycle", Copies(e))
    /\ check' = [check EXCEPT !.pc = "next"]
    /\ UNCHANGED <<today, holds, reminders, back, returned,
                   transport, ticket, notices, queue, worker, handed, doubted, faults, crashes>>

EndCheck ==
    /\ check.pc = "next" /\ check.todo = {} /\ CanCall(JobSlot)
    /\ check' = NoCheck
    /\ UNCHANGED <<today, holds, reminders, back, returned, mailVars>>

\* Whom the check has not dealt with.
Unvisited == check.todo \cup (IF check.pc = "decide" THEN {check.who} ELSE {})

\* A query or a write of the check fails: the check ends there, whoever is left,
\* and is not tried again.  (A failing mail does not end it, see CallFails.)
CheckFails ==
    /\ \/ check.pc = "next" /\ check.todo # {} /\ CanCall(JobSlot)
       \/ check.pc = "decide"
    /\ faults' = faults + 1
    /\ check' = NoCheck
    /\ UNCHANGED <<today, holds, reminders, back, returned,
                   transport, ticket, notices, queue, worker, call, due, handed, doubted, crashes>>

CheckStep ==
    \/ StartCheck \/ EndCheck
    \/ \E e \in Employees :
         \/ CountDevices(e) \/ ResolveAll(e) \/ SkipRecent(e)
         \/ RecordReminder(e) \/ SendReminder(e) \/ SendCopies(e)

-----------------------------------------------------------------------------
(* Devices come and go.                                                    *)

Hand(e) ==
    /\ holds[e] < MaxHolds
    /\ holds' = [holds EXCEPT ![e] = holds[e] + 1]
    /\ UNCHANGED <<today, reminders, check, back, returned, mailVars>>

GiveBack(e) ==
    /\ holds[e] > 0 /\ e \notin back
    /\ holds' = [holds EXCEPT ![e] = holds[e] - 1]
    /\ back' = back \cup {e}
    /\ returned' = returned \cup {e}
    /\ UNCHANGED <<today, reminders, check, mailVars>>

\* The end of recordReturn: who is within the limit now owes nothing.
ReturnResolves(e) ==
    /\ e \in back
    /\ reminders' = IF holds[e] <= Limit THEN [reminders EXCEPT ![e] = Resolved(e)] ELSE reminders
    /\ back' = back \ {e}
    /\ UNCHANGED <<today, holds, check, returned, mailVars>>

\* The process stops: returns end where they are, the check starts again, once.
CrashWithCheck ==
    /\ Crash
    /\ back' = {}
    /\ check' = IF check.pc = "idle" \/ check.stalls = MaxStalls THEN NoCheck
                ELSE [NoCheck EXCEPT !.pc = "next", !.todo = Employees, !.stalls = check.stalls + 1]
    /\ UNCHANGED <<today, holds, reminders, returned>>

HoldStep == \E e \in Employees : Hand(e) \/ GiveBack(e) \/ ReturnResolves(e)

ReminderInit ==
    /\ today = 0
    /\ holds = [e \in Employees |-> 0]
    /\ reminders = [e \in Employees |-> Past]
    /\ check = NoCheck
    /\ back = {} /\ returned = {}
=============================================================================
