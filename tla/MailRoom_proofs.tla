-------------------------- MODULE MailRoom_proofs ---------------------------
(***************************************************************************)
(* Proofs about MailRoom, for every number of users, calls, mails and      *)
(* days, whatever fails and however often the process stops.               *)
(*                                                                         *)
(* Six parts: what the status of a notification says of its mail; who gets *)
(* a mail; the reminders of an employee; what a finished check of the      *)
(* device limit leaves; which rows nobody is left to deal with; and where  *)
(* the button of a mail leads.                                             *)
(***************************************************************************)
EXTENDS MailRoom, SequenceTheorems, FiniteSetTheorems, TLAPS

\* The events by name; those that calls name themselves are spelt out.
Event == STRING \cup {"none", "ticket.assigned", "ticket.sla_warning",
                      "device.reminder.cycle", "device.reminder.escalation_cycle"}

CallPC == {"free", "lookup", "bell", "mail row", "enqueue"}
Call == [pc: CallPC, n: Nat, event: Event, actor: Users \cup {Nobody},
         left: SUBSET Reader, at: Reader \cup {NoReader}, row: Nat]

Due == [event: Event, actor: Users \cup {Nobody}, readers: SUBSET Users]
Row == [to: Users, event: Event, channel: Channel, status: Status, call: Nat]
Job == [row: Nat, stalls: Nat]
Worker == [job: Job, pc: {"read", "send", "SENT", "FAILED"}, tries: Nat]

CallTypes ==
    /\ call \in [Slots -> Call]
    /\ \A s \in Slots : call[s].pc \in {"bell", "mail row", "enqueue"} => call[s].at \in Reader
    /\ due \in Seq(Due)
    /\ ticket \in [requester: Users, assignee: Users \cup {Nobody}]
    /\ scene \in Scenes

TableTypes ==
    /\ transport \in BOOLEAN
    /\ notices \in Seq(Row)
    /\ handed \in Seq(Nat) /\ Len(handed) = Len(notices)
    /\ doubted \in Seq(Nat) /\ Len(doubted) = Len(notices)
    /\ queue \in Seq(Job)
    /\ worker # NoJob => worker \in Worker
    /\ crashes \in Nat

-----------------------------------------------------------------------------
(* A mail that is still to be sent is PENDING, in one job or one call.     *)

IsMail(n) == n \in MailRows /\ notices[n].status = "PENDING"

\* Not handed over but for what was not acknowledged, or before a stop.
Owed(n) == IsMail(n) /\ handed[n] <= doubted[n] + crashes

\* Handed over, and the row does not say so yet.
Handed(n) ==
    /\ IsMail(n)
    /\ transport => handed[n] > 0
    /\ handed[n] <= 1 + doubted[n] + crashes

InQueue(n) == \E i \in DOMAIN queue : queue[i].row = n
AtWorker(n) == worker # NoJob /\ worker.job.row = n

QueueRows ==
    \A i \in DOMAIN queue :
        /\ Owed(queue[i].row)
        /\ \A j \in DOMAIN queue : queue[j].row = queue[i].row => j = i

WorkerRow ==
    worker # NoJob =>
        /\ ~InQueue(worker.job.row)
        /\ worker.pc # "SENT" => Owed(worker.job.row)
        /\ worker.pc = "SENT" => Handed(worker.job.row)

CallRows ==
    \A s \in Slots : call[s].pc = "enqueue" =>
        /\ Owed(call[s].row)
        /\ ~InQueue(call[s].row) /\ ~AtWorker(call[s].row)
        /\ \A r \in Slots : call[r].pc = "enqueue" /\ call[r].row = call[s].row => r = s

\* What the status of one row says.
Tells(n) ==
    /\ (notices[n].status = "SENT" /\ transport) => handed[n] > 0
    /\ notices[n].status = "FAILED" => handed[n] <= doubted[n] + crashes
    /\ handed[n] <= 1 + doubted[n] + crashes

RowsTell == \A n \in MailRows : Tells(n)

Safe == CallTypes /\ TableTypes /\ QueueRows /\ WorkerRow /\ CallRows /\ RowsTell

\* Calls begin, go on to their next reader or end; none comes to have a row.
NoNewRow == \A s \in Slots : call'[s].pc = "enqueue" => call'[s] = call[s]

\* No row is worse off.
RowsKept == \A n : (Owed(n) => Owed(n)') /\ (Handed(n) => Handed(n)')

-----------------------------------------------------------------------------
(* Types of the calls.                                                     *)

LEMMA FreeCall == Free \in Call /\ Free.pc = "free"
  BY DEF Free, Call, CallPC, Event

LEMMA NextReaderTypes ==
    ASSUME NEW h \in Call, NEW left \in SUBSET Reader, NEW g \in NextReader(h, left)
    PROVE  g \in Call /\ ((g.pc = "bell" /\ g.at \in Reader) \/ g.pc = "free")
<1>1. CASE left = {}
  BY <1>1, FreeCall DEF NextReader
<1>2. CASE left # {}
  <2>1. PICK r \in left : g = [h EXCEPT !.pc = "bell", !.at = r, !.left = left \ {r}, !.row = 0]
    BY <1>2 DEF NextReader
  <2>2. r \in Reader /\ left \ {r} \in SUBSET Reader
    OBVIOUS
  <2> QED BY <2>1, <2>2 DEF Call, CallPC
<1> QED BY <1>1, <1>2

LEMMA CallStep ==
    ASSUME CallTypes, NEW s \in Slots, NEW h \in Call, Go(s, h),
           h.pc \in {"bell", "mail row", "enqueue"} => h.at \in Reader
    PROVE  /\ call' \in [Slots -> Call]
           /\ \A r \in Slots : call'[r].pc \in {"bell", "mail row", "enqueue"} => call'[r].at \in Reader
           /\ call'[s] = h /\ \A r \in Slots : r # s => call'[r] = call[r]
  BY DEF CallTypes, Go

\* A call and what is due to it, after a step of it.
CallsKept ==
    /\ call' \in [Slots -> Call]
    /\ \A s \in Slots : call'[s].pc \in {"bell", "mail row", "enqueue"} => call'[s].at \in Reader
    /\ due' \in Seq(Due)

LEMMA DueGrows ==
    ASSUME due \in Seq(Due), NEW d \in Due
    PROVE  Append(due, d) \in Seq(Due) /\ Len(due) + 1 \in Nat
  BY AppendProperties

LEMMA EmitBegins ==
    ASSUME CallTypes, NEW s \in Slots, NEW event \in Event, NEW actor \in Users \cup {Nobody},
           BeginEmit(s, event, actor)
    PROVE  CallsKept /\ NoNewRow
<1> DEFINE h == [Free EXCEPT !.pc = "lookup", !.n = Len(due) + 1, !.event = event, !.actor = actor]
<1>1. due \in Seq(Due) /\ [event |-> event, actor |-> actor, readers |-> {}] \in Due
  BY DEF CallTypes, Due
<1>2. due' \in Seq(Due) /\ Len(due) + 1 \in Nat
  BY <1>1, DueGrows DEF BeginEmit
<1>3. h \in Call /\ h.pc = "lookup"
  BY <1>2, FreeCall DEF Call, CallPC
<1>4. Go(s, h)
  BY DEF BeginEmit
<1> HIDE DEF h
<1> QED BY <1>2, <1>3, <1>4, CallStep DEF CallsKept, NoNewRow

LEMMA AdHocBegins ==
    ASSUME CallTypes, NEW s \in Slots, NEW event \in Event, NEW readers \in SUBSET Reader,
           BeginAdHoc(s, event, readers)
    PROVE  CallsKept /\ NoNewRow
<1> DEFINE f == [Free EXCEPT !.n = Len(due) + 1, !.event = event]
           d == [event |-> event, actor |-> Nobody, readers |-> {r.to : r \in readers}]
<1>1. due \in Seq(Due) /\ d \in Due
  <2>1. {r.to : r \in readers} \in SUBSET Users
    BY DEF Reader
  <2> QED BY <2>1 DEF CallTypes, Due
<1>2. due' \in Seq(Due) /\ Len(due) + 1 \in Nat
  BY <1>1, DueGrows DEF BeginAdHoc
<1>3. f \in Call
  BY <1>2, FreeCall DEF Call, CallPC
<1>4. PICK h \in NextReader(f, readers) : Go(s, h)
  BY DEF BeginAdHoc
<1> HIDE DEF f, d
<1>5. h \in Call /\ ((h.pc = "bell" /\ h.at \in Reader) \/ h.pc = "free")
  BY <1>3, <1>4, NextReaderTypes
<1> QED BY <1>2, <1>4, <1>5, CallStep DEF CallsKept, NoNewRow

\* The candidates are users of the system, and the recipients are candidates.
LEMMA RecipientTypes ==
    ASSUME CallTypes, NEW event \in Event, NEW actor
    PROVE  /\ ResolveRecipients(event, actor) \in SUBSET Reader
           /\ Candidates(event)[1] \cup Candidates(event)[2] \in SUBSET Reader
<1>1. /\ Requester \in SUBSET Reader /\ Assignee \in SUBSET Reader
      /\ WithRole("IT_ADMIN", "admin") \in SUBSET Reader /\ WithRole("MANAGER", "manager") \in SUBSET Reader
  <2>1. ticket.requester \in Users /\ ticket.assignee \in Users \cup {Nobody}
    BY DEF CallTypes
  <2>2. Requester \in SUBSET Reader
    BY <2>1 DEF Requester, Reader
  <2>3. Assignee \in SUBSET Reader
    BY <2>1 DEF Assignee, Reader
  <2>4. WithRole("IT_ADMIN", "admin") \in SUBSET Reader /\ WithRole("MANAGER", "manager") \in SUBSET Reader
    BY DEF WithRole, Reader
  <2> QED BY <2>2, <2>3, <2>4
<1>2. Candidates(event)[1] \in SUBSET Reader /\ Candidates(event)[2] \in SUBSET Reader
  BY <1>1 DEF Candidates
<1> QED BY <1>2 DEF ResolveRecipients

LEMMA CallReads ==
    ASSUME CallTypes, NEW s \in Slots, Lookup(s) \/ CallFails(s)
    PROVE  CallsKept /\ NoNewRow
<1> DEFINE h == call[s]
<1>0. h \in Call /\ h.left \in SUBSET Reader /\ due \in Seq(Due)
  BY DEF CallTypes, Call
<1>1. ASSUME NEW left \in SUBSET Reader, NEW g \in NextReader(h, left), Go(s, g), due' \in Seq(Due)
      PROVE  CallsKept /\ NoNewRow
  <2>1. g \in Call /\ ((g.pc = "bell" /\ g.at \in Reader) \/ g.pc = "free")
    BY <1>0, <1>1, NextReaderTypes
  <2> QED BY <1>1, <2>1, CallStep DEF CallsKept, NoNewRow
<1>2. CASE CallFails(s)
  BY <1>0, <1>1, <1>2 DEF CallFails
<1>3. CASE Lookup(s)
  <2> DEFINE c == Candidates(h.event)
             readers == ResolveRecipients(h.event, h.actor)
             to == {r.to : r \in c[1] \cup c[2]}
  <2>1. readers \in SUBSET Reader /\ c[1] \cup c[2] \in SUBSET Reader
    BY <1>0, RecipientTypes DEF Call
  <2>2. to \in SUBSET Users
    BY <2>1 DEF Reader
  <2>3. due' = [due EXCEPT ![h.n].readers = to] /\ \E g \in NextReader(h, readers) : Go(s, g)
    BY <1>3 DEF Lookup
  <2> HIDE DEF c, readers, to
  <2>4. due' \in Seq(Due)
    <3>1. due \in [1..Len(due) -> Due] /\ Len(due) \in Nat
      BY <1>0, LenProperties
    <3>2. due' \in [1..Len(due) -> Due]
      BY <2>2, <2>3, <3>1 DEF Due
    <3> QED BY <3>1, <3>2, SeqDef
  <2> QED BY <1>1, <2>1, <2>3, <2>4
<1> QED BY <1>2, <1>3

LEMMA CallWrites ==
    ASSUME CallTypes, TableTypes, NEW s \in Slots, Bell(s) \/ MailRow(s) \/ Enqueue(s)
    PROVE  CallsKept
<1> DEFINE h == call[s]
<1>0. /\ h \in Call /\ h.left \in SUBSET Reader /\ due \in Seq(Due)
      /\ Len(notices) \in Nat /\ h.pc \in {"bell", "mail row", "enqueue"}
      /\ h.at \in Reader
  <2>1. h \in Call /\ due \in Seq(Due) /\ notices \in Seq(Row)
    BY DEF CallTypes, TableTypes
  <2>2. h.pc \in {"bell", "mail row", "enqueue"}
    BY DEF Bell, MailRow, Enqueue
  <2>3. h.left \in SUBSET Reader /\ Len(notices) \in Nat
    BY <2>1, LenProperties DEF Call
  <2>4. h.at \in Reader
    BY <2>2 DEF CallTypes
  <2> QED BY <2>1, <2>2, <2>3, <2>4
<1>1. CASE Bell(s)
  <2> DEFINE g == [h EXCEPT !.pc = "mail row"]
  <2>1. g \in Call /\ g.at = h.at
    BY <1>0 DEF Call, CallPC
  <2>2. Go(s, g) /\ due' = due
    BY <1>1 DEF Bell
  <2> HIDE DEF g
  <2> QED BY <1>0, <2>1, <2>2, CallStep DEF CallsKept
<1>2. CASE MailRow(s)
  <2> DEFINE g == [h EXCEPT !.pc = "enqueue", !.row = Len(notices) + 1]
  <2>1. Len(notices) \in Nat
    BY <1>0
  <2>0. Len(notices) + 1 \in Nat
    BY <2>1
  <2>4. h \in Call
    BY <1>0
  <2>2. g \in Call /\ g.at = h.at
    BY <2>4, <2>0 DEF Call, CallPC
  <2>3. Go(s, g) /\ due' = due
    BY <1>2 DEF MailRow
  <2> HIDE DEF g
  <2> QED BY <1>0, <2>2, <2>3, CallStep DEF CallsKept
<1>3. CASE Enqueue(s)
  <2>1. PICK g \in NextReader(h, h.left) : Go(s, g)
    BY <1>3 DEF Enqueue
  <2>2. g \in Call /\ ((g.pc = "bell" /\ g.at \in Reader) \/ g.pc = "free")
    BY <1>0, <2>1, NextReaderTypes
  <2>3. due' = due
    BY <1>3 DEF Enqueue
  <2> QED BY <1>0, <2>1, <2>2, <2>3, CallStep DEF CallsKept
<1> QED BY <1>1, <1>2, <1>3

-----------------------------------------------------------------------------
(* Queue, worker and calls, when no row is worse off.                      *)

LEMMA QueueKept ==
    ASSUME QueueRows, WorkerRow, RowsKept, UNCHANGED <<queue, worker>>
    PROVE  /\ QueueRows' /\ WorkerRow'
           /\ \A n : (InQueue(n)' <=> InQueue(n)) /\ (AtWorker(n)' <=> AtWorker(n))
<1>1. \A n : (InQueue(n)' <=> InQueue(n)) /\ (AtWorker(n)' <=> AtWorker(n))
  BY DEF InQueue, AtWorker
<1>2. QueueRows'
  BY DEF QueueRows, RowsKept
<1>3. WorkerRow'
  BY <1>1 DEF WorkerRow, RowsKept
<1> QED BY <1>1, <1>2, <1>3

LEMMA CallRowsKept ==
    ASSUME CallRows, NoNewRow, RowsKept, \A n : (InQueue(n)' => InQueue(n)) /\ (AtWorker(n)' => AtWorker(n))
    PROVE  CallRows'
  BY DEF CallRows, NoNewRow, RowsKept

tables == <<transport, notices, handed, doubted, crashes>>

LEMMA TablesKept ==
    ASSUME UNCHANGED tables
    PROVE  RowsKept /\ (RowsTell => RowsTell') /\ MailRows' = MailRows
  BY DEF tables, RowsKept, Owed, Handed, IsMail, MailRows, NoticeIds, RowsTell, Tells

LEMMA TypesKept ==
    ASSUME CallTypes, CallsKept, scene' = scene,
           ticket' \in [requester: Users, assignee: Users \cup {Nobody}]
    PROVE  CallTypes'
  BY DEF CallTypes, CallsKept

LEMMA QuietKeeps ==
    ASSUME Safe, UNCHANGED <<tables, queue, worker>>, NoNewRow, CallTypes'
    PROVE  Safe'
<1>1. RowsKept /\ RowsTell'
  BY TablesKept DEF Safe
<1>2. QueueRows' /\ WorkerRow' /\ CallRows'
  BY <1>1, QueueKept, CallRowsKept DEF Safe
<1>3. TableTypes'
  BY DEF Safe, TableTypes, tables
<1> QED BY <1>1, <1>2, <1>3 DEF Safe

-----------------------------------------------------------------------------
(* New rows.                                                               *)

LEMMA RowAdded ==
    ASSUME Safe, NEW s \in Slots, NEW h \in Call, h.at \in Reader,
           NEW channel \in Channel, NEW status \in Status,
           channel = "EMAIL" => status = "PENDING",
           AddRow(h, channel, status), UNCHANGED <<transport, queue, worker, crashes>>,
           NEW k, k = Len(notices) + 1
    PROVE  /\ TableTypes' /\ RowsTell' /\ RowsKept
           /\ channel = "EMAIL" => Owed(k)'
           /\ ~IsMail(k)
<1> DEFINE row == [to |-> h.at.to, event |-> h.event, channel |-> channel,
                   status |-> status, call |-> h.n]
<1>1. row \in Row /\ row.channel = channel /\ row.status = status
  <2>1. h.at.to \in Users
    BY DEF Reader
  <2> QED BY <2>1 DEF Row, Call
<1>2. /\ notices' = Append(notices, row) /\ handed' = Append(handed, 0) /\ doubted' = Append(doubted, 0)
  BY DEF AddRow
<1> HIDE DEF row
<1>3. /\ notices \in Seq(Row) /\ handed \in Seq(Nat) /\ doubted \in Seq(Nat)
      /\ Len(handed) = Len(notices) /\ Len(doubted) = Len(notices) /\ Len(notices) \in Nat
      /\ crashes \in Nat
  BY LenProperties DEF Safe, TableTypes
<1>4. /\ notices' \in Seq(Row) /\ handed' \in Seq(Nat) /\ doubted' \in Seq(Nat)
      /\ Len(notices') = k /\ Len(handed') = k /\ Len(doubted') = k
      /\ notices'[k] = row /\ handed'[k] = 0 /\ doubted'[k] = 0
      /\ \A n \in 1..Len(notices) : notices'[n] = notices[n] /\ handed'[n] = handed[n] /\ doubted'[n] = doubted[n]
  <2>1. notices' \in Seq(Row) /\ Len(notices') = k /\ notices'[k] = row
        /\ \A n \in 1..Len(notices) : notices'[n] = notices[n]
    BY <1>1, <1>2, <1>3, AppendProperties
  <2>2. handed' \in Seq(Nat) /\ Len(handed') = k /\ handed'[k] = 0
        /\ \A n \in 1..Len(notices) : handed'[n] = handed[n]
    BY <1>2, <1>3, AppendProperties
  <2>3. doubted' \in Seq(Nat) /\ Len(doubted') = k /\ doubted'[k] = 0
        /\ \A n \in 1..Len(notices) : doubted'[n] = doubted[n]
    BY <1>2, <1>3, AppendProperties
  <2> QED BY <2>1, <2>2, <2>3
<1>5. /\ NoticeIds = 1..Len(notices) /\ NoticeIds' = 1..k
      /\ k \in NoticeIds' /\ k \notin NoticeIds
      /\ \A n \in NoticeIds' : n = k \/ n \in NoticeIds
  BY <1>3, <1>4, LenProperties DEF NoticeIds
<1>6. \A n \in NoticeIds : /\ n \in NoticeIds' /\ notices'[n] = notices[n]
                           /\ handed'[n] = handed[n] /\ doubted'[n] = doubted[n]
  BY <1>3, <1>4, <1>5
<1>7. TableTypes'
  BY <1>2, <1>4 DEF Safe, TableTypes
<1>8. \A n \in MailRows : /\ n \in MailRows' /\ notices'[n] = notices[n]
                          /\ handed'[n] = handed[n] /\ doubted'[n] = doubted[n]
  BY <1>6 DEF MailRows
<1>12. RowsKept
  BY <1>8 DEF RowsKept, Owed, Handed, IsMail
<1>9. RowsTell'
  <2>1. \A n \in MailRows' : n # k => n \in MailRows
    BY <1>5, <1>6 DEF MailRows
  <2>2. \A n \in MailRows : Tells(n)'
    BY <1>8 DEF Safe, RowsTell, Tells
  <2>3. ASSUME k \in MailRows'
        PROVE  notices'[k].status = "PENDING"
    BY <2>3, <1>1, <1>4 DEF MailRows
  <2>4. k \in MailRows' => /\ (notices'[k].status = "SENT" /\ transport') => handed'[k] > 0
                           /\ notices'[k].status = "FAILED" => handed'[k] <= doubted'[k] + crashes'
                           /\ handed'[k] <= 1 + doubted'[k] + crashes'
    BY <2>3, <1>2, <1>3, <1>4
  <2> QED BY <2>1, <2>2, <2>4 DEF RowsTell, Tells
<1>10. channel = "EMAIL" => Owed(k)'
  <2>1. 0 <= 0 + crashes
    BY <1>3
  <2>2. notices' = notices' /\ k = Len(notices) + 1
    OBVIOUS
  <2>3. channel = "EMAIL" => /\ k \in MailRows' /\ notices'[k].status = "PENDING"
                            /\ handed'[k] <= doubted'[k] + crashes'
    BY <1>1, <1>2, <1>4, <1>5, <2>1 DEF MailRows
  <2> QED BY <2>3 DEF Owed, IsMail
<1>11. ~IsMail(k)
  BY <1>5 DEF IsMail, MailRows
<1> QED BY <1>7, <1>9, <1>10, <1>11, <1>12

\* What is said of a row stays true when another is added.
LEMMA BellKeeps ==
    ASSUME Safe, NEW s \in Slots, Bell(s), scene' = scene
    PROVE  Safe'
<1> DEFINE h == call[s]
           g == [h EXCEPT !.pc = "mail row"]
<1>1. h \in Call /\ h.at \in Reader /\ h.pc = "bell"
  BY DEF Safe, CallTypes, Bell
<1>2. AddRow(h, "IN_APP", "SENT") /\ Go(s, g) /\ UNCHANGED <<transport, ticket, queue, worker, due, faults, crashes>>
  BY DEF Bell
<1>3. PICK k : k = Len(notices) + 1
  OBVIOUS
<1>4. TableTypes' /\ RowsTell' /\ RowsKept
  BY <1>1, <1>2, <1>3, RowAdded DEF Channel, Status
<1>5. CallsKept
  BY CallWrites DEF Safe
<1>6. NoNewRow
  <2>1. g \in Call /\ g.pc = "mail row" /\ g.at = h.at
    BY <1>1 DEF Call, CallPC
  <2> HIDE DEF g
  <2> QED BY <1>1, <1>2, <2>1, CallStep DEF NoNewRow, Safe
<1>7. QueueRows' /\ WorkerRow' /\ CallRows'
  BY <1>2, <1>4, <1>6, QueueKept, CallRowsKept DEF Safe
<1>8. CallTypes'
  <2>1. ticket' = ticket /\ CallTypes
    BY <1>2 DEF Safe
  <2>2. ticket' \in [requester: Users, assignee: Users \cup {Nobody}]
    BY <2>1 DEF CallTypes
  <2> QED BY <2>1, <2>2, <1>5, TypesKept
<1> QED BY <1>4, <1>7, <1>8 DEF Safe

LEMMA OwedRows ==
    ASSUME Safe, NEW k
    PROVE  /\ InQueue(k) => Owed(k)
           /\ AtWorker(k) => IsMail(k)
           /\ \A r \in Slots : call[r].pc = "enqueue" => Owed(call[r].row)
           /\ Owed(k) => IsMail(k)
<1>1. InQueue(k) => Owed(k)
  BY DEF Safe, QueueRows, InQueue
<1>2. AtWorker(k) => IsMail(k)
  BY DEF Safe, WorkerRow, AtWorker, Owed, Handed
<1>3. \A r \in Slots : call[r].pc = "enqueue" => Owed(call[r].row)
  BY DEF Safe, CallRows
<1> QED BY <1>1, <1>2, <1>3 DEF Owed

LEMMA MailRowKeeps ==
    ASSUME Safe, NEW s \in Slots, MailRow(s), scene' = scene
    PROVE  Safe'
<1>1. PICK k : k = Len(notices) + 1
  OBVIOUS
<1> DEFINE h == call[s]
           g == [h EXCEPT !.pc = "enqueue", !.row = k]
<1>2. h \in Call /\ h.at \in Reader
  BY DEF Safe, CallTypes, MailRow
<1>3. AddRow(h, "EMAIL", "PENDING") /\ Go(s, g) /\ UNCHANGED <<transport, ticket, queue, worker, due, faults, crashes>>
  BY <1>1 DEF MailRow
<1>4. TableTypes' /\ RowsTell' /\ RowsKept /\ Owed(k)' /\ ~IsMail(k)
  BY <1>1, <1>2, <1>3, RowAdded DEF Channel, Status
<1>5. CallsKept
  BY CallWrites DEF Safe
<1>6. call'[s].row = k /\ \A r \in Slots : r # s => call'[r] = call[r]
  <2>1. Len(notices) \in Nat
    BY LenProperties DEF Safe, TableTypes
  <2>2. k \in Nat
    BY <1>1, <2>1
  <2>3. g \in Call /\ g.at = h.at /\ g.row = k
    BY <1>2, <2>2 DEF Call, CallPC
  <2> HIDE DEF g
  <2> QED BY <1>2, <1>3, <2>3, CallStep DEF Safe
<1> HIDE DEF g
<1>7. QueueRows' /\ WorkerRow' /\ \A n : (InQueue(n)' <=> InQueue(n)) /\ (AtWorker(n)' <=> AtWorker(n))
  BY <1>3, <1>4, QueueKept DEF Safe
<1>8. CallRows'
  <2>1. ~InQueue(k)' /\ ~AtWorker(k)' /\ \A r \in Slots : call[r].pc = "enqueue" => call[r].row # k
    BY <1>4, <1>7, OwedRows
  <2>2. \A r \in Slots : r # s /\ call[r].pc = "enqueue" =>
            Owed(call[r].row)' /\ ~InQueue(call[r].row)' /\ ~AtWorker(call[r].row)'
    BY <1>4, <1>6, <1>7 DEF Safe, CallRows, RowsKept
  <2> QED BY <1>4, <1>6, <2>1, <2>2 DEF CallRows, Safe
<1>9. CallTypes'
  <2>1. ticket' = ticket /\ CallTypes
    BY <1>3 DEF Safe
  <2>2. ticket' \in [requester: Users, assignee: Users \cup {Nobody}]
    BY <2>1 DEF CallTypes
  <2> QED BY <2>1, <2>2, <1>5, TypesKept
<1> QED BY <1>4, <1>7, <1>8, <1>9 DEF Safe

-----------------------------------------------------------------------------
(* Jobs.                                                                   *)

LEMMA EnqueueKeeps ==
    ASSUME Safe, NEW s \in Slots, Enqueue(s), scene' = scene
    PROVE  Safe'
<1>1. PICK k : k = call[s].row
  OBVIOUS
<1> DEFINE job == [row |-> k, stalls |-> 0]
<1>2. /\ call[s] \in Call /\ call[s].left \in SUBSET Reader /\ call[s].pc = "enqueue" /\ k \in Nat
      /\ queue \in Seq(Job) /\ CallRows
  BY <1>1 DEF Safe, CallTypes, TableTypes, Call, Enqueue
<1>3. /\ queue' = Append(queue, job) /\ UNCHANGED tables /\ worker' = worker /\ ticket' = ticket
      /\ \E g \in NextReader(call[s], call[s].left) : Go(s, g)
  BY <1>1 DEF Enqueue, tables
<1>4. Owed(k) /\ ~InQueue(k) /\ ~AtWorker(k)
      /\ \A r \in Slots : call[r].pc = "enqueue" /\ call[r].row = k => r = s
  BY <1>1, <1>2 DEF CallRows
<1>5. RowsKept /\ RowsTell'
  BY <1>3, TablesKept DEF Safe
<1>6. job \in Job /\ job.row = k
  BY <1>2 DEF Job
<1> HIDE DEF job
<1>7. /\ queue' \in Seq(Job) /\ Len(queue') = Len(queue) + 1 /\ queue'[Len(queue) + 1] = job
      /\ \A i \in 1..Len(queue) : queue'[i] = queue[i]
  BY <1>2, <1>3, <1>6, AppendProperties
<1>8. /\ DOMAIN queue = 1..Len(queue) /\ DOMAIN queue' = 1..(Len(queue) + 1) /\ Len(queue) \in Nat
  BY <1>2, <1>7, LenProperties
<1>9. \A i \in DOMAIN queue' : \/ (i \in DOMAIN queue /\ queue'[i] = queue[i])
                              \/ (i = Len(queue) + 1 /\ queue'[i].row = k)
  <2>1. \A i \in DOMAIN queue' : i \in DOMAIN queue \/ i = Len(queue) + 1
    BY <1>8
  <2> QED BY <1>6, <1>7, <1>8, <2>1
<1>10. \A n : InQueue(n)' => (InQueue(n) \/ n = k)
  BY <1>9 DEF InQueue
<1>11. QueueRows'
  <2>1. \A i \in DOMAIN queue : queue[i].row # k
    BY <1>4 DEF InQueue
  <2>2. Owed(k)'
    BY <1>4, <1>5 DEF RowsKept
  <2>3. \A i \in DOMAIN queue : Owed(queue[i].row)
    BY DEF Safe, QueueRows
  <2>4. \A n : Owed(n) => Owed(n)'
    BY <1>5 DEF RowsKept
  <2>5. \A i \in DOMAIN queue' : Owed(queue[i].row)'
    BY <1>9, <2>2, <2>3, <2>4
  <2>6. \A i, j \in DOMAIN queue : queue[j].row = queue[i].row => j = i
    BY DEF Safe, QueueRows
  <2>7. \A i, j \in DOMAIN queue' : queue'[j].row = queue'[i].row => j = i
    BY <1>9, <2>1, <2>6
  <2> QED BY <2>5, <2>7 DEF QueueRows
<1>12. WorkerRow'
  <2>1. worker # NoJob => worker.job.row # k
    BY <1>4 DEF AtWorker
  <2>2. worker # NoJob => ~InQueue(worker.job.row)'
    BY <1>3, <1>10, <2>1 DEF Safe, WorkerRow
  <2> QED BY <1>3, <1>5, <2>2 DEF Safe, WorkerRow, RowsKept
<1>13. PICK g \in NextReader(call[s], call[s].left) : Go(s, g)
  BY <1>3
<1>14. g \in Call /\ ((g.pc = "bell" /\ g.at \in Reader) \/ g.pc = "free")
  BY <1>2, NextReaderTypes
<1>15. call'[s].pc # "enqueue" /\ \A r \in Slots : r # s => call'[r] = call[r]
  BY <1>13, <1>14, CallStep DEF Safe
<1>16. \A n : AtWorker(n)' <=> AtWorker(n)
  BY <1>3 DEF AtWorker
<1>17. CallRows'
  <2>1. \A r \in Slots : r # s /\ call[r].pc = "enqueue" =>
            Owed(call[r].row)' /\ ~InQueue(call[r].row)' /\ ~AtWorker(call[r].row)'
    BY <1>2, <1>4, <1>5, <1>10, <1>15, <1>16 DEF CallRows, RowsKept
  <2> QED BY <1>2, <1>15, <2>1 DEF CallRows
<1>18. CallTypes'
  <2>1. CallTypes /\ CallsKept
    BY CallWrites DEF Safe
  <2>2. ticket' \in [requester: Users, assignee: Users \cup {Nobody}]
    BY <1>3, <2>1 DEF CallTypes
  <2> QED BY <2>1, <2>2, TypesKept
<1>19. TableTypes'
  BY <1>3, <1>7 DEF Safe, TableTypes, tables
<1> QED BY <1>5, <1>11, <1>12, <1>17, <1>18, <1>19 DEF Safe

\* Steps of the worker alone.
LEMMA WorkerTypes ==
    ASSUME CallTypes, UNCHANGED <<call, due, ticket, scene>>
    PROVE  CallTypes' /\ NoNewRow
  BY DEF CallTypes, NoNewRow

LEMMA TakeJobKeeps ==
    ASSUME Safe, TakeJob, scene' = scene
    PROVE  Safe'
<1>1. /\ queue \in Seq(Job) /\ queue # <<>> /\ UNCHANGED tables /\ UNCHANGED <<call, due, ticket>>
      /\ worker = NoJob /\ worker' = [job |-> Head(queue), pc |-> "read", tries |-> 0]
      /\ queue' = Tail(queue)
  BY DEF TakeJob, Safe, TableTypes, tables
<1>2. RowsKept /\ RowsTell'
  BY <1>1, TablesKept DEF Safe
<1>3. CallTypes' /\ NoNewRow
  BY <1>1, WorkerTypes DEF Safe
<1>4. /\ Head(queue) \in Job /\ queue' \in Seq(Job) /\ Len(queue') = Len(queue) - 1
      /\ Head(queue) = queue[1] /\ \A i \in 1..Len(queue') : queue'[i] = queue[i + 1]
      /\ Len(queue) \in Nat /\ DOMAIN queue = 1..Len(queue) /\ Len(queue) # 0
      /\ DOMAIN queue' = 1..Len(queue')
  BY <1>1, HeadTailProperties, EmptySeq, LenProperties
<1>5. /\ 1 \in DOMAIN queue
      /\ \A i \in DOMAIN queue' : /\ i + 1 \in DOMAIN queue /\ i + 1 # 1
                                  /\ queue'[i] = queue[i + 1]
                                  /\ \A j \in DOMAIN queue' : j + 1 = i + 1 => j = i
  BY <1>4
<1>6. worker' \in Worker /\ worker'.job = queue[1] /\ worker'.pc = "read"
  BY <1>1, <1>4 DEF Worker
<1>7. TableTypes'
  BY <1>1, <1>4, <1>6 DEF Safe, TableTypes, tables
<1>8. \A i, j \in DOMAIN queue : queue[j].row = queue[i].row => j = i
  BY DEF Safe, QueueRows
<1>9. \A i \in DOMAIN queue : Owed(queue[i].row)
  BY DEF Safe, QueueRows
<1>10. QueueRows'
  <2>1. \A i \in DOMAIN queue' : Owed(queue[i].row)'
    BY <1>2, <1>5, <1>9 DEF RowsKept
  <2>2. \A i, j \in DOMAIN queue' : queue'[j].row = queue'[i].row => j = i
    BY <1>5, <1>8
  <2> QED BY <2>1, <2>2 DEF QueueRows
<1>11. \A n : InQueue(n)' => (InQueue(n) /\ n # queue[1].row)
  BY <1>5, <1>8 DEF InQueue
<1>12. WorkerRow'
  <2>1. Owed(queue[1].row) /\ \A n : Owed(n) => Owed(n)'
    BY <1>2, <1>5, <1>9 DEF RowsKept
  <2> QED BY <1>6, <1>11, <2>1 DEF WorkerRow
<1>13. \A n : (InQueue(n)' \/ AtWorker(n)') => InQueue(n)
  BY <1>5, <1>6, <1>11 DEF AtWorker, InQueue
<1>14. CallRows'
  BY <1>1, <1>2, <1>13 DEF Safe, CallRows, RowsKept
<1> QED BY <1>2, <1>3, <1>7, <1>10, <1>12, <1>14 DEF Safe

LEMMA RowTypes ==
    ASSUME TableTypes, NEW n \in NoticeIds
    PROVE  /\ handed[n] \in Nat /\ doubted[n] \in Nat /\ crashes \in Nat
           /\ n \in DOMAIN handed /\ n \in DOMAIN doubted /\ notices[n] \in Row
<1>1. /\ notices \in Seq(Row) /\ handed \in Seq(Nat) /\ doubted \in Seq(Nat)
      /\ Len(handed) = Len(notices) /\ Len(doubted) = Len(notices) /\ crashes \in Nat
  BY DEF TableTypes
<1>2. n \in 1..Len(notices)
  BY <1>1, LenProperties DEF NoticeIds
<1> QED BY <1>1, <1>2, LenProperties, ElementOfSeq

LEMMA ReadAndBuildKeeps ==
    ASSUME Safe, ReadAndBuild, scene' = scene
    PROVE  Safe'
<1>1. /\ UNCHANGED tables /\ UNCHANGED <<queue, call, due, ticket>>
      /\ worker # NoJob /\ worker \in Worker /\ worker.pc = "read"
      /\ worker' = [worker EXCEPT !.pc = IF transport THEN "send" ELSE "SENT"]
  BY DEF ReadAndBuild, Safe, TableTypes, tables
<1>2. RowsKept /\ RowsTell'
  BY <1>1, TablesKept DEF Safe
<1>3. CallTypes' /\ NoNewRow
  BY <1>1, WorkerTypes DEF Safe
<1>4. worker' \in Worker /\ worker'.job = worker.job
      /\ worker'.pc = IF transport THEN "send" ELSE "SENT"
  BY <1>1 DEF Worker
<1>5. TableTypes'
  BY <1>1, <1>4 DEF Safe, TableTypes, tables
<1>6. QueueRows' /\ \A n : (InQueue(n)' <=> InQueue(n))
  BY <1>1, <1>2 DEF Safe, QueueRows, RowsKept, InQueue
<1>7. Owed(worker.job.row) /\ ~InQueue(worker.job.row)
  BY <1>1 DEF Safe, WorkerRow
<1>8. WorkerRow'
  <2>1. ASSUME ~transport
        PROVE  Handed(worker.job.row)
    <3>1. PICK k : k = worker.job.row
      OBVIOUS
    <3>2. IsMail(k) /\ handed[k] <= doubted[k] + crashes /\ k \in NoticeIds
      BY <1>7, <3>1 DEF Owed, IsMail, MailRows
    <3>3. handed[k] \in Nat /\ doubted[k] \in Nat /\ crashes \in Nat
      BY <3>2, RowTypes DEF Safe
    <3>4. handed[k] <= 1 + doubted[k] + crashes
      BY <3>2, <3>3
    <3> QED BY <2>1, <3>1, <3>2, <3>4 DEF Handed
  <2>2. transport \in BOOLEAN
    BY DEF Safe, TableTypes
  <2>3. ~InQueue(worker.job.row)'
    BY <1>4, <1>6, <1>7
  <2>4. worker'.pc # "SENT" => Owed(worker.job.row)'
    BY <1>2, <1>4, <1>7 DEF RowsKept
  <2>5. worker'.pc = "SENT" => Handed(worker.job.row)'
    BY <1>2, <1>4, <2>1, <2>2 DEF RowsKept
  <2> QED BY <2>3, <2>4, <2>5 DEF WorkerRow
<1>9. CallRows'
  <2>1. \A n : AtWorker(n)' => AtWorker(n)
    BY <1>1, <1>4 DEF AtWorker
  <2> QED BY <1>2, <1>3, <1>6, <2>1, CallRowsKept DEF Safe
<1> QED BY <1>2, <1>3, <1>5, <1>6, <1>8, <1>9 DEF Safe

\* All rows but one are as they were.
LEMMA OthersKept ==
    ASSUME Safe, NEW k, AtWorker(k), NoNewRow, queue' = queue,
           \A n : AtWorker(n)' => AtWorker(n),
           \A n : n # k /\ Owed(n) => Owed(n)'
    PROVE  QueueRows' /\ CallRows' /\ \A n : InQueue(n)' <=> InQueue(n)
<1>1. ~InQueue(k) /\ \A r \in Slots : call[r].pc = "enqueue" => call[r].row # k
  BY DEF Safe, WorkerRow, CallRows, AtWorker
<1>2. \A n : InQueue(n)' <=> InQueue(n)
  BY DEF InQueue
<1>3. QueueRows'
  <2>1. \A i \in DOMAIN queue : queue[i].row # k
    BY <1>1 DEF InQueue
  <2> QED BY <2>1 DEF Safe, QueueRows
<1>4. CallRows'
  BY <1>1, <1>2 DEF Safe, CallRows, NoNewRow
<1> QED BY <1>2, <1>3, <1>4

LEMMA NextTry ==
    ASSUME worker \in Worker, worker.pc = "send", Retry
    PROVE  worker' \in Worker /\ worker'.job = worker.job /\ worker'.pc \in {"send", "FAILED"}
<1>1. worker.tries \in Nat
  BY DEF Worker
<1>2. worker.tries + 1 \in Nat
  BY <1>1
<1>3. CASE worker.tries + 1 < MaxAttempts
  <2>1. worker' = [worker EXCEPT !.tries = worker.tries + 1]
    BY <1>3 DEF Retry
  <2> QED BY <1>2, <2>1 DEF Worker
<1>4. CASE ~(worker.tries + 1 < MaxAttempts)
  <2>1. worker' = [worker EXCEPT !.pc = "FAILED"]
    BY <1>4 DEF Retry
  <2> QED BY <2>1 DEF Worker
<1> QED BY <1>3, <1>4

LEMMA SendKeeps ==
    ASSUME Safe, NEW outcome \in Outcomes, Send(outcome), scene' = scene
    PROVE  Safe'
<1>1. PICK k : k = worker.job.row
  OBVIOUS
<1>2. /\ worker # NoJob /\ worker \in Worker /\ worker.pc = "send"
      /\ UNCHANGED <<transport, notices, queue, crashes>> /\ UNCHANGED <<call, due, ticket>>
  BY DEF Send, Safe, TableTypes
<1>3. /\ handed' = IF outcome = "refused" THEN handed ELSE [handed EXCEPT ![k] = handed[k] + 1]
      /\ doubted' = IF outcome = "unanswered" THEN [doubted EXCEPT ![k] = doubted[k] + 1] ELSE doubted
      /\ IF outcome = "accepted" THEN worker' = [worker EXCEPT !.pc = "SENT"] ELSE Retry
  BY <1>1 DEF Send
<1>4. CallTypes' /\ NoNewRow
  BY <1>2, WorkerTypes DEF Safe
<1>5. /\ worker' \in Worker /\ worker'.job = worker.job
      /\ worker'.pc = "SENT" => outcome = "accepted"
      /\ worker'.pc # "SENT" => outcome # "accepted"
  <2>1. CASE outcome = "accepted"
    BY <1>2, <1>3, <2>1 DEF Worker
  <2>2. CASE outcome # "accepted"
    BY <1>2, <1>3, <2>2, NextTry
  <2> QED BY <2>1, <2>2
<1>6. Owed(k) /\ ~InQueue(k) /\ AtWorker(k)
  BY <1>1, <1>2 DEF Safe, WorkerRow, AtWorker
<1>7. IsMail(k) /\ handed[k] <= doubted[k] + crashes /\ k \in NoticeIds
  BY <1>6 DEF Owed, IsMail, MailRows
<1>8. /\ handed[k] \in Nat /\ doubted[k] \in Nat /\ crashes \in Nat
      /\ k \in DOMAIN handed /\ k \in DOMAIN doubted
  BY <1>7, RowTypes DEF Safe
<1>9. handed[k] + 1 \in Nat /\ doubted[k] + 1 \in Nat
  BY <1>8
<1>10. /\ handed' \in Seq(Nat) /\ Len(handed') = Len(handed)
       /\ doubted' \in Seq(Nat) /\ Len(doubted') = Len(doubted)
  <2>1. handed \in Seq(Nat) /\ doubted \in Seq(Nat)
    BY DEF Safe, TableTypes
  <2>2. [handed EXCEPT ![k] = handed[k] + 1] \in Seq(Nat)
        /\ Len([handed EXCEPT ![k] = handed[k] + 1]) = Len(handed)
    BY <1>8, <1>9, <2>1, ExceptSeq
  <2>3. [doubted EXCEPT ![k] = doubted[k] + 1] \in Seq(Nat)
        /\ Len([doubted EXCEPT ![k] = doubted[k] + 1]) = Len(doubted)
    BY <1>8, <1>9, <2>1, ExceptSeq
  <2> QED BY <1>3, <2>1, <2>2, <2>3
<1>11. TableTypes'
  BY <1>2, <1>5, <1>10 DEF Safe, TableTypes
<1>12. /\ handed'[k] = IF outcome = "refused" THEN handed[k] ELSE handed[k] + 1
       /\ doubted'[k] = IF outcome = "unanswered" THEN doubted[k] + 1 ELSE doubted[k]
       /\ \A n : n # k => handed'[n] = handed[n] /\ doubted'[n] = doubted[n]
  BY <1>3, <1>8
<1>13. MailRows' = MailRows
  BY <1>2 DEF MailRows, NoticeIds
<1>14. \A n : n # k /\ Owed(n) => Owed(n)'
  BY <1>2, <1>12, <1>13 DEF Owed, IsMail
<1>15. \A n : AtWorker(n)' => AtWorker(n)
  BY <1>2, <1>5 DEF AtWorker
<1>16. QueueRows' /\ CallRows' /\ \A n : InQueue(n)' <=> InQueue(n)
  BY <1>2, <1>4, <1>6, <1>14, <1>15, OthersKept
<1>17. outcome # "accepted" => handed'[k] <= doubted'[k] + crashes
  BY <1>7, <1>8, <1>12 DEF Outcomes
<1>18. outcome = "accepted" => handed'[k] > 0
  BY <1>8, <1>12
<1>19. handed'[k] <= 1 + doubted'[k] + crashes
  BY <1>7, <1>8, <1>12
<1>20. WorkerRow'
  <2>1. worker'.job.row = k /\ ~InQueue(k)'
    BY <1>1, <1>5, <1>6, <1>16
  <2>2. outcome # "accepted" => Owed(k)'
    BY <1>2, <1>7, <1>13, <1>17 DEF Owed, IsMail
  <2>3. outcome = "accepted" => Handed(k)'
    BY <1>2, <1>7, <1>13, <1>18, <1>19 DEF Handed, IsMail
  <2> QED BY <1>5, <2>1, <2>2, <2>3 DEF WorkerRow
<1>21. RowsTell'
  <2>1. \A n \in MailRows : n # k => Tells(n)'
    BY <1>2, <1>12 DEF Safe, RowsTell, Tells
  <2>2. Tells(k)'
    BY <1>2, <1>7, <1>19 DEF Tells, IsMail
  <2> QED BY <1>13, <2>1, <2>2 DEF RowsTell
<1> QED BY <1>4, <1>11, <1>16, <1>20, <1>21 DEF Safe

LEMMA RecordKeeps ==
    ASSUME Safe, Record, scene' = scene
    PROVE  Safe'
<1>1. PICK k : k = worker.job.row
  OBVIOUS
<1>2. /\ worker # NoJob /\ worker \in Worker /\ worker.pc \in {"SENT", "FAILED"}
      /\ worker' = NoJob /\ notices' = [notices EXCEPT ![k].status = worker.pc]
      /\ UNCHANGED <<transport, handed, doubted, queue, crashes>> /\ UNCHANGED <<call, due, ticket>>
  BY <1>1 DEF Record, Safe, TableTypes
<1>3. CallTypes' /\ NoNewRow
  BY <1>2, WorkerTypes DEF Safe
<1>4. /\ IsMail(k) /\ AtWorker(k) /\ k \in NoticeIds
      /\ worker.pc = "SENT" => Handed(k)
      /\ worker.pc = "FAILED" => Owed(k)
  BY <1>1, <1>2 DEF Safe, WorkerRow, AtWorker, Handed, Owed, IsMail, MailRows
<1>5. notices \in Seq(Row) /\ notices[k] \in Row /\ k \in DOMAIN notices
  BY <1>4, RowTypes DEF Safe, TableTypes, NoticeIds
<1> DEFINE row == [notices[k] EXCEPT !.status = worker.pc]
<1>6. row \in Row /\ row.channel = notices[k].channel /\ row.status = worker.pc
  BY <1>2, <1>5 DEF Row, Status
<1>7. notices' = [notices EXCEPT ![k] = row]
  BY <1>2
<1> HIDE DEF row
<1>8. notices' \in Seq(Row) /\ Len(notices') = Len(notices)
  BY <1>5, <1>6, <1>7, ExceptSeq
<1>9. /\ DOMAIN notices' = DOMAIN notices /\ notices'[k] = row
      /\ \A n : n # k => notices'[n] = notices[n]
  BY <1>5, <1>7
<1>10. MailRows' = MailRows
  BY <1>6, <1>9 DEF MailRows, NoticeIds
<1>11. TableTypes'
  BY <1>2, <1>8 DEF Safe, TableTypes
<1>12. \A n : n # k /\ Owed(n) => Owed(n)'
  BY <1>2, <1>9, <1>10 DEF Owed, IsMail
<1>13. \A n : ~AtWorker(n)'
  BY <1>2 DEF AtWorker
<1>14. QueueRows' /\ CallRows'
  BY <1>2, <1>3, <1>4, <1>12, <1>13, OthersKept
<1>15. WorkerRow'
  BY <1>2 DEF WorkerRow
<1>16. RowsTell'
  <2>1. \A n \in MailRows : n # k => Tells(n)'
    BY <1>2, <1>9 DEF Safe, RowsTell, Tells
  <2>2. Tells(k)
    BY <1>4 DEF Safe, RowsTell, IsMail
  <2>3. Tells(k)'
    BY <1>2, <1>4, <1>6, <1>9, <2>2 DEF Tells, Handed, Owed
  <2> QED BY <1>10, <2>1, <2>3 DEF RowsTell
<1> QED BY <1>3, <1>11, <1>14, <1>15, <1>16 DEF Safe

LEMMA JobFailsKeeps ==
    ASSUME Safe, JobFails, scene' = scene
    PROVE  Safe'
<1>1. worker' = NoJob /\ UNCHANGED tables /\ UNCHANGED <<queue, call, due, ticket>>
  BY DEF JobFails, tables
<1>2. RowsKept /\ RowsTell'
  BY <1>1, TablesKept DEF Safe
<1>3. CallTypes' /\ NoNewRow
  BY <1>1, WorkerTypes DEF Safe
<1>4. TableTypes'
  BY <1>1 DEF Safe, TableTypes, tables
<1>5. QueueRows' /\ WorkerRow'
  BY <1>1, <1>2 DEF Safe, QueueRows, WorkerRow, RowsKept
<1>6. \A n : ~AtWorker(n)' /\ (InQueue(n)' => InQueue(n))
  BY <1>1 DEF AtWorker, InQueue
<1>7. CallRows'
  BY <1>2, <1>3, <1>6, CallRowsKept DEF Safe
<1> QED BY <1>2, <1>3, <1>4, <1>5, <1>7 DEF Safe

\* A stop makes every row that may have been handed over owed again.
LEMMA CrashRows ==
    ASSUME TableTypes, crashes' = crashes + 1, UNCHANGED <<transport, notices, handed, doubted>>
    PROVE  /\ \A n : (Owed(n) \/ Handed(n)) => Owed(n)'
           /\ RowsTell => RowsTell'
<1>1. MailRows' = MailRows
  BY DEF MailRows, NoticeIds
<1>2. ASSUME NEW n \in MailRows
      PROVE  /\ handed[n] <= doubted[n] + crashes => handed[n] <= doubted[n] + (crashes + 1)
             /\ handed[n] <= 1 + doubted[n] + crashes => handed[n] <= doubted[n] + (crashes + 1)
             /\ handed[n] <= 1 + doubted[n] + crashes => handed[n] <= 1 + doubted[n] + (crashes + 1)
  <2>1. handed[n] \in Nat /\ doubted[n] \in Nat /\ crashes \in Nat
    BY RowTypes DEF MailRows
  <2> QED BY <2>1
<1>3. \A n : (Owed(n) \/ Handed(n)) => Owed(n)'
  BY <1>1, <1>2 DEF Owed, Handed, IsMail
<1>4. ASSUME RowsTell
      PROVE  RowsTell'
  <2>1. \A n \in MailRows : Tells(n)'
    BY <1>2, <1>4 DEF RowsTell, Tells
  <2> QED BY <1>1, <2>1 DEF RowsTell
<1> QED BY <1>3, <1>4

LEMMA CrashKeeps ==
    ASSUME Safe, Crash, scene' = scene
    PROVE  Safe'
<1>1. /\ crashes' = crashes + 1 /\ call' = [s \in Slots |-> Free] /\ queue' = Requeued /\ worker' = NoJob
      /\ UNCHANGED <<transport, notices, handed, doubted, due, ticket>>
  BY DEF Crash
<1>2. TableTypes /\ queue \in Seq(Job) /\ crashes \in Nat
  BY DEF Safe, TableTypes
<1>3. (\A n : (Owed(n) \/ Handed(n)) => Owed(n)') /\ RowsTell'
  BY <1>1, <1>2, CrashRows DEF Safe
<1>4. CallTypes'
  <2>1. call' \in [Slots -> Call] /\ \A s \in Slots : call'[s].pc = "free"
    BY <1>1, FreeCall
  <2> QED BY <1>1, <2>1 DEF Safe, CallTypes
<1>5. CallRows' /\ WorkerRow'
  <2>1. \A s \in Slots : call'[s].pc # "enqueue"
    BY <1>1, FreeCall
  <2> QED BY <1>1, <2>1 DEF CallRows, WorkerRow
<1>6. \A i, j \in DOMAIN queue : queue[j].row = queue[i].row => j = i
  BY DEF Safe, QueueRows
<1>7. queue' \in Seq(Job) /\ QueueRows'
  <2>1. CASE queue' = queue
    <3>1. \A i \in DOMAIN queue : Owed(queue[i].row)
      BY DEF Safe, QueueRows
    <3> QED BY <1>2, <1>3, <2>1, <3>1 DEF Safe, QueueRows
  <2>2. CASE queue' # queue
    <3> DEFINE job == [worker.job EXCEPT !.stalls = worker.job.stalls + 1]
    <3>1. worker # NoJob /\ queue' = <<job>> \o queue
      BY <1>1, <2>2 DEF Requeued
    <3>2. worker.job \in Job /\ worker.job.stalls \in Nat
      BY <3>1 DEF Safe, TableTypes, Worker, Job
    <3>3. worker.job.stalls + 1 \in Nat
      BY <3>2
    <3>4. job \in Job /\ job.row = worker.job.row
      BY <3>2, <3>3 DEF Job
    <3> HIDE DEF job
    <3>5. /\ <<job>> \in Seq(Job) /\ Len(<<job>>) = 1 /\ <<job>>[1] = job
      BY <3>4
    <3>6. /\ queue' \in Seq(Job) /\ Len(queue') = 1 + Len(queue) /\ Len(queue) \in Nat
          /\ \A i \in 1..(1 + Len(queue)) : queue'[i] = IF i <= 1 THEN job ELSE queue[i - 1]
      BY <1>2, <3>1, <3>5, ConcatProperties, LenProperties
    <3>7. \A i \in DOMAIN queue' : \/ (i = 1 /\ queue'[i].row = worker.job.row)
                                  \/ (i # 1 /\ i - 1 \in DOMAIN queue /\ queue'[i] = queue[i - 1])
      <4>1. DOMAIN queue = 1..Len(queue) /\ DOMAIN queue' = 1..(1 + Len(queue))
        BY <1>2, <3>6, LenProperties
      <4>2. \A i \in 1..(1 + Len(queue)) : \/ (i = 1 /\ i <= 1)
                                          \/ (i # 1 /\ ~(i <= 1) /\ i - 1 \in 1..Len(queue))
        BY <3>6
      <4> QED BY <3>4, <3>6, <4>1, <4>2
    <3>8. /\ Owed(worker.job.row) \/ Handed(worker.job.row)
          /\ \A i \in DOMAIN queue : queue[i].row # worker.job.row
      BY <3>1 DEF Safe, WorkerRow, InQueue
    <3>9. \A i \in DOMAIN queue : Owed(queue[i].row)
      BY DEF Safe, QueueRows
    <3>10. \A i \in DOMAIN queue' : Owed(queue[i].row)'
      BY <1>3, <3>7, <3>8, <3>9
    <3>11. \A i, j \in DOMAIN queue' : queue'[j].row = queue'[i].row => j = i
      <4>1. \A i, j \in DOMAIN queue' : i - 1 = j - 1 => i = j
        BY <3>6, LenProperties
      <4> QED BY <1>6, <3>7, <3>8, <4>1
    <3> QED BY <3>6, <3>10, <3>11 DEF QueueRows
  <2> QED BY <2>1, <2>2
<1>8. TableTypes'
  BY <1>1, <1>2, <1>7 DEF TableTypes
<1> QED BY <1>3, <1>4, <1>5, <1>7, <1>8 DEF Safe

-----------------------------------------------------------------------------
(* Every step.                                                             *)

\* Calls that begin leave the tables alone.
LEMMA BeginKeeps ==
    ASSUME Safe, CallsKept, NoNewRow, scene' = scene,
           ticket' \in [requester: Users, assignee: Users \cup {Nobody}],
           UNCHANGED <<transport, notices, queue, worker, handed, doubted, crashes>>
    PROVE  Safe'
<1>1. CallTypes'
  BY TypesKept DEF Safe
<1> QED BY <1>1, QuietKeeps DEF tables

LEMMA EventTypes == \A s \in Scenes : s.events \subseteq Event
  BY ScenesAssumption DEF Event

LEMMA SlotIsSlot == NextSlot \in Slots
<1>1. \E s \in Slots : CanCall(s) \/ \A r \in Slots : ~CanCall(r)
  BY ReminderAssumption
<1> QED BY <1>1 DEF NextSlot

TicketType == [requester: Users, assignee: Users \cup {Nobody}]

LEMMA DeskKeeps ==
    ASSUME Safe, NEW s \in Slots, DeskStep(s)
    PROVE  Safe'
<1>1. scene \in Scenes /\ scene.events \subseteq Event /\ ticket \in TicketType /\ CallTypes
  BY EventTypes DEF Safe, CallTypes, TicketType
<1>2. ASSUME NEW event \in scene.events, NEW actor \in Users \cup {Nobody}, TicketEvent(s, event, actor)
      PROVE  Safe'
  <2>1. BeginEmit(s, event, actor) /\ ticket' = ticket /\ scene' = scene /\ OthersUnchanged
    BY <1>2 DEF TicketEvent
  <2>2. CallsKept /\ NoNewRow
    BY <1>1, <2>1, EmitBegins
  <2> QED BY <1>1, <2>1, <2>2, BeginKeeps DEF OthersUnchanged, TicketType
<1>3. ASSUME NEW u \in Users, NEW actor \in Users, AssignTicket(s, u, actor)
      PROVE  Safe'
  <2>1. /\ BeginEmit(s, "ticket.assigned", actor) /\ ticket' = [ticket EXCEPT !.assignee = u]
        /\ scene' = scene /\ OthersUnchanged
    BY <1>3 DEF AssignTicket
  <2>2. "ticket.assigned" \in Event
    BY DEF Event
  <2>3. CallsKept /\ NoNewRow
    BY <1>1, <2>1, <2>2, EmitBegins
  <2>4. ticket' \in TicketType
    BY <1>1, <2>1 DEF TicketType
  <2> QED BY <2>1, <2>3, <2>4, BeginKeeps DEF OthersUnchanged, TicketType
<1>4. CASE WarnOfSla(s)
  <2>1. BeginEmit(s, "ticket.sla_warning", Nobody) /\ ticket' = ticket /\ scene' = scene /\ OthersUnchanged
    BY <1>4 DEF WarnOfSla
  <2>2. "ticket.sla_warning" \in Event
    BY DEF Event
  <2>3. CallsKept /\ NoNewRow
    BY <1>1, <2>1, <2>2, EmitBegins
  <2> QED BY <1>1, <2>1, <2>3, BeginKeeps DEF OthersUnchanged, TicketType
<1>5. ASSUME NEW event \in scene.events, NEW people \in SUBSET Users, AdHocEvent(s, event, people)
      PROVE  Safe'
  <2>1. BeginAdHoc(s, event, AdHoc(people)) /\ ticket' = ticket /\ scene' = scene /\ OthersUnchanged
    BY <1>5 DEF AdHocEvent
  <2>2. AdHoc(people) \in SUBSET Reader
    BY DEF AdHoc, Reader
  <2>3. CallsKept /\ NoNewRow
    BY <1>1, <2>1, <2>2, AdHocBegins
  <2> QED BY <1>1, <2>1, <2>3, BeginKeeps DEF OthersUnchanged, TicketType
<1> QED BY <1>2, <1>3, <1>4, <1>5 DEF DeskStep

LEMMA MailKeeps ==
    ASSUME Safe, MailStep \/ MailFails, scene' = scene
    PROVE  Safe'
<1>1. ticket \in TicketType
  BY DEF Safe, CallTypes, TicketType
<1>2. ASSUME NEW s \in Slots, Lookup(s) \/ CallFails(s)
      PROVE  Safe'
  <2>1. CallsKept /\ NoNewRow
    BY <1>2, CallReads DEF Safe
  <2>2. ticket' = ticket /\ UNCHANGED <<transport, notices, queue, worker, handed, doubted, crashes>>
    BY <1>2 DEF Lookup, CallFails
  <2> QED BY <1>1, <2>1, <2>2, BeginKeeps DEF TicketType
<1>3. ASSUME NEW s \in Slots, CallGoesOn(s)
      PROVE  Safe'
  BY <1>2, <1>3, BellKeeps, MailRowKeeps, EnqueueKeeps DEF CallGoesOn
<1>4. CASE WorkerGoesOn
  BY <1>4, TakeJobKeeps, ReadAndBuildKeeps, SendKeeps, RecordKeeps DEF WorkerGoesOn
<1> QED BY <1>2, <1>3, <1>4, JobFailsKeeps DEF MailStep, MailFails

\* The check of the device limit sends mails as every other sender does.
LEMMA ReminderKeeps ==
    ASSUME Safe, CheckStep \/ HoldStep, scene' = scene
    PROVE  Safe'
<1>1. ticket \in TicketType /\ CallTypes /\ JobSlot \in Slots
  BY ReminderAssumption DEF Safe, CallTypes, TicketType
<1>2. ASSUME UNCHANGED mailVars
      PROVE  Safe'
  <2>1. CallTypes' /\ NoNewRow
    BY <1>1, <1>2, WorkerTypes DEF mailVars
  <2> QED BY <1>2, <2>1, QuietKeeps DEF mailVars, tables
<1>3. ASSUME NEW e \in Employees, SendReminder(e)
      PROVE  Safe'
  <2>1. e \in Users
    BY DEF Employees
  <2>2. AdHoc({e}) \in SUBSET Reader
    BY <2>1 DEF AdHoc, Reader
  <2>3. BeginAdHoc(JobSlot, "device.reminder.cycle", AdHoc({e}))
        /\ UNCHANGED <<transport, ticket, notices, queue, worker, handed, doubted, crashes>>
    BY <1>3 DEF SendReminder
  <2>4. "device.reminder.cycle" \in Event
    BY DEF Event
  <2>5. CallsKept /\ NoNewRow
    BY <1>1, <2>2, <2>3, <2>4, AdHocBegins
  <2> QED BY <1>1, <2>3, <2>5, BeginKeeps DEF TicketType
<1>4. ASSUME NEW e \in Employees, SendCopies(e)
      PROVE  Safe'
  <2>1. WithRole("IT_ADMIN", "admin") \in SUBSET Reader /\ WithRole("MANAGER", "manager") \in SUBSET Reader
    BY DEF WithRole, Reader
  <2>2. Copies(e) \in SUBSET Reader
    BY <2>1 DEF Copies
  <2>3. BeginAdHoc(JobSlot, "device.reminder.escalation_cycle", Copies(e))
        /\ UNCHANGED <<transport, ticket, notices, queue, worker, handed, doubted, crashes>>
    BY <1>4 DEF SendCopies
  <2>4. "device.reminder.escalation_cycle" \in Event
    BY DEF Event
  <2>5. CallsKept /\ NoNewRow
    BY <1>1, <2>2, <2>3, <2>4, AdHocBegins
  <2> QED BY <1>1, <2>3, <2>5, BeginKeeps DEF TicketType
<1>5. CASE CheckStep
  BY <1>2, <1>3, <1>4, <1>5 DEF CheckStep, StartCheck, EndCheck, CountDevices, ResolveAll,
                                SkipRecent, RecordReminder
<1>6. CASE HoldStep
  BY <1>2, <1>6 DEF HoldStep, Hand, GiveBack, ReturnResolves
<1> QED BY <1>5, <1>6

LEMMA SafeStep ==
    ASSUME Safe, [Next]_vars
    PROVE  Safe'
<1>1. CASE DeskStep(NextSlot)
  BY <1>1, SlotIsSlot, DeskKeeps
<1>2. CASE MailStep /\ UNCHANGED <<reminderVars, scene, warned>>
  BY <1>2, MailKeeps
<1>3. CASE MayFail /\ MailFails /\ UNCHANGED <<reminderVars, scene, warned>>
  BY <1>3, MailKeeps
<1>4. CASE ReminderScene \in scene.events /\ (CheckStep \/ HoldStep) /\ UNCHANGED <<scene, warned>>
  BY <1>4, ReminderKeeps
<1>5. CASE MayFail /\ CrashWithCheck /\ UNCHANGED <<scene, warned>>
  BY <1>5, CrashKeeps DEF CrashWithCheck
<1>6. CASE (MayFail /\ CheckFails /\ UNCHANGED <<scene, warned>>) \/ UNCHANGED vars
  <2>1. UNCHANGED <<transport, ticket, notices, queue, worker, call, due, handed, doubted, crashes, scene>>
    BY <1>6 DEF vars, mailVars, CheckFails
  <2>2. CallTypes' /\ NoNewRow
    BY <2>1, WorkerTypes DEF Safe
  <2> QED BY <2>1, <2>2, QuietKeeps DEF tables
<1> QED BY <1>1, <1>2, <1>3, <1>4, <1>5, <1>6 DEF Next

LEMMA SafeInit ==
    ASSUME Init
    PROVE  Safe
<1>1. /\ notices = <<>> /\ queue = <<>> /\ worker = NoJob /\ call = [s \in Slots |-> Free]
      /\ due = <<>> /\ handed = <<>> /\ doubted = <<>> /\ crashes = 0
      /\ scene \in Scenes /\ transport = scene.transport /\ ticket \in scene.tickets
  BY DEF Init, MailInit
<1>2. transport \in BOOLEAN /\ ticket \in TicketType
  BY <1>1, ScenesAssumption DEF TicketType
<1>3. call \in [Slots -> Call] /\ \A s \in Slots : call[s].pc = "free"
  BY <1>1, FreeCall
<1>4. CallTypes
  <2>1. due \in Seq(Due)
    BY <1>1
  <2>2. \A s \in Slots : call[s].pc \in {"bell", "mail row", "enqueue"} => call[s].at \in Reader
    BY <1>3
  <2> QED BY <1>1, <1>2, <1>3, <2>1, <2>2 DEF CallTypes, TicketType
<1>5. TableTypes
  BY <1>1, <1>2 DEF TableTypes
<1>6. QueueRows /\ WorkerRow /\ CallRows
  BY <1>1, <1>3 DEF QueueRows, WorkerRow, CallRows
<1>7. RowsTell
  BY <1>1 DEF RowsTell, MailRows, NoticeIds
<1> QED BY <1>4, <1>5, <1>6, <1>7 DEF Safe

-----------------------------------------------------------------------------

\* The status of a mail is true to what became of it: SENT only what was handed
\* over, FAILED only what no attempt has been acknowledged of, and nothing is
\* handed over twice but through an unanswered attempt or a stop of the
\* process (email.processor.ts, notifications.service.ts).
THEOREM StatusIsTrue == Spec => []StatusTellsDelivery
<1>1. Safe => StatusTellsDelivery
  BY DEF Safe, RowsTell, Tells, StatusTellsDelivery
<1> QED BY SafeInit, SafeStep, <1>1, PTL DEF Spec

-----------------------------------------------------------------------------
(* Who gets a mail: each reader of a call one, after a line in the bell,   *)
(* and nobody else.                                                        *)

CopyEvent == "device.reminder.escalation_cycle"

\* No two of the readers are one user.
Apart(readers) == \A r, q \in readers : r.to = q.to => r = q

\* Whose mail is still to be written.
Awaited(h) == h.left \cup (IF h.pc \in {"bell", "mail row"} THEN {h.at} ELSE {})

\* No mail of the call is to one of the readers.
NoneYet(readers, n, ns) ==
    \A m \in DOMAIN ns : ns[m].channel = "EMAIL" /\ ns[m].call = n =>
                           \A r \in readers : ns[m].to # r.to

\* Whom call n may tell, d being the table of calls.
MayTell(d, n) == d[n].readers \ {d[n].actor}

Ready(h, left, d, ns) ==
    /\ h.n \in 1..Len(d)
    /\ \A r \in left : r.to \in MayTell(d, h.n)
    /\ h.event # CopyEvent => Apart(left) /\ NoneYet(left, h.n, ns)
    /\ \A m \in DOMAIN ns : ns[m].call = h.n => ns[m].event = h.event

\* A call under way, the table of calls being d and that of rows ns.
UnderWay(h, d, ns) ==
    h.pc # "free" =>
        /\ Ready(h, Awaited(h), d, ns)
        /\ h.pc = "lookup" => h.left = {} /\ h.actor = d[h.n].actor /\ \A m \in DOMAIN ns : ns[m].call # h.n
        /\ h.pc \in {"bell", "mail row"} => h.at \notin h.left
        /\ h.pc = "mail row" =>
             \E b \in DOMAIN ns : ns[b].channel = "IN_APP" /\ ns[b].to = h.at.to /\ ns[b].call = h.n

RowsOfCalls(d, ns) == \A m \in DOMAIN ns : ns[m].call \in 1..Len(d)

\* A row is the mail of one whom its call may tell, and comes after his line in the bell.
IsDue(n, d, ns) ==
    /\ \E b \in 1..(n - 1) : ns[b].channel = "IN_APP" /\ ns[b].to = ns[n].to /\ ns[b].call = ns[n].call
    /\ ns[n].to \in MayTell(d, ns[n].call)

OneOfItsKind(n, ns) ==
    ns[n].event # CopyEvent =>
        \A m \in DOMAIN ns : ns[m].channel = "EMAIL" /\ ns[m].call = ns[n].call /\ ns[m].to = ns[n].to => m = n

MailsAreDue(d, ns) ==
    \A n \in DOMAIN ns : ns[n].channel = "EMAIL" => IsDue(n, d, ns) /\ OneOfItsKind(n, ns)

CallsApart(c, d, ns) ==
    /\ \A s \in Slots : UnderWay(c[s], d, ns)
    /\ \A s, r \in Slots : c[s].pc # "free" /\ c[r].pc # "free" /\ c[s].n = c[r].n => s = r

ReadersOf(c, d, ns) == RowsOfCalls(d, ns) /\ MailsAreDue(d, ns) /\ CallsApart(c, d, ns)

Readers == ReadersOf(call, due, notices)

-----------------------------------------------------------------------------
(* One call and the tables.                                                *)

LEMMA NextIsReady ==
    ASSUME NEW h \in Call, NEW left \in SUBSET Reader, NEW d, NEW ns, Ready(h, left, d, ns),
           NEW g \in NextReader(h, left)
    PROVE  UnderWay(g, d, ns) /\ (g.pc = "free" \/ g.n = h.n)
<1>1. CASE left = {}
  BY <1>1, FreeCall DEF NextReader, UnderWay
<1>2. CASE left # {}
  <2>1. PICK r \in left : g = [h EXCEPT !.pc = "bell", !.at = r, !.left = left \ {r}, !.row = 0]
    BY <1>2 DEF NextReader
  <2>2. g.pc = "bell" /\ g.at = r /\ g.left = left \ {r} /\ g.n = h.n /\ g.event = h.event
    BY <2>1 DEF Call
  <2>3. Awaited(g) = left
    BY <2>2 DEF Awaited
  <2>4. Ready(g, left, d, ns)
    BY <2>2 DEF Ready
  <2> QED BY <2>2, <2>3, <2>4 DEF UnderWay
<1> QED BY <1>1, <1>2

\* A call is not disturbed by another call that begins,
LEMMA AnotherBegins ==
    ASSUME NEW h, NEW d \in Seq(Due), NEW ns, NEW x \in Due, UnderWay(h, d, ns)
    PROVE  UnderWay(h, Append(d, x), ns)
<1>1. /\ Len(d) \in Nat /\ Len(Append(d, x)) = Len(d) + 1
      /\ \A i \in 1..Len(d) : Append(d, x)[i] = d[i]
  BY AppendProperties, LenProperties
<1>2. \A i \in 1..Len(d) : i \in 1..Len(Append(d, x)) /\ Append(d, x)[i] = d[i]
  BY <1>1
<1>3. h.pc # "free" => Ready(h, Awaited(h), Append(d, x), ns)
  BY <1>2 DEF UnderWay, Ready, MayTell
<1>4. h.pc # "free" => Append(d, x)[h.n] = d[h.n]
  BY <1>2 DEF UnderWay, Ready
<1> QED BY <1>3, <1>4 DEF UnderWay

\* nor by one that learns its readers,
LEMMA AnotherReads ==
    ASSUME NEW h, NEW d \in Seq(Due), NEW e \in Seq(Due), NEW ns, NEW k, UnderWay(h, d, ns),
           Len(e) = Len(d), \A i \in 1..Len(d) : i # k => e[i] = d[i], h.pc # "free" => h.n # k
    PROVE  UnderWay(h, e, ns)
<1>1. h.pc # "free" => Ready(h, Awaited(h), e, ns)
  BY DEF UnderWay, Ready, MayTell
<1>2. h.pc # "free" => e[h.n] = d[h.n]
  BY DEF UnderWay, Ready
<1> QED BY <1>1, <1>2 DEF UnderWay

\* nor by a row of another call,
LEMMA AnotherWrites ==
    ASSUME NEW h, NEW d, NEW ns \in Seq(Row), NEW x \in Row, UnderWay(h, d, ns), h.pc # "free" => x.call # h.n
    PROVE  UnderWay(h, d, Append(ns, x))
<1>1. /\ Len(ns) \in Nat /\ DOMAIN ns = 1..Len(ns) /\ DOMAIN Append(ns, x) = 1..(Len(ns) + 1)
      /\ Append(ns, x)[Len(ns) + 1] = x /\ \A i \in 1..Len(ns) : Append(ns, x)[i] = ns[i]
  BY AppendProperties, LenProperties
<1>2. /\ \A i \in DOMAIN ns : i \in DOMAIN Append(ns, x) /\ Append(ns, x)[i] = ns[i]
      /\ \A i \in DOMAIN Append(ns, x) : i \in DOMAIN ns \/ Append(ns, x)[i] = x
  BY <1>1
<1>3. h.pc # "free" => Ready(h, Awaited(h), d, Append(ns, x))
  BY <1>2 DEF UnderWay, Ready, NoneYet
<1> QED BY <1>2, <1>3 DEF UnderWay

\* nor by what becomes of a row.
Alike(ms, ns) ==
    /\ DOMAIN ms = DOMAIN ns
    /\ \A n \in DOMAIN ns : /\ ms[n].to = ns[n].to /\ ms[n].event = ns[n].event
                            /\ ms[n].channel = ns[n].channel /\ ms[n].call = ns[n].call

LEMMA RowsChange ==
    ASSUME NEW ns \in Seq(Row), NEW ms \in Seq(Row), Alike(ms, ns), NEW d
    PROVE  /\ \A h : UnderWay(h, d, ns) => UnderWay(h, d, ms)
           /\ RowsOfCalls(d, ns) => RowsOfCalls(d, ms)
           /\ MailsAreDue(d, ns) => MailsAreDue(d, ms)
<1>1. \A h : UnderWay(h, d, ns) => UnderWay(h, d, ms)
  <2>1. \A h, left : Ready(h, left, d, ns) => Ready(h, left, d, ms)
    BY DEF Ready, NoneYet, Alike
  <2> QED BY <2>1 DEF UnderWay, Alike
<1>2. RowsOfCalls(d, ns) => RowsOfCalls(d, ms)
  BY DEF RowsOfCalls, Alike
<1>3. \A n \in DOMAIN ns : (IsDue(n, d, ns) => IsDue(n, d, ms)) /\ (OneOfItsKind(n, ns) => OneOfItsKind(n, ms))
  <2>1. DOMAIN ns = 1..Len(ns) /\ Len(ns) \in Nat
    BY LenProperties
  <2>2. \A n \in DOMAIN ns : \A b \in 1..(n - 1) : b \in DOMAIN ns
    BY <2>1
  <2>3. \A n \in DOMAIN ns : IsDue(n, d, ns) => IsDue(n, d, ms)
    BY <2>2 DEF IsDue, Alike
  <2>4. \A n \in DOMAIN ns : OneOfItsKind(n, ns) => OneOfItsKind(n, ms)
    BY DEF OneOfItsKind, Alike
  <2> QED BY <2>3, <2>4
<1>4. MailsAreDue(d, ns) => MailsAreDue(d, ms)
  BY <1>3 DEF MailsAreDue, Alike
<1> QED BY <1>1, <1>2, <1>4

-----------------------------------------------------------------------------
(* The steps of a call, c being the calls before the step.                 *)

\* A call begins.
LEMMA BeginsApart ==
    ASSUME NEW c \in [Slots -> Call], NEW d \in Seq(Due), NEW ns \in Seq(Row), ReadersOf(c, d, ns),
           NEW x \in Due, NEW s \in Slots, NEW g \in Call, c[s].pc = "free",
           UnderWay(g, Append(d, x), ns), g.pc # "free" => g.n = Len(d) + 1
    PROVE  ReadersOf([c EXCEPT ![s] = g], Append(d, x), ns)
<1>1. /\ Len(d) \in Nat /\ Len(Append(d, x)) = Len(d) + 1
      /\ \A i \in 1..Len(d) : Append(d, x)[i] = d[i]
  BY AppendProperties, LenProperties
<1>2. \A i \in 1..Len(d) : i \in 1..Len(Append(d, x)) /\ i # Len(d) + 1
  BY <1>1
<1>3. RowsOfCalls(Append(d, x), ns)
  BY <1>2 DEF ReadersOf, RowsOfCalls
<1>4. MailsAreDue(Append(d, x), ns)
  BY <1>1 DEF ReadersOf, RowsOfCalls, MailsAreDue, IsDue, MayTell
<1> DEFINE f == [c EXCEPT ![s] = g]
<1>5. f[s] = g /\ \A r \in Slots : r # s => f[r] = c[r]
  OBVIOUS
<1> HIDE DEF f
<1>6. \A r \in Slots : UnderWay(c[r], Append(d, x), ns)
  BY AnotherBegins DEF ReadersOf, CallsApart
<1>7. \A r \in Slots : c[r].pc # "free" => c[r].n \in 1..Len(d)
  BY DEF ReadersOf, CallsApart, UnderWay, Ready
<1>8. \A r, q \in Slots : f[r].pc # "free" /\ f[q].pc # "free" /\ f[r].n = f[q].n => r = q
  BY <1>2, <1>5, <1>7 DEF ReadersOf, CallsApart
<1>9. CallsApart(f, Append(d, x), ns)
  BY <1>5, <1>6, <1>8 DEF CallsApart
<1> QED BY <1>3, <1>4, <1>9 DEF ReadersOf, f

\* A call goes on, whatever else it changes.
LEMMA GoesOnApart ==
    ASSUME NEW c \in [Slots -> Call], NEW d, NEW ns, CallsApart(c, d, ns),
           NEW e, NEW ms, NEW s \in Slots, NEW g \in Call, c[s].pc # "free",
           UnderWay(g, e, ms), g.pc = "free" \/ g.n = c[s].n,
           \A r \in Slots : r # s => UnderWay(c[r], e, ms)
    PROVE  CallsApart([c EXCEPT ![s] = g], e, ms)
<1> DEFINE f == [c EXCEPT ![s] = g]
<1>1. f[s] = g /\ \A r \in Slots : r # s => f[r] = c[r]
  OBVIOUS
<1> HIDE DEF f
<1>2. \A r \in Slots : UnderWay(f[r], e, ms)
  BY <1>1
<1>3. \A r, q \in Slots : f[r].pc # "free" /\ f[q].pc # "free" /\ f[r].n = f[q].n => r = q
  BY <1>1 DEF CallsApart
<1> QED BY <1>2, <1>3 DEF CallsApart, f

\* It goes on to its next reader, or ends.
LEMMA TurnsToNext ==
    ASSUME NEW c \in [Slots -> Call], NEW d, NEW ns, ReadersOf(c, d, ns),
           NEW s \in Slots, c[s].pc # "free", NEW g \in NextReader(c[s], c[s].left)
    PROVE  ReadersOf([c EXCEPT ![s] = g], d, ns)
<1>1. c[s] \in Call /\ c[s].left \in SUBSET Reader
  BY DEF Call
<1>2. UnderWay(c[s], d, ns) /\ CallsApart(c, d, ns)
  BY DEF ReadersOf, CallsApart
<1>3. Ready(c[s], c[s].left, d, ns)
  <2>1. Ready(c[s], Awaited(c[s]), d, ns) /\ c[s].left \subseteq Awaited(c[s])
    BY <1>2 DEF UnderWay, Awaited
  <2> QED BY <2>1 DEF Ready, Apart, NoneYet
<1>4. g \in Call
  BY <1>1, NextReaderTypes
<1>5. UnderWay(g, d, ns) /\ (g.pc = "free" \/ g.n = c[s].n)
  BY <1>1, <1>3, NextIsReady
<1>6. CallsApart([c EXCEPT ![s] = g], d, ns)
  BY <1>2, <1>4, <1>5, GoesOnApart DEF CallsApart
<1> QED BY <1>6 DEF ReadersOf

\* It learns its readers.
LEMMA LearnsReaders ==
    ASSUME NEW c \in [Slots -> Call], NEW d \in Seq(Due), NEW ns \in Seq(Row), ReadersOf(c, d, ns),
           NEW s \in Slots, c[s].pc = "lookup", NEW readers \in SUBSET Reader, Apart(readers),
           NEW e \in Seq(Due), Len(e) = Len(d), \A i \in 1..Len(d) : i # c[s].n => e[i] = d[i],
           e[c[s].n].actor = d[c[s].n].actor,
           \A r \in readers : r.to \in e[c[s].n].readers /\ r.to # c[s].actor, NEW g \in NextReader(c[s], readers)
    PROVE  ReadersOf([c EXCEPT ![s] = g], e, ns)
<1>1. c[s] \in Call /\ UnderWay(c[s], d, ns) /\ CallsApart(c, d, ns)
  BY DEF ReadersOf, CallsApart
<1>2. /\ c[s].n \in 1..Len(d) /\ c[s].actor = d[c[s].n].actor
      /\ \A m \in DOMAIN ns : ns[m].call # c[s].n
  BY <1>1 DEF UnderWay, Ready
<1>3. Ready(c[s], readers, e, ns)
  BY <1>2 DEF Ready, NoneYet, MayTell
<1>4. g \in Call
  BY <1>1, NextReaderTypes
<1>5. UnderWay(g, e, ns) /\ (g.pc = "free" \/ g.n = c[s].n)
  BY <1>1, <1>3, NextIsReady
<1>6. \A r \in Slots : r # s => UnderWay(c[r], e, ns)
  <2> SUFFICES ASSUME NEW r \in Slots, r # s
               PROVE  UnderWay(c[r], e, ns)
    OBVIOUS
  <2>1. UnderWay(c[r], d, ns) /\ (c[r].pc # "free" => c[r].n # c[s].n)
    BY <1>1 DEF CallsApart
  <2> QED BY <2>1, AnotherReads
<1>7. CallsApart([c EXCEPT ![s] = g], e, ns)
  BY <1>1, <1>4, <1>5, <1>6, GoesOnApart
<1>8. RowsOfCalls(e, ns)
  BY DEF ReadersOf, RowsOfCalls
<1>9. MailsAreDue(e, ns)
  BY <1>2 DEF ReadersOf, RowsOfCalls, MailsAreDue, IsDue, MayTell
<1> QED BY <1>7, <1>8, <1>9 DEF ReadersOf

\* A table ms that has one row more than ns, the row k.
OneMore(ms, ns, k, x) ==
    /\ k \in DOMAIN ms /\ k \notin DOMAIN ns /\ ms[k] = x
    /\ \A i \in DOMAIN ns : i \in DOMAIN ms /\ ms[i] = ns[i]
    /\ \A i \in DOMAIN ms : i \in DOMAIN ns \/ i = k
    /\ \A i \in DOMAIN ns : \A b \in 1..(i - 1) : b \in DOMAIN ns
    /\ \A b \in DOMAIN ns : b \in 1..(k - 1)
    /\ \A b \in 1..(k - 1) : b \in DOMAIN ns

LEMMA AppendIsOneMore ==
    ASSUME NEW ns \in Seq(Row), NEW x \in Row
    PROVE  \E k : OneMore(Append(ns, x), ns, k, x)
<1>1. /\ Len(ns) \in Nat /\ DOMAIN ns = 1..Len(ns) /\ DOMAIN Append(ns, x) = 1..(Len(ns) + 1)
      /\ Append(ns, x)[Len(ns) + 1] = x /\ \A i \in 1..Len(ns) : Append(ns, x)[i] = ns[i]
  BY AppendProperties, LenProperties
<1>2. OneMore(Append(ns, x), ns, Len(ns) + 1, x)
  BY <1>1 DEF OneMore
<1> QED BY <1>2

\* The line in the bell.
LEMMA RingsBell ==
    ASSUME NEW c \in [Slots -> Call], NEW d, NEW ns \in Seq(Row), ReadersOf(c, d, ns),
           NEW s \in Slots, c[s].pc = "bell",
           NEW g \in Call, g.pc = "mail row", g.n = c[s].n, g.event = c[s].event, g.at = c[s].at, g.left = c[s].left,
           NEW x \in Row, x.to = c[s].at.to, x.event = c[s].event, x.channel = "IN_APP", x.call = c[s].n
    PROVE  ReadersOf([c EXCEPT ![s] = g], d, Append(ns, x))
<1>1. PICK k : OneMore(Append(ns, x), ns, k, x)
  BY AppendIsOneMore
<1>2. /\ k \in DOMAIN Append(ns, x) /\ Append(ns, x)[k] = x
      /\ \A i \in DOMAIN ns : i \in DOMAIN Append(ns, x) /\ Append(ns, x)[i] = ns[i]
      /\ \A i \in DOMAIN Append(ns, x) : i \in DOMAIN ns \/ i = k
      /\ \A i \in DOMAIN ns : \A b \in 1..(i - 1) : b \in DOMAIN ns
  BY <1>1 DEF OneMore
<1>3. UnderWay(c[s], d, ns) /\ CallsApart(c, d, ns)
  BY DEF ReadersOf, CallsApart
<1>4. Ready(c[s], Awaited(c[s]), d, ns) /\ c[s].at \notin c[s].left
  BY <1>3 DEF UnderWay
<1>5. Awaited(g) = Awaited(c[s])
  BY DEF Awaited
<1>6. Ready(g, Awaited(g), d, Append(ns, x))
  <2>1. g.n \in 1..Len(d) /\ \A r \in Awaited(g) : r.to \in MayTell(d, g.n)
    BY <1>4, <1>5 DEF Ready
  <2>2. g.event # CopyEvent => Apart(Awaited(g)) /\ NoneYet(Awaited(g), g.n, Append(ns, x))
    <3>1. c[s].event # CopyEvent => Apart(Awaited(c[s])) /\ NoneYet(Awaited(c[s]), c[s].n, ns)
      BY <1>4 DEF Ready
    <3>2. \A readers, n : NoneYet(readers, n, ns) => NoneYet(readers, n, Append(ns, x))
      BY <1>2 DEF NoneYet
    <3> QED BY <1>5, <3>1, <3>2
  <2>3. \A m \in DOMAIN Append(ns, x) : Append(ns, x)[m].call = g.n => Append(ns, x)[m].event = g.event
    BY <1>2, <1>4 DEF Ready
  <2> QED BY <2>1, <2>2, <2>3 DEF Ready
<1>7. UnderWay(g, d, Append(ns, x))
  BY <1>2, <1>4, <1>6 DEF UnderWay
<1>8. \A r \in Slots : r # s => UnderWay(c[r], d, Append(ns, x))
  BY <1>3, AnotherWrites DEF CallsApart
<1>9. CallsApart([c EXCEPT ![s] = g], d, Append(ns, x))
  BY <1>3, <1>7, <1>8, GoesOnApart
<1>10. RowsOfCalls(d, Append(ns, x))
  BY <1>2, <1>4 DEF ReadersOf, RowsOfCalls, Ready
<1>11. MailsAreDue(d, Append(ns, x))
  <2>2. \A i \in DOMAIN ns : IsDue(i, d, ns) => IsDue(i, d, Append(ns, x))
    BY <1>2 DEF IsDue
  <2>3. \A i \in DOMAIN ns : OneOfItsKind(i, ns) => OneOfItsKind(i, Append(ns, x))
    BY <1>2 DEF OneOfItsKind
  <2> QED BY <1>2, <2>2, <2>3 DEF ReadersOf, MailsAreDue
<1> QED BY <1>9, <1>10, <1>11 DEF ReadersOf

\* The row of the mail.
LEMMA WritesMail ==
    ASSUME NEW c \in [Slots -> Call], NEW d, NEW ns \in Seq(Row), ReadersOf(c, d, ns),
           NEW s \in Slots, c[s].pc = "mail row", c[s].at \in Reader,
           NEW g \in Call, g.pc = "enqueue", g.n = c[s].n, g.event = c[s].event, g.left = c[s].left,
           NEW x \in Row, x.to = c[s].at.to, x.event = c[s].event, x.channel = "EMAIL", x.call = c[s].n
    PROVE  ReadersOf([c EXCEPT ![s] = g], d, Append(ns, x))
<1>1. PICK k : OneMore(Append(ns, x), ns, k, x)
  BY AppendIsOneMore
<1>2. /\ k \in DOMAIN Append(ns, x) /\ Append(ns, x)[k] = x
      /\ \A i \in DOMAIN ns : i \in DOMAIN Append(ns, x) /\ Append(ns, x)[i] = ns[i]
      /\ \A i \in DOMAIN Append(ns, x) : i \in DOMAIN ns \/ i = k
      /\ \A i \in DOMAIN ns : \A b \in 1..(i - 1) : b \in DOMAIN ns
      /\ \A b \in DOMAIN ns : b \in 1..(k - 1)
  BY <1>1 DEF OneMore
<1>3. UnderWay(c[s], d, ns) /\ CallsApart(c, d, ns)
  BY DEF ReadersOf, CallsApart
<1>4. /\ Ready(c[s], Awaited(c[s]), d, ns) /\ c[s].at \notin c[s].left
      /\ \E b \in DOMAIN ns : ns[b].channel = "IN_APP" /\ ns[b].to = c[s].at.to /\ ns[b].call = c[s].n
      /\ Awaited(c[s]) = c[s].left \cup {c[s].at} /\ Awaited(g) = c[s].left
  BY <1>3 DEF UnderWay, Awaited
<1>5. c[s].event # CopyEvent => NoneYet(c[s].left, c[s].n, Append(ns, x)) /\ Apart(c[s].left)
  <2>1. c[s].event # CopyEvent => Apart(c[s].left \cup {c[s].at}) /\ NoneYet(c[s].left \cup {c[s].at}, c[s].n, ns)
    BY <1>4 DEF Ready
  <2>2. ASSUME c[s].event # CopyEvent, NEW r \in c[s].left, r.to = x.to
        PROVE  FALSE
    <3>1. r # c[s].at /\ r.to = c[s].at.to
      BY <1>4, <2>2
    <3> QED BY <2>1, <2>2, <3>1 DEF Apart
  <2>3. c[s].event # CopyEvent => NoneYet(c[s].left, c[s].n, ns) /\ Apart(c[s].left)
    BY <2>1 DEF NoneYet, Apart
  <2> QED BY <1>2, <2>2, <2>3 DEF NoneYet
<1>6. Ready(g, Awaited(g), d, Append(ns, x))
  <2>1. g.n \in 1..Len(d) /\ \A r \in c[s].left : r.to \in MayTell(d, g.n)
    BY <1>4 DEF Ready
  <2>2. \A m \in DOMAIN Append(ns, x) : Append(ns, x)[m].call = g.n => Append(ns, x)[m].event = g.event
    BY <1>2, <1>4 DEF Ready
  <2> QED BY <1>4, <1>5, <2>1, <2>2 DEF Ready
<1>7. UnderWay(g, d, Append(ns, x))
  BY <1>6 DEF UnderWay
<1>8. \A r \in Slots : r # s => UnderWay(c[r], d, Append(ns, x))
  BY <1>3, AnotherWrites DEF CallsApart
<1>9. CallsApart([c EXCEPT ![s] = g], d, Append(ns, x))
  BY <1>3, <1>7, <1>8, GoesOnApart
<1>10. RowsOfCalls(d, Append(ns, x))
  BY <1>2, <1>4 DEF ReadersOf, RowsOfCalls, Ready
<1>11. \A i \in DOMAIN Append(ns, x) : Append(ns, x)[i].channel = "EMAIL" => IsDue(i, d, Append(ns, x))
  <2>2. \A i \in DOMAIN ns : IsDue(i, d, ns) => IsDue(i, d, Append(ns, x))
    BY <1>2 DEF IsDue
  <2>3. IsDue(k, d, Append(ns, x))
    BY <1>2, <1>4 DEF IsDue, Ready
  <2> QED BY <1>2, <2>2, <2>3 DEF ReadersOf, MailsAreDue
<1>12. \A i \in DOMAIN Append(ns, x) : Append(ns, x)[i].channel = "EMAIL" => OneOfItsKind(i, Append(ns, x))
  <2>1. \A m \in DOMAIN ns : ns[m].call = x.call /\ ns[m].channel = "EMAIL" =>
            ns[m].event = x.event /\ (x.event # CopyEvent => ns[m].to # x.to)
    BY <1>4 DEF Ready, NoneYet
  <2>2. ASSUME NEW i \in DOMAIN ns, ns[i].channel = "EMAIL"
        PROVE  OneOfItsKind(i, Append(ns, x))
    <3>1. OneOfItsKind(i, ns)
      BY <2>2 DEF ReadersOf, MailsAreDue
    <3>2. ns[i].event # CopyEvent => ~(x.call = ns[i].call /\ x.to = ns[i].to)
      BY <2>1, <2>2
    <3> QED BY <1>2, <3>1, <3>2 DEF OneOfItsKind
  <2>3. OneOfItsKind(k, Append(ns, x))
    BY <1>2, <2>1 DEF OneOfItsKind
  <2> QED BY <1>2, <2>2, <2>3
<1>13. MailsAreDue(d, Append(ns, x))
  BY <1>11, <1>12 DEF MailsAreDue
<1> QED BY <1>9, <1>10, <1>13 DEF ReadersOf

\* Rows change their status only.
LEMMA StatusChanges ==
    ASSUME NEW c, NEW d, NEW ns \in Seq(Row), NEW ms \in Seq(Row), Alike(ms, ns), ReadersOf(c, d, ns)
    PROVE  ReadersOf(c, d, ms)
  BY RowsChange DEF ReadersOf, CallsApart

-----------------------------------------------------------------------------
(* The steps of the system.                                                *)

LEMMA EmitKeepsApart ==
    ASSUME Safe, Readers, NEW s \in Slots, NEW event \in Event, NEW actor \in Users \cup {Nobody},
           BeginEmit(s, event, actor), notices' = notices
    PROVE  Readers'
<1> DEFINE k == Len(due) + 1
           g == [Free EXCEPT !.pc = "lookup", !.n = k, !.event = event, !.actor = actor]
           x == [event |-> event, actor |-> actor, readers |-> {}]
<1>1. /\ call \in [Slots -> Call] /\ due \in Seq(Due) /\ notices \in Seq(Row) /\ x \in Due
      /\ Len(due) \in Nat /\ k \in Nat
  <2>1. call \in [Slots -> Call] /\ due \in Seq(Due) /\ notices \in Seq(Row) /\ x \in Due
    BY DEF Safe, CallTypes, TableTypes, Due
  <2> QED BY <2>1, LenProperties
<1>2. call' = [call EXCEPT ![s] = g] /\ due' = Append(due, x) /\ call[s].pc = "free"
  BY DEF BeginEmit, Go, CanCall
<1>3. g \in Call /\ g.pc = "lookup" /\ g.n = k /\ g.left = {} /\ g.actor = x.actor
  BY <1>1, FreeCall DEF Call, CallPC, Free
<1> HIDE DEF g, x
<1>4. \A m \in DOMAIN notices : notices[m].call # k
  BY <1>1 DEF Readers, ReadersOf, RowsOfCalls
<1>5. k \in 1..Len(Append(due, x)) /\ Append(due, x)[k] = x
  BY <1>1, AppendProperties
<1> HIDE DEF k
<1>6. UnderWay(g, Append(due, x), notices)
  BY <1>3, <1>4, <1>5 DEF UnderWay, Ready, Awaited, Apart, NoneYet
<1>7. ReadersOf([call EXCEPT ![s] = g], Append(due, x), notices)
  BY <1>1, <1>2, <1>3, <1>6, BeginsApart DEF Readers, k
<1> QED BY <1>2, <1>7 DEF Readers

LEMMA AdHocKeepsApart ==
    ASSUME Safe, Readers, NEW s \in Slots, NEW event \in Event, NEW readers \in SUBSET Reader,
           event # CopyEvent => Apart(readers), BeginAdHoc(s, event, readers), notices' = notices
    PROVE  Readers'
<1> DEFINE k == Len(due) + 1
           f == [Free EXCEPT !.n = k, !.event = event]
           x == [event |-> event, actor |-> Nobody, readers |-> {r.to : r \in readers}]
<1>1. /\ call \in [Slots -> Call] /\ due \in Seq(Due) /\ notices \in Seq(Row) /\ x \in Due
      /\ Len(due) \in Nat /\ k \in Nat
  <2>1. {r.to : r \in readers} \in SUBSET Users
    BY DEF Reader
  <2>2. call \in [Slots -> Call] /\ due \in Seq(Due) /\ notices \in Seq(Row) /\ x \in Due
    BY <2>1 DEF Safe, CallTypes, TableTypes, Due
  <2> QED BY <2>2, LenProperties
<1>2. /\ due' = Append(due, x) /\ call[s].pc = "free"
      /\ \E h \in NextReader(f, readers) : call' = [call EXCEPT ![s] = h]
  BY DEF BeginAdHoc, Go, CanCall
<1>3. f \in Call /\ f.n = k /\ f.event = event
  BY <1>1, FreeCall DEF Call, CallPC, Free
<1>4. \A r \in readers : r.to \in x.readers /\ r.to # x.actor
  BY MailAssumption DEF Reader
<1> HIDE DEF f, x
<1>5. \A m \in DOMAIN notices : notices[m].call # k
  BY <1>1 DEF Readers, ReadersOf, RowsOfCalls
<1>6. k \in 1..Len(Append(due, x)) /\ Append(due, x)[k] = x
  BY <1>1, AppendProperties
<1>7. PICK g \in NextReader(f, readers) : call' = [call EXCEPT ![s] = g]
  BY <1>2
<1> HIDE DEF k
<1>8. Ready(f, readers, Append(due, x), notices)
  BY <1>3, <1>4, <1>5, <1>6 DEF Ready, NoneYet, MayTell
<1>9. g \in Call
  BY <1>3, <1>7, NextReaderTypes
<1>10. UnderWay(g, Append(due, x), notices) /\ (g.pc = "free" \/ g.n = k)
  BY <1>3, <1>7, <1>8, NextIsReady
<1>11. ReadersOf([call EXCEPT ![s] = g], Append(due, x), notices)
  BY <1>1, <1>2, <1>9, <1>10, BeginsApart DEF Readers, k
<1> QED BY <1>2, <1>7, <1>11 DEF Readers

\* Whom an event is for: each user as one reader.
LEMMA RecipientsApart ==
    ASSUME NEW event, NEW actor
    PROVE  Apart(ResolveRecipients(event, actor))
<1>1. /\ Apart(Requester) /\ Apart(Assignee) /\ Apart({})
      /\ Apart(WithRole("IT_ADMIN", "admin")) /\ Apart(WithRole("MANAGER", "manager"))
  BY DEF Apart, Requester, Assignee, WithRole
<1>2. Apart(Candidates(event)[1]) /\ Apart(Candidates(event)[2])
  BY <1>1 DEF Candidates
<1> QED BY <1>2 DEF ResolveRecipients, Apart

LEMMA AdHocApart == \A people : Apart(AdHoc(people))
  BY DEF Apart, AdHoc

LEMMA CallStates ==
    ASSUME Safe, NEW s \in Slots
    PROVE  /\ call \in [Slots -> Call] /\ call[s] \in Call
           /\ due \in Seq(Due) /\ notices \in Seq(Row)
           /\ call[s].pc \in {"bell", "mail row", "enqueue"} => call[s].at \in Reader
  BY DEF Safe, CallTypes, TableTypes

LEMMA LookupKeepsApart ==
    ASSUME Safe, Readers, NEW s \in Slots, Lookup(s)
    PROVE  Readers'
<1>1. PICK readers : readers = ResolveRecipients(call[s].event, call[s].actor)
  OBVIOUS
<1>2. /\ call \in [Slots -> Call] /\ call[s] \in Call /\ due \in Seq(Due) /\ notices \in Seq(Row)
      /\ call[s].pc = "lookup" /\ notices' = notices
  BY CallStates DEF Lookup
<1> DEFINE c == Candidates(call[s].event)
           to == {r.to : r \in c[1] \cup c[2]}
<1>3. /\ readers \in SUBSET Reader /\ Apart(readers) /\ c[1] \cup c[2] \in SUBSET Reader
      /\ \A r \in readers : r.to \in to /\ r.to # call[s].actor
  <2>1. readers \in SUBSET Reader /\ Apart(readers) /\ c[1] \cup c[2] \in SUBSET Reader
    BY <1>1, <1>2, RecipientTypes, RecipientsApart DEF Safe, Call
  <2>2. \A r \in readers : r \in c[1] \cup c[2] /\ r.to # call[s].actor
    BY <1>1 DEF ResolveRecipients
  <2> QED BY <2>1, <2>2
<1>4. /\ due' = [due EXCEPT ![call[s].n].readers = to]
      /\ \E g \in NextReader(call[s], readers) : call' = [call EXCEPT ![s] = g]
  BY <1>1 DEF Lookup, Go
<1>5. call[s].n \in 1..Len(due)
  BY <1>2 DEF Readers, ReadersOf, CallsApart, UnderWay, Ready
<1>6. /\ due' \in Seq(Due) /\ Len(due') = Len(due)
      /\ \A i \in 1..Len(due) : i # call[s].n => due'[i] = due[i]
      /\ due'[call[s].n].readers = to /\ due'[call[s].n].actor = due[call[s].n].actor
  <2>1. to \in SUBSET Users
    BY <1>3 DEF Reader
  <2>2. due \in [1..Len(due) -> Due] /\ Len(due) \in Nat
    BY <1>2, LenProperties
  <2> HIDE DEF to
  <2>3. due' \in [1..Len(due) -> Due]
    BY <1>4, <2>1, <2>2 DEF Due
  <2>4. due' \in Seq(Due) /\ Len(due') = Len(due)
    BY <2>2, <2>3, SeqDef, LenProperties
  <2>5. due[call[s].n] \in Due
    BY <1>5, <2>2
  <2>6. due'[call[s].n] = [due[call[s].n] EXCEPT !.readers = to]
    BY <1>4, <1>5, <2>2
  <2>7. due'[call[s].n].readers = to /\ due'[call[s].n].actor = due[call[s].n].actor
    BY <2>5, <2>6 DEF Due
  <2> QED BY <1>4, <2>2, <2>4, <2>7
<1>7. PICK g \in NextReader(call[s], readers) : call' = [call EXCEPT ![s] = g]
  BY <1>4
<1> HIDE DEF c, to
<1>8. ReadersOf([call EXCEPT ![s] = g], due', notices)
  BY <1>2, <1>3, <1>6, LearnsReaders DEF Readers
<1> QED BY <1>2, <1>7, <1>8 DEF Readers

LEMMA TurnKeepsApart ==
    ASSUME Safe, Readers, NEW s \in Slots, Enqueue(s) \/ CallFails(s)
    PROVE  Readers'
<1>1. /\ call[s].pc # "free" /\ notices' = notices /\ due' = due
      /\ \E g \in NextReader(call[s], call[s].left) : call' = [call EXCEPT ![s] = g]
  BY DEF Enqueue, CallFails, Go
<1>2. PICK g \in NextReader(call[s], call[s].left) : call' = [call EXCEPT ![s] = g]
  BY <1>1
<1>3. ReadersOf([call EXCEPT ![s] = g], due, notices)
  BY <1>1, CallStates, TurnsToNext DEF Readers
<1> QED BY <1>1, <1>2, <1>3 DEF Readers

LEMMA BellKeepsApart ==
    ASSUME Safe, Readers, NEW s \in Slots, Bell(s)
    PROVE  Readers'
<1> DEFINE h == call[s]
           g == [h EXCEPT !.pc = "mail row"]
           x == [to |-> h.at.to, event |-> h.event, channel |-> "IN_APP", status |-> "SENT", call |-> h.n]
<1>1. /\ h \in Call /\ h.at \in Reader /\ h.pc = "bell" /\ call \in [Slots -> Call] /\ notices \in Seq(Row)
  BY CallStates DEF Bell
<1>2. call' = [call EXCEPT ![s] = g] /\ notices' = Append(notices, x) /\ due' = due
  BY DEF Bell, AddRow, Go
<1>3. /\ g \in Call /\ g.pc = "mail row" /\ g.n = h.n /\ g.event = h.event /\ g.at = h.at /\ g.left = h.left
  BY <1>1 DEF Call, CallPC
<1>4. /\ x \in Row /\ x.to = h.at.to /\ x.event = h.event /\ x.channel = "IN_APP" /\ x.call = h.n
  <2>1. h.at.to \in Users
    BY <1>1 DEF Reader
  <2> QED BY <1>1, <2>1 DEF Row, Call, Channel, Status
<1> HIDE DEF g, x
<1>5. ReadersOf([call EXCEPT ![s] = g], due, Append(notices, x))
  BY <1>1, <1>3, <1>4, RingsBell DEF Readers
<1> QED BY <1>2, <1>5 DEF Readers

LEMMA MailRowKeepsApart ==
    ASSUME Safe, Readers, NEW s \in Slots, MailRow(s)
    PROVE  Readers'
<1> DEFINE h == call[s]
           k == Len(notices) + 1
           g == [h EXCEPT !.pc = "enqueue", !.row = k]
           x == [to |-> h.at.to, event |-> h.event, channel |-> "EMAIL", status |-> "PENDING", call |-> h.n]
<1>1. /\ h \in Call /\ h.at \in Reader /\ h.pc = "mail row" /\ call \in [Slots -> Call] /\ notices \in Seq(Row)
  BY CallStates DEF MailRow
<1>2. call' = [call EXCEPT ![s] = g] /\ notices' = Append(notices, x) /\ due' = due
  BY DEF MailRow, AddRow, Go
<1>3. k \in Nat
  <2>1. Len(notices) \in Nat
    BY <1>1, LenProperties
  <2> QED BY <2>1
<1> HIDE DEF k
<1>4. /\ g \in Call /\ g.pc = "enqueue" /\ g.n = h.n /\ g.event = h.event /\ g.left = h.left
  BY <1>1, <1>3 DEF Call, CallPC
<1>5. /\ x \in Row /\ x.to = h.at.to /\ x.event = h.event /\ x.channel = "EMAIL" /\ x.call = h.n
  <2>1. h.at.to \in Users
    BY <1>1 DEF Reader
  <2> QED BY <1>1, <2>1 DEF Row, Call, Channel, Status
<1> HIDE DEF g, x
<1>6. ReadersOf([call EXCEPT ![s] = g], due, Append(notices, x))
  BY <1>1, <1>4, <1>5, WritesMail DEF Readers
<1> QED BY <1>2, <1>6 DEF Readers

\* The worker changes at most the status of a row.
LEMMA WorkerKeepsApart ==
    ASSUME Safe, Safe', Readers, UNCHANGED <<call, due>>,
           notices' = notices \/ Record
    PROVE  Readers'
<1>1. notices \in Seq(Row) /\ notices' \in Seq(Row)
  BY DEF Safe, TableTypes
<1>2. CASE notices' = notices
  BY <1>2 DEF Readers
<1>3. CASE Record
  <2>1. PICK k : k = worker.job.row
    OBVIOUS
  <2>2. PICK status : status = worker.pc
    OBVIOUS
  <2>3. notices' = [notices EXCEPT ![k].status = status]
    BY <1>3, <2>1, <2>2 DEF Record
  <2>4. \A n \in DOMAIN notices : notices[n] \in Row
    BY <1>1, LenProperties
  <2>5. Alike(notices', notices)
    BY <2>3, <2>4 DEF Alike, Row
  <2> QED BY <1>1, <2>5, StatusChanges DEF Readers
<1> QED BY <1>2, <1>3

LEMMA CrashKeepsApart ==
    ASSUME Safe, Readers, Crash
    PROVE  Readers'
<1>1. call' = [s \in Slots |-> Free] /\ notices' = notices /\ due' = due
  BY DEF Crash
<1>2. \A s \in Slots : call'[s].pc = "free"
  BY <1>1, FreeCall
<1>3. CallsApart(call', due, notices)
  BY <1>2 DEF CallsApart, UnderWay
<1> QED BY <1>1, <1>3 DEF Readers, ReadersOf

LEMMA DeskKeepsApart ==
    ASSUME Safe, Readers, NEW s \in Slots, DeskStep(s)
    PROVE  Readers'
<1>1. scene.events \subseteq Event
  BY EventTypes DEF Safe, CallTypes
<1>2. "ticket.assigned" \in Event /\ "ticket.sla_warning" \in Event
  BY DEF Event
<1>3. ASSUME NEW event \in scene.events, NEW actor \in Users \cup {Nobody}, TicketEvent(s, event, actor)
      PROVE  Readers'
  <2>1. BeginEmit(s, event, actor) /\ notices' = notices
    BY <1>3 DEF TicketEvent, OthersUnchanged
  <2> QED BY <1>1, <2>1, EmitKeepsApart
<1>4. ASSUME NEW u \in Users, NEW actor \in Users, AssignTicket(s, u, actor)
      PROVE  Readers'
  <2>1. BeginEmit(s, "ticket.assigned", actor) /\ notices' = notices
    BY <1>4 DEF AssignTicket, OthersUnchanged
  <2> QED BY <1>2, <2>1, EmitKeepsApart
<1>5. CASE WarnOfSla(s)
  <2>1. BeginEmit(s, "ticket.sla_warning", Nobody) /\ notices' = notices
    BY <1>5 DEF WarnOfSla, OthersUnchanged
  <2> QED BY <1>2, <2>1, EmitKeepsApart
<1>6. ASSUME NEW event \in scene.events, NEW people \in SUBSET Users, AdHocEvent(s, event, people)
      PROVE  Readers'
  <2>1. BeginAdHoc(s, event, AdHoc(people)) /\ notices' = notices
    BY <1>6 DEF AdHocEvent, OthersUnchanged
  <2>2. AdHoc(people) \in SUBSET Reader
    BY DEF AdHoc, Reader
  <2> QED BY <1>1, <2>1, <2>2, AdHocApart, AdHocKeepsApart
<1> QED BY <1>3, <1>4, <1>5, <1>6 DEF DeskStep

LEMMA MailKeepsApart ==
    ASSUME Safe, Safe', Readers, MailStep \/ MailFails
    PROVE  Readers'
<1>1. ASSUME NEW s \in Slots, CallGoesOn(s) \/ CallFails(s)
      PROVE  Readers'
  BY <1>1, LookupKeepsApart, BellKeepsApart, MailRowKeepsApart, TurnKeepsApart DEF CallGoesOn
<1>2. CASE WorkerGoesOn \/ JobFails
  <2>1. UNCHANGED <<call, due>> /\ (notices' = notices \/ Record)
    BY <1>2 DEF WorkerGoesOn, TakeJob, ReadAndBuild, Send, Record, JobFails
  <2> QED BY <2>1, WorkerKeepsApart
<1> QED BY <1>1, <1>2 DEF MailStep, MailFails

LEMMA ReminderKeepsApart ==
    ASSUME Safe, Readers, CheckStep \/ HoldStep
    PROVE  Readers'
<1>1. JobSlot \in Slots /\ "device.reminder.cycle" \in Event /\ CopyEvent \in Event
  BY ReminderAssumption DEF Event, CopyEvent
<1>2. ASSUME UNCHANGED mailVars
      PROVE  Readers'
  BY <1>2 DEF mailVars, Readers
<1>3. ASSUME NEW e \in Employees, SendReminder(e)
      PROVE  Readers'
  <2>1. BeginAdHoc(JobSlot, "device.reminder.cycle", AdHoc({e})) /\ notices' = notices
    BY <1>3 DEF SendReminder
  <2>2. AdHoc({e}) \in SUBSET Reader
    BY DEF AdHoc, Reader, Employees
  <2> QED BY <1>1, <2>1, <2>2, AdHocApart, AdHocKeepsApart
<1>4. ASSUME NEW e \in Employees, SendCopies(e)
      PROVE  Readers'
  <2>1. BeginAdHoc(JobSlot, CopyEvent, Copies(e)) /\ notices' = notices
    BY <1>4 DEF SendCopies, CopyEvent
  <2>2. Copies(e) \in SUBSET Reader
    <3>1. WithRole("IT_ADMIN", "admin") \in SUBSET Reader /\ WithRole("MANAGER", "manager") \in SUBSET Reader
      BY DEF WithRole, Reader
    <3> QED BY <3>1 DEF Copies
  <2> QED BY <1>1, <2>1, <2>2, AdHocKeepsApart
<1>5. CASE CheckStep
  BY <1>2, <1>3, <1>4, <1>5 DEF CheckStep, StartCheck, EndCheck, CountDevices, ResolveAll,
                                SkipRecent, RecordReminder
<1>6. CASE HoldStep
  BY <1>2, <1>6 DEF HoldStep, Hand, GiveBack, ReturnResolves
<1> QED BY <1>5, <1>6

LEMMA ReadersStep ==
    ASSUME Safe, Safe', Readers, [Next]_vars
    PROVE  Readers'
<1>1. CASE DeskStep(NextSlot)
  BY <1>1, SlotIsSlot, DeskKeepsApart
<1>2. CASE MailStep \/ MailFails
  BY <1>2, MailKeepsApart
<1>3. CASE CheckStep \/ HoldStep
  BY <1>3, ReminderKeepsApart
<1>4. CASE CrashWithCheck
  BY <1>4, CrashKeepsApart DEF CrashWithCheck
<1>5. CASE CheckFails \/ UNCHANGED vars
  BY <1>5 DEF vars, mailVars, Readers, CheckFails
<1> QED BY <1>1, <1>2, <1>3, <1>4, <1>5 DEF Next

LEMMA ReadersInit ==
    ASSUME Init
    PROVE  Readers
<1>1. notices = <<>> /\ due = <<>> /\ call = [s \in Slots |-> Free]
  BY DEF Init, MailInit
<1>2. \A s \in Slots : call[s].pc = "free"
  BY <1>1, FreeCall
<1>3. CallsApart(call, due, notices)
  BY <1>2 DEF CallsApart, UnderWay
<1> QED BY <1>1, <1>3 DEF Readers, ReadersOf, RowsOfCalls, MailsAreDue

-----------------------------------------------------------------------------

\* The mails of a call go to those it may tell, never to the one it names as the
\* actor, to each after a line in the bell and once (but for copies of a
\* reminder): emit with resolveRecipients, and the loops around sendAdHoc
\* (notifications.service.ts), whatever fails on the way.
THEOREM ReadersServed == Spec => []EachReaderOnce
<1>1. Readers => EachReaderOnce
  BY DEF Readers, ReadersOf, MailsAreDue, IsDue, MayTell, OneOfItsKind, EachReaderOnce, MailRows, NoticeIds, CopyEvent
<1>2. Init => Safe /\ Readers
  BY SafeInit, ReadersInit
<1>3. Safe /\ Readers /\ [Next]_vars => (Safe /\ Readers)'
  BY SafeStep, ReadersStep
<1> QED BY <1>1, <1>2, <1>3, PTL DEF Spec

-----------------------------------------------------------------------------
(* Reminders.                                                              *)

\* The reminders of one employee, numbered on and apart.
Spaced(rs) ==
    \A i \in DOMAIN rs : /\ rs[i].cycle = i
                         /\ i > 1 => rs[i].day >= rs[i - 1].day + Cadence

Reminded ==
    /\ today \in Nat
    /\ reminders \in [Employees -> Seq(Reminder)]
    /\ \A e \in Employees : Spaced(reminders[e])

\* One more, when the last is old enough.
LEMMA OneReminderMore ==
    ASSUME NEW rs \in Seq(Reminder), Spaced(rs), NEW k, k = Len(rs),
           NEW r \in Reminder, r.cycle = k + 1, rs # <<>> => rs[k].day + Cadence <= r.day
    PROVE  Append(rs, r) \in Seq(Reminder) /\ Spaced(Append(rs, r))
<1>1. /\ k \in Nat /\ DOMAIN rs = 1..k /\ DOMAIN Append(rs, r) = 1..(k + 1)
      /\ Append(rs, r) \in Seq(Reminder) /\ Append(rs, r)[k + 1] = r
      /\ \A i \in 1..k : Append(rs, r)[i] = rs[i]
  BY AppendProperties, LenProperties
<1>2. \A i \in 1..k : Append(rs, r)[i].cycle = i /\ (i > 1 => Append(rs, r)[i].day >= Append(rs, r)[i - 1].day + Cadence)
  <2>1. \A i \in 1..k : i > 1 => i - 1 \in 1..k
    BY <1>1
  <2> QED BY <1>1, <2>1 DEF Spaced
<1>3. k + 1 > 1 => r.day >= Append(rs, r)[k].day + Cadence
  <2>1. k + 1 > 1 => k \in 1..k /\ rs # <<>>
    BY <1>1
  <2>2. k + 1 > 1 => rs[k] \in Reminder /\ Append(rs, r)[k] = rs[k]
    BY <1>1, <2>1
  <2>3. k + 1 > 1 => rs[k].day + Cadence <= r.day /\ rs[k].day \in Nat /\ r.day \in Nat
    BY <2>1, <2>2 DEF Reminder
  <2>4. Cadence \in Nat
    BY ReminderAssumption
  <2> QED BY <2>2, <2>3, <2>4
<1>4. \A i \in 1..(k + 1) : i \in 1..k \/ (i = k + 1 /\ i - 1 = k)
  BY <1>1
<1> QED BY <1>1, <1>2, <1>3, <1>4 DEF Spaced

\* All are resolved.
LEMMA ResolvedReminders ==
    ASSUME Reminded, NEW e \in Employees
    PROVE  Resolved(e) \in Seq(Reminder) /\ Spaced(Resolved(e))
<1>1. PICK rs : rs = reminders[e]
  OBVIOUS
<1>2. rs \in Seq(Reminder) /\ Spaced(rs)
  BY <1>1 DEF Reminded
<1>3. /\ DOMAIN rs = 1..Len(rs) /\ Len(rs) \in Nat /\ \A i \in 1..Len(rs) : rs[i] \in Reminder
  BY <1>2, LenProperties
<1>4. Resolved(e) = [i \in 1..Len(rs) |-> [rs[i] EXCEPT !.resolved = TRUE]]
  BY <1>1, <1>3 DEF Resolved
<1>5. \A i \in 1..Len(rs) : /\ [rs[i] EXCEPT !.resolved = TRUE] \in Reminder
                            /\ [rs[i] EXCEPT !.resolved = TRUE].cycle = rs[i].cycle
                            /\ [rs[i] EXCEPT !.resolved = TRUE].day = rs[i].day
  BY <1>3 DEF Reminder
<1>6. Resolved(e) \in [1..Len(rs) -> Reminder]
  BY <1>4, <1>5
<1>7. Resolved(e) \in Seq(Reminder)
  BY <1>3, <1>6, SeqDef
<1>8. \A i \in 1..Len(rs) : i > 1 => i - 1 \in 1..Len(rs)
  BY <1>3
<1>9. /\ DOMAIN Resolved(e) = 1..Len(rs)
      /\ \A i \in 1..Len(rs) : Resolved(e)[i].cycle = rs[i].cycle /\ Resolved(e)[i].day = rs[i].day
  BY <1>4, <1>5
<1>10. Spaced(Resolved(e))
  BY <1>2, <1>3, <1>8, <1>9 DEF Spaced
<1> QED BY <1>7, <1>10

LEMMA OneReminded ==
    ASSUME Reminded, NEW e \in Employees, NEW rs \in Seq(Reminder), Spaced(rs),
           reminders' = [reminders EXCEPT ![e] = rs], today' = today
    PROVE  Reminded'
<1>1. \A f \in Employees : reminders'[f] = IF f = e THEN rs ELSE reminders[f]
  BY DEF Reminded
<1> QED BY <1>1 DEF Reminded

LEMMA CheckKeepsReminded ==
    ASSUME Reminded, CheckStep \/ HoldStep
    PROVE  Reminded'
<1>1. CASE UNCHANGED <<today, reminders>>
  BY <1>1 DEF Reminded
<1>2. CASE StartCheck
  <2>1. today' = today + 1 /\ reminders' = reminders /\ today \in Nat
    BY <1>2 DEF StartCheck, Reminded
  <2>2. today' \in Nat
    BY <2>1
  <2> QED BY <2>1, <2>2 DEF Reminded
<1>3. ASSUME NEW e \in Employees, ResolveAll(e) \/ ReturnResolves(e)
      PROVE  Reminded'
  <2>1. CASE reminders' = [reminders EXCEPT ![e] = Resolved(e)] /\ today' = today
    BY <2>1, ResolvedReminders, OneReminded
  <2> QED BY <1>1, <1>3, <2>1 DEF ResolveAll, ReturnResolves
<1>4. ASSUME NEW e \in Employees, RecordReminder(e)
      PROVE  Reminded'
  <2>1. PICK rs : rs = reminders[e]
    OBVIOUS
  <2>2. PICK k : k = Len(rs)
    OBVIOUS
  <2> DEFINE r == [cycle |-> IF rs = <<>> THEN 1 ELSE rs[k].cycle + 1, day |-> today, resolved |-> FALSE]
  <2>3. /\ rs \in Seq(Reminder) /\ Spaced(rs) /\ k \in Nat /\ DOMAIN rs = 1..k /\ today \in Nat
        /\ rs = <<>> => k = 0
    BY <2>1, <2>2, LenProperties DEF Reminded
  <2>4. rs # <<>> => k \in DOMAIN rs
    BY <2>2, <2>3, EmptySeq
  <2>5. r.cycle = k + 1
    BY <2>3, <2>4 DEF Spaced
  <2>6. r \in Reminder /\ r.day = today
    <3>1. k + 1 \in Nat
      BY <2>3
    <3> QED BY <2>3, <2>5, <3>1 DEF Reminder
  <2>7. rs # <<>> => rs[k].day + Cadence <= today
    BY <1>4, <2>1, <2>2 DEF RecordReminder, MayBeDue, Last
  <2>8. reminders' = [reminders EXCEPT ![e] = Append(rs, r)] /\ today' = today
    BY <1>4, <2>1, <2>2 DEF RecordReminder, Last
  <2> HIDE DEF r
  <2>9. Append(rs, r) \in Seq(Reminder) /\ Spaced(Append(rs, r))
    BY <2>2, <2>3, <2>5, <2>6, <2>7, OneReminderMore
  <2> QED BY <2>8, <2>9, OneReminded
<1>5. CASE CheckStep
  BY <1>1, <1>2, <1>3, <1>4, <1>5 DEF CheckStep, EndCheck, CountDevices, SkipRecent, SendReminder, SendCopies
<1>6. CASE HoldStep
  BY <1>1, <1>3, <1>6 DEF HoldStep, Hand, GiveBack
<1> QED BY <1>5, <1>6

LEMMA RemindedInit ==
    ASSUME Init
    PROVE  Reminded
<1>1. Spaced(Past) /\ Past \in Seq(Reminder)
  BY ReminderAssumption DEF Spaced
<1>2. today = 0 /\ reminders = [e \in Employees |-> Past]
  BY DEF Init, ReminderInit
<1> QED BY <1>1, <1>2 DEF Reminded

LEMMA RemindedStep ==
    ASSUME Reminded, [Next]_vars
    PROVE  Reminded'
<1>1. CASE UNCHANGED <<today, reminders>>
  BY <1>1 DEF Reminded
<1>2. CASE CheckStep \/ HoldStep
  BY <1>2, CheckKeepsReminded
<1>3. DeskStep(NextSlot) => UNCHANGED <<today, reminders>>
  BY DEF DeskStep, TicketEvent, AssignTicket, WarnOfSla, AdHocEvent, OthersUnchanged, reminderVars
<1>4. CrashWithCheck \/ CheckFails => UNCHANGED <<today, reminders>>
  BY DEF CrashWithCheck, CheckFails
<1> QED BY <1>1, <1>2, <1>3, <1>4 DEF Next, vars, reminderVars

\* The reminders of an employee are numbered on and Cadence days apart, through
\* returns, resolutions and a check that runs twice (device-reminder.processor.ts).
THEOREM RemindersApart == Spec => []RemindersSpaced
<1>1. Reminded => RemindersSpaced
  BY DEF Reminded, Spaced, RemindersSpaced
<1> QED BY <1>1, RemindedInit, RemindedStep, PTL DEF Spec

-----------------------------------------------------------------------------
(* The check of the device limit.                                          *)

\* The check is about to decide about e, on a count taken before.
Deciding(e) == check.pc = "decide" /\ check.who = e

Check == [pc: {"idle", "next", "decide", "remind", "copy"}, todo: SUBSET Employees,
          who: Employees \cup {Nobody}, count: Nat, stalls: Nat]

\* An employee who has begun no return during the check has as many devices as
\* were counted, or more; and when the check is done with him, no reminder is
\* open unless he is over the limit.
Settling ==
    /\ holds \in [Employees -> Nat] /\ check \in Check
    /\ check.pc # "idle" =>
         \A e \in Employees \ returned :
            /\ Deciding(e) => check.count <= holds[e]
            /\ e \notin check.todo /\ ~Deciding(e) /\ holds[e] <= Limit => ~IsOpen(e)

\* Resolving the reminders of an employee leaves none of them open.
LEMMA ResolvingCloses ==
    ASSUME Reminded, NEW e \in Employees, reminders' = [reminders EXCEPT ![e] = Resolved(e)]
    PROVE  ~IsOpen(e)' /\ \A f \in Employees : IsOpen(f)' => IsOpen(f)
<1>1. PICK rs : rs = reminders[e]
  OBVIOUS
<1>2. rs \in Seq(Reminder) /\ DOMAIN rs = 1..Len(rs) /\ \A i \in 1..Len(rs) : rs[i] \in Reminder
  BY <1>1, LenProperties DEF Reminded
<1>3. Resolved(e) = [i \in 1..Len(rs) |-> [rs[i] EXCEPT !.resolved = TRUE]]
  BY <1>1, <1>2 DEF Resolved
<1>4. \A i \in 1..Len(rs) : [rs[i] EXCEPT !.resolved = TRUE].resolved = TRUE
  BY <1>2 DEF Reminder
<1>5. DOMAIN Resolved(e) = 1..Len(rs) /\ \A i \in 1..Len(rs) : Resolved(e)[i].resolved = TRUE
  BY <1>3, <1>4
<1>6. reminders'[e] = Resolved(e) /\ \A f \in Employees : f # e => reminders'[f] = reminders[f]
  BY DEF Reminded
<1>7. ~IsOpen(e)'
  BY <1>5, <1>6 DEF IsOpen
<1>8. \A f \in Employees : f # e /\ IsOpen(f)' => IsOpen(f)
  BY <1>6 DEF IsOpen
<1> QED BY <1>7, <1>8

LEMMA OneOpened ==
    ASSUME Reminded, NEW e \in Employees, NEW rs, reminders' = [reminders EXCEPT ![e] = rs]
    PROVE  \A f \in Employees : f # e => (IsOpen(f)' <=> IsOpen(f))
<1>1. \A f \in Employees : f # e => reminders'[f] = reminders[f]
  BY DEF Reminded
<1> QED BY <1>1 DEF IsOpen

\* Handing a device over, giving one back, and the end of a return.
LEMMA HoldsSettle ==
    ASSUME Reminded, Settling, HoldStep
    PROVE  Settling'
<1>1. holds \in [Employees -> Nat] /\ check' = check /\ Limit \in Nat
  BY ReminderAssumption DEF Settling, HoldStep, Hand, GiveBack, ReturnResolves
<1>2. \A e : Deciding(e)' = Deciding(e)
  BY <1>1 DEF Deciding
<1>3. ASSUME NEW e \in Employees, Hand(e)
      PROVE  Settling'
  <2>1. holds' = [holds EXCEPT ![e] = holds[e] + 1] /\ reminders' = reminders /\ returned' = returned
    BY <1>3 DEF Hand
  <2>2. holds' \in [Employees -> Nat] /\ \A f \in Employees : holds[f] <= holds'[f]
    BY <1>1, <2>1
  <2>3. \A f \in Employees : IsOpen(f)' = IsOpen(f)
    BY <2>1 DEF IsOpen
  <2>4. \A f \in Employees : /\ holds'[f] <= Limit => holds[f] <= Limit
                             /\ check.count <= holds[f] => check.count <= holds'[f]
    <3>1. check.count \in Nat
      BY DEF Settling, Check
    <3> QED BY <1>1, <2>2, <3>1
  <2>5. check' \in Check
    BY <1>1 DEF Settling
  <2> QED BY <1>1, <1>2, <2>1, <2>2, <2>3, <2>4, <2>5 DEF Settling
<1>4. ASSUME NEW e \in Employees, GiveBack(e)
      PROVE  Settling'
  <2>1. /\ holds' = [holds EXCEPT ![e] = holds[e] - 1] /\ holds[e] > 0
        /\ reminders' = reminders /\ returned' = returned \cup {e}
    BY <1>4 DEF GiveBack
  <2>2. holds' \in [Employees -> Nat] /\ \A f \in Employees : f # e => holds'[f] = holds[f]
    BY <1>1, <2>1
  <2>3. \A f \in Employees : IsOpen(f)' = IsOpen(f)
    BY <2>1 DEF IsOpen
  <2> QED BY <1>1, <1>2, <2>1, <2>2, <2>3 DEF Settling
<1>5. ASSUME NEW e \in Employees, ReturnResolves(e)
      PROVE  Settling'
  <2>1. holds' = holds /\ returned' = returned
        /\ reminders' \in {reminders, [reminders EXCEPT ![e] = Resolved(e)]}
    BY <1>5 DEF ReturnResolves
  <2>2. \A f \in Employees : IsOpen(f)' => IsOpen(f)
    <3>1. CASE reminders' = reminders
      BY <3>1 DEF IsOpen
    <3> QED BY <2>1, <3>1, ResolvingCloses
  <2> QED BY <1>1, <1>2, <2>1, <2>2 DEF Settling
<1> QED BY <1>3, <1>4, <1>5 DEF HoldStep


\* A step of the check, one field at a time.
LEMMA CheckFields ==
    ASSUME NEW c \in Check, NEW e \in Employees, NEW n \in Nat, NEW pc \in {"next", "remind", "copy"}
    PROVE  /\ NoCheck \in Check /\ NoCheck.pc = "idle"
           /\ [NoCheck EXCEPT !.pc = "next", !.todo = Employees] \in Check
           /\ [NoCheck EXCEPT !.pc = "next", !.todo = Employees].pc = "next"
           /\ [NoCheck EXCEPT !.pc = "next", !.todo = Employees].todo = Employees
           /\ [c EXCEPT !.pc = pc] \in Check /\ [c EXCEPT !.pc = pc].pc = pc
           /\ [c EXCEPT !.pc = pc].todo = c.todo
           /\ LET d == [c EXCEPT !.pc = "decide", !.todo = c.todo \ {e}, !.who = e, !.count = n] IN
                d \in Check /\ d.pc = "decide" /\ d.todo = c.todo \ {e} /\ d.who = e /\ d.count = n
<1>1. NoCheck \in Check /\ NoCheck.pc = "idle"
  BY DEF NoCheck, Check
<1>2. /\ [NoCheck EXCEPT !.pc = "next", !.todo = Employees] \in Check
      /\ [NoCheck EXCEPT !.pc = "next", !.todo = Employees].pc = "next"
      /\ [NoCheck EXCEPT !.pc = "next", !.todo = Employees].todo = Employees
  BY DEF NoCheck, Check
<1>3. [c EXCEPT !.pc = pc] \in Check /\ [c EXCEPT !.pc = pc].pc = pc /\ [c EXCEPT !.pc = pc].todo = c.todo
  BY DEF Check
<1>4. LET d == [c EXCEPT !.pc = "decide", !.todo = c.todo \ {e}, !.who = e, !.count = n] IN
        d \in Check /\ d.pc = "decide" /\ d.todo = c.todo \ {e} /\ d.who = e /\ d.count = n
  BY DEF Check
<1> QED BY <1>1, <1>2, <1>3, <1>4

\* The check is done with whom it has decided about, and has opened a reminder
\* at most for one over the limit.
LEMMA Decided ==
    ASSUME Reminded, Settling, NEW e \in Employees, check.pc = "decide", check.who = e,
           NEW pc \in {"next", "remind"}, check' = [check EXCEPT !.pc = pc],
           UNCHANGED <<holds, returned>>,
           \A f \in Employees : f # e => (IsOpen(f)' => IsOpen(f)),
           e \notin returned /\ holds[e] <= Limit => ~IsOpen(e)'
    PROVE  Settling'
<1>1. check' \in Check /\ check'.pc = pc /\ check'.todo = check.todo
  BY DEF Settling, Check
<1>2. \A f \in Employees : ~Deciding(f)' /\ (f # e => ~Deciding(f))
  BY <1>1 DEF Deciding
<1> QED BY <1>1, <1>2 DEF Settling

LEMMA ChecksSettle ==
    ASSUME Reminded, Settling, CheckStep
    PROVE  Settling'
<1>1. holds \in [Employees -> Nat] /\ check \in Check /\ Limit \in Nat
  BY ReminderAssumption DEF Settling
<1>2. CASE StartCheck
  <2>1. check' = [NoCheck EXCEPT !.pc = "next", !.todo = Employees] /\ holds' = holds
    BY <1>2 DEF StartCheck
  <2>2. check' \in Check /\ check'.pc = "next" /\ check'.todo = Employees
    BY <2>1, CheckFields, <1>1 DEF NoCheck, Check
  <2>3. \A e \in Employees : ~Deciding(e)' /\ e \in check'.todo
    BY <2>2 DEF Deciding
  <2> QED BY <1>1, <2>1, <2>2, <2>3 DEF Settling
<1>3. CASE EndCheck
  <2>1. check' = NoCheck /\ holds' = holds /\ NoCheck \in Check /\ NoCheck.pc = "idle"
    BY <1>3 DEF EndCheck, NoCheck, Check
  <2> QED BY <1>1, <2>1 DEF Settling
<1>4. ASSUME NEW e \in Employees, CountDevices(e)
      PROVE  Settling'
  <2>1. /\ check' = [check EXCEPT !.pc = "decide", !.todo = check.todo \ {e}, !.who = e, !.count = holds[e]]
        /\ UNCHANGED <<holds, reminders, returned>> /\ check.pc = "next" /\ holds[e] \in Nat
    BY <1>1, <1>4 DEF CountDevices
  <2>2. /\ check' \in Check /\ check'.pc = "decide" /\ check'.todo = check.todo \ {e}
        /\ check'.who = e /\ check'.count = holds[e]
    BY <1>1, <2>1 DEF Check
  <2>3. \A f \in Employees : IsOpen(f)' = IsOpen(f) /\ ~Deciding(f) /\ (Deciding(f)' <=> f = e)
    BY <2>1, <2>2 DEF IsOpen, Deciding
  <2> QED BY <1>1, <2>1, <2>2, <2>3 DEF Settling
<1>5. ASSUME NEW e \in Employees, ResolveAll(e)
      PROVE  Settling'
  <2>1. /\ check.pc = "decide" /\ check.who = e /\ check' = [check EXCEPT !.pc = "next"]
        /\ UNCHANGED <<holds, returned>> /\ reminders' = [reminders EXCEPT ![e] = Resolved(e)]
    BY <1>5 DEF ResolveAll
  <2> QED BY <2>1, ResolvingCloses, Decided
<1>6. ASSUME NEW e \in Employees, SkipRecent(e) \/ RecordReminder(e)
      PROVE  Settling'
  <2>1. /\ check.pc = "decide" /\ check.who = e /\ check.count > Limit /\ UNCHANGED <<holds, returned>>
        /\ check' \in {[check EXCEPT !.pc = "next"], [check EXCEPT !.pc = "remind"]}
        /\ reminders' = reminders \/ \E rs : reminders' = [reminders EXCEPT ![e] = rs]
    BY <1>6 DEF SkipRecent, RecordReminder
  <2>2. \A f \in Employees : f # e => (IsOpen(f)' => IsOpen(f))
    <3>1. CASE reminders' = reminders
      BY <3>1 DEF IsOpen
    <3> QED BY <2>1, <3>1, OneOpened
  <2>3. e \notin returned => holds[e] > Limit
    <3>1. e \notin returned => check.count <= holds[e]
      BY <2>1 DEF Settling, Deciding
    <3>2. check.count \in Nat /\ holds[e] \in Nat
      BY <1>1 DEF Check
    <3> QED BY <1>1, <2>1, <3>1, <3>2
  <2>4. ~(e \notin returned /\ holds[e] <= Limit)
    BY <1>1, <2>3
  <2> QED BY <2>1, <2>2, <2>4, Decided
<1>7. ASSUME NEW e \in Employees, SendReminder(e) \/ SendCopies(e)
      PROVE  Settling'
  <2>1. /\ check.pc \in {"remind", "copy"} /\ UNCHANGED <<holds, reminders, returned>>
        /\ check' \in {[check EXCEPT !.pc = "copy"], [check EXCEPT !.pc = "next"]}
    BY <1>7 DEF SendReminder, SendCopies
  <2>2. check' \in Check /\ check'.pc \in {"copy", "next"} /\ check'.todo = check.todo
    BY <1>1, <2>1 DEF Check
  <2>3. \A f \in Employees : IsOpen(f)' = IsOpen(f) /\ ~Deciding(f) /\ ~Deciding(f)'
    BY <2>1, <2>2 DEF IsOpen, Deciding
  <2> QED BY <1>1, <2>1, <2>2, <2>3 DEF Settling
<1> QED BY <1>2, <1>3, <1>4, <1>5, <1>6, <1>7 DEF CheckStep

\* A check that starts again looks at everybody again.
LEMMA CrashSettles ==
    ASSUME Settling, CrashWithCheck
    PROVE  Settling'
<1> DEFINE again == [NoCheck EXCEPT !.pc = "next", !.todo = Employees, !.stalls = check.stalls + 1]
<1>1. holds \in [Employees -> Nat] /\ check.stalls + 1 \in Nat
  BY DEF Settling, Check
<1>2. holds' = holds /\ (check' = NoCheck \/ check' = again)
  BY DEF CrashWithCheck
<1>3. NoCheck \in Check /\ NoCheck.pc = "idle"
  BY DEF NoCheck, Check
<1>4. again \in Check /\ again.pc = "next" /\ again.todo = Employees
  BY <1>1 DEF NoCheck, Check
<1> HIDE DEF again
<1>5. \A e \in Employees : check'.pc # "idle" => ~Deciding(e)' /\ e \in check'.todo
  BY <1>2, <1>3, <1>4 DEF Deciding
<1> QED BY <1>1, <1>2, <1>3, <1>4, <1>5 DEF Settling

\* A check that fails is over.
LEMMA FailureSettles ==
    ASSUME Settling, CheckFails
    PROVE  Settling'
<1>1. check' = NoCheck /\ holds' = holds /\ NoCheck \in Check /\ NoCheck.pc = "idle"
  BY DEF CheckFails, NoCheck, Check
<1> QED BY <1>1 DEF Settling

LEMMA SettlingStep ==
    ASSUME Reminded, Settling, [Next]_vars
    PROVE  Settling'
<1>1. CASE UNCHANGED reminderVars
  BY <1>1 DEF reminderVars, Settling, Deciding, IsOpen
<1>2. DeskStep(NextSlot) => UNCHANGED reminderVars
  BY DEF DeskStep, TicketEvent, AssignTicket, WarnOfSla, AdHocEvent, OthersUnchanged, reminderVars
<1> QED BY <1>1, <1>2, HoldsSettle, ChecksSettle, FailureSettles, CrashSettles DEF Next, vars

LEMMA SettlingInit == Init => Settling
<1> SUFFICES ASSUME Init PROVE Settling
  OBVIOUS
<1>1. holds = [e \in Employees |-> 0] /\ check = NoCheck
  BY DEF Init, ReminderInit
<1> QED BY <1>1 DEF Settling, NoCheck, Check

\* However a check ends, by itself, by a failing query or write, or by a stop of
\* the process, it has left no reminder open for an employee within the limit whom
\* it has dealt with, however devices came and went meanwhile and however often
\* the process stopped before (device-reminder.processor.ts); who began a return
\* during the check is left to the end of that return.
THEOREM CheckIsThorough == Spec => CheckSettles
<1> DEFINE A == check.pc # "idle" /\ check'.pc = "idle" =>
                  \A e \in Employees \ (returned \cup Unvisited) : holds[e] <= Limit => ~IsOpen(e)
<1>1. Settling => A
  BY DEF Settling, Unvisited, Deciding
<1>2. Reminded /\ Settling /\ [Next]_vars => [A]_vars
  BY <1>1
<1>3. Reminded /\ Settling /\ [Next]_vars => (Reminded /\ Settling)'
  BY RemindedStep, SettlingStep
<1>4. Init => Reminded /\ Settling
  BY RemindedInit, SettlingInit
<1> QED BY <1>2, <1>3, <1>4, PTL DEF Spec, CheckSettles

-----------------------------------------------------------------------------
(* Rows that nobody is left to deal with.                                  *)

Pending == {n \in MailRows : notices[n].status = "PENDING"}

\* Only the call that is about to put a row into the queue has one in hand.
Rowless ==
    /\ faults \in Nat
    /\ \A s \in Slots : call[s].pc # "enqueue" => call[s].row = 0

\* What a step may do to the rows that nobody deals with, if it is neither a
\* failure nor a stop of the process.
NoneStranded == Stranded' \subseteq Stranded

\* A row leaves the calls for the queue, the queue for the worker, and the
\* worker when it is no longer PENDING; a new one is in hand.
StaysAround ==
    \A n \in Pending' : \/ n \in Queued' \cup InHand'
                        \/ n \in Pending \ (Queued \cup InHand)

LEMMA AroundIsEnough ==
    ASSUME StaysAround
    PROVE  NoneStranded
  BY DEF StaysAround, NoneStranded, Stranded, Pending

LEMMA RowIds ==
    ASSUME Safe
    PROVE  /\ Len(notices) \in Nat /\ MailRows \subseteq 1..Len(notices) /\ 0 \notin Pending
           /\ IsFiniteSet(Stranded) /\ Cardinality(Stranded) \in Nat
<1>1. notices \in Seq(Row)
  BY DEF Safe, TableTypes
<1>2. Len(notices) \in Nat /\ DOMAIN notices = 1..Len(notices)
  BY <1>1, LenProperties
<1>3. MailRows \subseteq 1..Len(notices) /\ Stranded \subseteq 1..Len(notices)
  BY <1>2 DEF MailRows, NoticeIds, Stranded
<1>4. 0 \notin 1..Len(notices)
  BY <1>2
<1>5. IsFiniteSet(1..Len(notices))
  BY <1>2, FS_Interval
<1>6. IsFiniteSet(Stranded) /\ Cardinality(Stranded) \in Nat
  BY <1>3, <1>5, FS_Subset, FS_CardinalityType
<1> QED BY <1>2, <1>3, <1>4, <1>6 DEF Pending

-----------------------------------------------------------------------------
(* Calls.                                                                  *)

\* The rows in hand, before and after a step of the call in s.
LEMMA HandsMove ==
    ASSUME Safe, NEW s \in Slots, NEW g, Go(s, g)
    PROVE  /\ \A n : n \in InHand' <=> n = g.row \/ \E r \in Slots \ {s} : call[r].row = n
           /\ \A n : n \in InHand <=> n = call[s].row \/ \E r \in Slots \ {s} : call[r].row = n
<1>1. call \in [Slots -> Call] /\ call' = [call EXCEPT ![s] = g]
  BY DEF Safe, CallTypes, Go
<1>2. call'[s] = g /\ \A r \in Slots : r # s => call'[r] = call[r]
  BY <1>1
<1>3. \A n : n \in InHand' <=> n = g.row \/ \E r \in Slots \ {s} : call[r].row = n
  BY <1>2 DEF InHand
<1>4. \A n : n \in InHand <=> n = call[s].row \/ \E r \in Slots \ {s} : call[r].row = n
  BY DEF InHand
<1> QED BY <1>3, <1>4

LEMMA RowlessGoes ==
    ASSUME Safe, Rowless, NEW s \in Slots, NEW g, Go(s, g), g.pc # "enqueue" => g.row = 0, faults' \in Nat
    PROVE  Rowless'
<1>1. call \in [Slots -> Call] /\ call' = [call EXCEPT ![s] = g]
  BY DEF Safe, CallTypes, Go
<1>2. call'[s] = g /\ \A r \in Slots : r # s => call'[r] = call[r]
  BY <1>1
<1> QED BY <1>2 DEF Rowless

\* The next reader's row is not written yet.
LEMMA NextIsRowless ==
    ASSUME NEW h \in Call, NEW left, NEW g \in NextReader(h, left)
    PROVE  g.row = 0 /\ g.pc # "enqueue"
<1>1. CASE left = {}
  BY <1>1 DEF NextReader, Free
<1>2. CASE left # {}
  <2>1. PICK r \in left : g = [h EXCEPT !.pc = "bell", !.at = r, !.left = left \ {r}, !.row = 0]
    BY <1>2 DEF NextReader
  <2> QED BY <2>1 DEF Call
<1> QED BY <1>1, <1>2

\* A call that begins or goes on without a row.
Beginning(s) == call[s].pc # "enqueue" /\ \E g : Go(s, g) /\ g.row = 0 /\ g.pc # "enqueue"

LEMMA BeginningStrandsNone ==
    ASSUME Safe, Rowless, NEW s \in Slots, Beginning(s), UNCHANGED <<queue, worker, faults>>,
           Pending' \subseteq Pending
    PROVE  NoneStranded /\ Rowless'
<1>1. PICK g : Go(s, g) /\ g.row = 0 /\ g.pc # "enqueue"
  BY DEF Beginning
<1>2. Rowless'
  BY <1>1, RowlessGoes DEF Rowless
<1>3. call[s].row = 0
  BY DEF Beginning, Rowless
<1>4. Queued' = Queued
  BY DEF Queued
<1>5. \A n : n \in InHand' <=> n \in InHand
  <2>1. g.row = call[s].row
    BY <1>1, <1>3
  <2> QED BY <1>1, <2>1, HandsMove
<1>6. NoneStranded
  BY <1>4, <1>5, AroundIsEnough DEF StaysAround
<1> QED BY <1>2, <1>6

LEMMA Begins ==
    ASSUME Safe, NEW s \in Slots, NEW event \in Event, NEW actor, NEW readers,
           BeginEmit(s, event, actor) \/ BeginAdHoc(s, event, readers)
    PROVE  Beginning(s)
<1>1. call[s].pc # "enqueue"
  BY DEF BeginEmit, BeginAdHoc, CanCall
<1>2. CASE BeginEmit(s, event, actor)
  <2> DEFINE h == [Free EXCEPT !.pc = "lookup", !.n = Len(due) + 1, !.event = event, !.actor = actor]
  <2>1. Go(s, h) /\ h.row = 0 /\ h.pc = "lookup"
    BY <1>2 DEF BeginEmit, Free
  <2> HIDE DEF h
  <2> QED BY <1>1, <2>1 DEF Beginning
<1>3. CASE BeginAdHoc(s, event, readers)
  <2> DEFINE f == [Free EXCEPT !.n = Len(due) + 1, !.event = event]
  <2>1. f \in Call
    <3>0. due \in Seq(Due)
      BY DEF Safe, CallTypes
    <3>1. Len(due) + 1 \in Nat
      BY <3>0, LenProperties
    <3> QED BY <3>1, FreeCall DEF Call, CallPC
  <2>2. PICK g \in NextReader(f, readers) : Go(s, g)
    BY <1>3 DEF BeginAdHoc
  <2> HIDE DEF f
  <2> QED BY <1>1, <2>1, <2>2, NextIsRowless DEF Beginning
<1> QED BY <1>2, <1>3

LEMMA LookupBegins ==
    ASSUME Safe, Rowless, NEW s \in Slots, Lookup(s) \/ Bell(s)
    PROVE  Beginning(s)
<1>1. call[s] \in Call /\ call[s].pc # "enqueue" /\ call[s].row = 0
  BY DEF Safe, CallTypes, Lookup, Bell, Rowless
<1>2. CASE Lookup(s)
  <2>1. \E left : \E g \in NextReader(call[s], left) : Go(s, g)
    BY <1>2 DEF Lookup
  <2> QED BY <1>1, <2>1, NextIsRowless DEF Beginning
<1>3. CASE Bell(s)
  <2> DEFINE g == [call[s] EXCEPT !.pc = "mail row"]
  <2>1. Go(s, g) /\ g.row = 0 /\ g.pc = "mail row"
    BY <1>1, <1>3 DEF Bell, Call
  <2> HIDE DEF g
  <2> QED BY <1>1, <2>1 DEF Beginning
<1> QED BY <1>2, <1>3

\* A line in the bell is nobody's mail.
LEMMA BellIsNoMail ==
    ASSUME Safe, NEW s \in Slots, Bell(s)
    PROVE  Pending' \subseteq Pending
<1> DEFINE x == [to |-> call[s].at.to, event |-> call[s].event, channel |-> "IN_APP",
                 status |-> "SENT", call |-> call[s].n]
<1>1. /\ call[s] \in Call /\ call[s].at \in Reader /\ notices \in Seq(Row)
      /\ notices' = Append(notices, x)
  BY DEF Safe, CallTypes, TableTypes, Bell, AddRow
<1>2. x \in Row /\ x.channel = "IN_APP"
  BY <1>1 DEF Reader, Row, Call, Channel, Status
<1> HIDE DEF x
<1>3. /\ DOMAIN notices = 1..Len(notices) /\ Len(notices) \in Nat
      /\ DOMAIN Append(notices, x) = 1..(Len(notices) + 1) /\ Append(notices, x)[Len(notices) + 1] = x
      /\ \A i \in 1..Len(notices) : Append(notices, x)[i] = notices[i]
  BY <1>1, <1>2, LenProperties, AppendProperties
<1>4. \A n \in DOMAIN notices' : notices'[n] = x \/ (n \in DOMAIN notices /\ notices'[n] = notices[n])
  BY <1>1, <1>3
<1> QED BY <1>2, <1>4 DEF Pending, MailRows, NoticeIds

\* The row of a mail comes into hand.
LEMMA MailRowStrandsNone ==
    ASSUME Safe, Rowless, NEW s \in Slots, MailRow(s)
    PROVE  NoneStranded /\ Rowless'
<1> DEFINE h == call[s]
           k == Len(notices) + 1
           g == [h EXCEPT !.pc = "enqueue", !.row = k]
<1>1. /\ h \in Call /\ h.pc = "mail row" /\ h.row = 0 /\ notices \in Seq(Row)
  BY DEF Safe, CallTypes, TableTypes, MailRow, Rowless
<1>2. Go(s, g) /\ UNCHANGED <<queue, worker, faults>>
  BY DEF MailRow
<1>3. g.row = k /\ g.pc = "enqueue"
  BY <1>1 DEF Call
<1>4. PICK x : notices' = Append(notices, x) /\ x \in Row
  <2> DEFINE x == [to |-> h.at.to, event |-> h.event, channel |-> "EMAIL", status |-> "PENDING", call |-> h.n]
  <2>1. h.at.to \in Users
    BY <1>1 DEF Safe, CallTypes, Reader
  <2>2. x \in Row
    BY <1>1, <2>1 DEF Row, Call, Channel, Status
  <2>3. notices' = Append(notices, x)
    BY DEF MailRow, AddRow
  <2> HIDE DEF x
  <2> QED BY <2>2, <2>3
<1>5. /\ DOMAIN notices = 1..Len(notices) /\ Len(notices) \in Nat
      /\ DOMAIN Append(notices, x) = 1..k
      /\ \A i \in 1..Len(notices) : Append(notices, x)[i] = notices[i]
  <2>1. notices \in Seq(Row) /\ x \in Row
    BY <1>1, <1>4
  <2> HIDE DEF g
  <2> QED BY <2>1, LenProperties, AppendProperties
<1>6. \A n \in DOMAIN notices' : n = k \/ (n \in DOMAIN notices /\ notices'[n] = notices[n])
  BY <1>4, <1>5
<1>7. \A n \in Pending' : n = k \/ n \in Pending
  BY <1>6 DEF Pending, MailRows, NoticeIds
<1>8. Rowless'
  BY <1>2, <1>3, RowlessGoes DEF Rowless
<1> HIDE DEF g
<1>9. /\ \A n : n \in InHand' <=> n = k \/ \E r \in Slots \ {s} : call[r].row = n
      /\ \A n : n \in InHand <=> n = 0 \/ \E r \in Slots \ {s} : call[r].row = n
  BY <1>1, <1>2, <1>3, HandsMove
<1>10. 0 \notin Pending /\ Queued' = Queued
  BY <1>2, RowIds DEF Queued
<1>11. NoneStranded
  BY <1>7, <1>9, <1>10, AroundIsEnough DEF StaysAround
<1> QED BY <1>8, <1>11

\* A call turns to its next reader or ends: the row it had in hand is in the
\* queue, or nobody deals with it any more.
LEMMA TurnsFrom ==
    ASSUME Safe, Rowless, NEW s \in Slots, NEW g \in NextReader(call[s], call[s].left), Go(s, g),
           notices' = notices, Queued \subseteq Queued', faults' \in Nat
    PROVE  /\ Rowless'
           /\ \A n \in Stranded' \ Stranded : n = call[s].row /\ n \in InHand
<1>1. call[s] \in Call
  BY DEF Safe, CallTypes
<1>2. g.row = 0 /\ g.pc # "enqueue"
  BY <1>1, NextIsRowless
<1>3. Rowless'
  BY <1>2, RowlessGoes
<1>4. Pending' = Pending
  BY DEF Pending, MailRows, NoticeIds
<1>5. \A n \in InHand : n \in InHand' \/ n = call[s].row
  BY HandsMove
<1>6. call[s].row \in InHand
  BY DEF InHand
<1>7. \A n \in Stranded' \ Stranded : n = call[s].row
  BY <1>4, <1>5 DEF Stranded, Pending
<1> QED BY <1>3, <1>6, <1>7

LEMMA EnqueueStrandsNone ==
    ASSUME Safe, Rowless, NEW s \in Slots, Enqueue(s)
    PROVE  NoneStranded /\ Rowless'
<1> DEFINE job == [row |-> call[s].row, stalls |-> 0]
<1>1. PICK g \in NextReader(call[s], call[s].left) : Go(s, g)
  BY DEF Enqueue
<1>2. queue' = Append(queue, job) /\ UNCHANGED <<notices, worker, faults>> /\ queue \in Seq(Job)
  BY DEF Enqueue, Safe, TableTypes
<1>3. /\ DOMAIN queue = 1..Len(queue) /\ Len(queue) \in Nat /\ DOMAIN queue' = 1..(Len(queue) + 1)
      /\ \A i \in 1..Len(queue) : queue'[i] = queue[i]
      /\ queue'[Len(queue) + 1] = job
  BY <1>2, LenProperties, AppendProperties
<1>4. \A i \in DOMAIN queue : i \in DOMAIN queue' /\ queue'[i] = queue[i]
  BY <1>3
<1>5. Queued \subseteq Queued' /\ call[s].row \in Queued'
  <2>1. \E i \in DOMAIN queue' : queue'[i] = job
    BY <1>3
  <2>2. job.row = call[s].row
    OBVIOUS
  <2> QED BY <1>2, <1>4, <2>1, <2>2 DEF Queued
<1>6. Rowless' /\ \A n \in Stranded' \ Stranded : n = call[s].row
  BY <1>1, <1>2, <1>5, TurnsFrom DEF Rowless
<1>7. NoneStranded
  BY <1>5, <1>6 DEF NoneStranded, Stranded
<1> QED BY <1>6, <1>7

-----------------------------------------------------------------------------
(* The worker.                                                             *)

LEMMA QueuedRows == \A n : n \in Queued <=> InQueue(n) \/ AtWorker(n)
  BY DEF Queued, InQueue, AtWorker

LEMMA WorkerIsJob ==
    ASSUME NEW w \in Worker
    PROVE  w # NoJob
  BY MailAssumption DEF Worker, Job

\* A step that leaves the calls alone and no row behind.
LEMMA QueuedIsEnough ==
    ASSUME call' = call, \A n \in Pending' : n \in Pending /\ (n \in Queued => n \in Queued')
    PROVE  NoneStranded
<1>1. InHand' = InHand
  BY DEF InHand
<1> QED BY <1>1, AroundIsEnough DEF StaysAround

LEMMA WorkerStrandsNone ==
    ASSUME Safe, Rowless, WorkerGoesOn
    PROVE  NoneStranded /\ Rowless'
<1>1. call' = call /\ faults' = faults
  BY DEF WorkerGoesOn, TakeJob, ReadAndBuild, Send, Record
<1>2. Rowless'
  BY <1>1 DEF Rowless
<1>3. CASE TakeJob
  <2>1. /\ queue \in Seq(Job) /\ queue # <<>> /\ worker = NoJob /\ notices' = notices
        /\ worker' = [job |-> Head(queue), pc |-> "read", tries |-> 0] /\ queue' = Tail(queue)
    BY <1>3 DEF TakeJob, Safe, TableTypes
  <2>2. /\ Head(queue) \in Job /\ Head(queue) = queue[1] /\ Len(queue') = Len(queue) - 1
        /\ \A i \in 1..Len(queue') : queue'[i] = queue[i + 1]
        /\ Len(queue) \in Nat /\ DOMAIN queue = 1..Len(queue) /\ DOMAIN queue' = 1..Len(queue')
    BY <2>1, HeadTailProperties, EmptySeq, LenProperties
  <2>3. \A i \in DOMAIN queue : i = 1 \/ (i - 1 \in DOMAIN queue' /\ queue'[i - 1] = queue[i])
    <3>1. \A i \in 1..Len(queue) : i = 1 \/ (i - 1 \in 1..Len(queue') /\ (i - 1) + 1 = i)
      BY <2>2
    <3> QED BY <2>2, <3>1
  <2>4. worker' \in Worker /\ worker'.job = queue[1]
    BY <2>1, <2>2 DEF Worker
  <2>5. worker' # NoJob
    BY <2>4, WorkerIsJob
  <2>6. \A n : InQueue(n) \/ AtWorker(n) => InQueue(n)' \/ AtWorker(n)'
    BY <2>1, <2>3, <2>4, <2>5 DEF InQueue, AtWorker
  <2>7. \A n : n \in Queued' <=> InQueue(n)' \/ AtWorker(n)'
    BY DEF Queued, InQueue, AtWorker
  <2>8. Pending' = Pending
    BY <2>1 DEF Pending, MailRows, NoticeIds
  <2> QED BY <1>1, <1>2, <2>6, <2>7, <2>8, QueuedRows, QueuedIsEnough
<1>4. ASSUME ReadAndBuild \/ \E o \in Outcomes : Send(o)
      PROVE  NoneStranded /\ Rowless'
  <2>1. worker # NoJob /\ worker \in Worker /\ UNCHANGED <<notices, queue>>
    BY <1>4 DEF ReadAndBuild, Send, Safe, TableTypes
  <2>2. worker' \in Worker /\ worker'.job = worker.job
    <3>1. CASE ReadAndBuild
      BY <2>1, <3>1 DEF ReadAndBuild, Worker
    <3>2. ASSUME NEW o \in Outcomes, Send(o)
          PROVE  worker' \in Worker /\ worker'.job = worker.job
      <4>1. worker.pc = "send" /\ IF o = "accepted" THEN worker' = [worker EXCEPT !.pc = "SENT"] ELSE Retry
        BY <3>2 DEF Send
      <4>2. CASE o = "accepted"
        BY <2>1, <4>1, <4>2 DEF Worker
      <4>3. CASE o # "accepted"
        BY <2>1, <4>1, <4>3, NextTry
      <4> QED BY <4>2, <4>3
    <3> QED BY <1>4, <3>1, <3>2
  <2>3. worker' # NoJob
    BY <2>2, WorkerIsJob
  <2>4. \A n : n \in Queued => n \in Queued'
    BY <2>1, <2>2, <2>3 DEF Queued
  <2>5. Pending' = Pending
    BY <2>1 DEF Pending, MailRows, NoticeIds
  <2> QED BY <1>1, <1>2, <2>4, <2>5, QueuedIsEnough
<1>5. CASE Record
  <2>1. PICK k : k = worker.job.row
    OBVIOUS
  <2>2. PICK status : status = worker.pc
    OBVIOUS
  <2>3. /\ worker # NoJob /\ status \in {"SENT", "FAILED"} /\ queue' = queue
        /\ notices' = [notices EXCEPT ![k].status = status]
    BY <1>5, <2>1, <2>2 DEF Record
  <2>4. \A n \in DOMAIN notices : notices[n] \in Row
    <3>1. notices \in Seq(Row)
      BY DEF Safe, TableTypes
    <3> QED BY <3>1, LenProperties
  <2>5. /\ DOMAIN notices' = DOMAIN notices
        /\ \A n \in DOMAIN notices : /\ notices'[n].channel = notices[n].channel
                                     /\ n # k => notices'[n] = notices[n]
                                     /\ n = k => notices'[n].status = status
    BY <2>3, <2>4 DEF Row
  <2>6. \A n \in Pending' : n \in Pending /\ n # k
    BY <2>3, <2>5 DEF Pending, MailRows, NoticeIds
  <2>7. \A n : n # k /\ n \in Queued => n \in Queued'
    BY <2>1, <2>3 DEF Queued
  <2> QED BY <1>1, <1>2, <2>6, <2>7, QueuedIsEnough
<1> QED BY <1>3, <1>4, <1>5 DEF WorkerGoesOn

-----------------------------------------------------------------------------
(* Failures, stops of the process and every step.                          *)

\* Why a row may have nobody left to deal with it.
MayStrand(n) ==
    \/ n \in InHand
    \/ /\ worker # NoJob /\ worker.job.row = n
       /\ faults' > faults \/ worker.job.stalls = MaxStalls

\* None, or one for a failure.
StrandsFew ==
    \/ NoneStranded /\ faults' \in {faults, faults + 1}
    \/ faults' = faults + 1 /\ \E k : MayStrand(k) /\ \A n \in Stranded' \ Stranded : n = k

LEMMA JobFailsStrands ==
    ASSUME Rowless, JobFails
    PROVE  StrandsFew /\ Rowless'
<1>1. PICK k : k = worker.job.row
  OBVIOUS
<1>2. /\ worker # NoJob /\ worker' = NoJob /\ faults' = faults + 1 /\ faults \in Nat
      /\ UNCHANGED <<notices, queue, call>>
  BY DEF JobFails, Rowless
<1>3. faults' > faults /\ faults' \in Nat
  BY <1>2
<1>4. Rowless' /\ MayStrand(k)
  BY <1>1, <1>2, <1>3 DEF Rowless, MayStrand
<1>5. Pending' = Pending /\ InHand' = InHand /\ \A n \in Queued : n \in Queued' \/ n = k
  BY <1>1, <1>2 DEF Pending, MailRows, NoticeIds, InHand, Queued
<1>6. \A n \in Stranded' \ Stranded : n = k
  BY <1>5 DEF Stranded, Pending
<1> QED BY <1>2, <1>4, <1>6 DEF StrandsFew

LEMMA CallFailsStrands ==
    ASSUME Safe, Rowless, NEW s \in Slots, CallFails(s)
    PROVE  StrandsFew /\ Rowless'
<1>1. PICK k : k = call[s].row
  OBVIOUS
<1>2. PICK g \in NextReader(call[s], call[s].left) : Go(s, g)
  BY DEF CallFails
<1>3. faults' = faults + 1 /\ faults \in Nat /\ UNCHANGED <<notices, queue, worker>>
  BY DEF CallFails, Rowless
<1>4. faults' \in Nat /\ Queued \subseteq Queued'
  BY <1>3 DEF Queued
<1>5. Rowless' /\ \A n \in Stranded' \ Stranded : n = k
  BY <1>1, <1>2, <1>3, <1>4, TurnsFrom
<1>6. MayStrand(k)
  BY <1>1 DEF MayStrand, InHand
<1> QED BY <1>3, <1>5, <1>6 DEF StrandsFew

\* A job goes back to the queue unless it has stalled too often.
LEMMA CrashStrands ==
    ASSUME Safe, Rowless, Crash
    PROVE  Rowless' /\ \A n \in Stranded' \ Stranded : MayStrand(n)
<1>1. /\ call' = [s \in Slots |-> Free] /\ queue' = Requeued /\ worker' = NoJob
      /\ UNCHANGED <<notices, faults>> /\ queue \in Seq(Job)
  BY DEF Crash, Safe, TableTypes
<1>2. Rowless'
  BY <1>1 DEF Rowless, Free
<1>3. Pending' = Pending
  BY <1>1 DEF Pending, MailRows, NoticeIds
<1>4. CASE worker = NoJob \/ worker.job.stalls = MaxStalls
  <2>1. queue' = queue
    BY <1>1, <1>4 DEF Requeued
  <2>2. \A n \in Queued : n \in Queued' \/ (worker # NoJob /\ worker.job.row = n)
    BY <2>1 DEF Queued
  <2> QED BY <1>2, <1>3, <1>4, <2>2 DEF Stranded, Pending, MayStrand
<1>5. CASE worker # NoJob /\ worker.job.stalls # MaxStalls
  <2> DEFINE job == [worker.job EXCEPT !.stalls = worker.job.stalls + 1]
  <2>1. queue' = <<job>> \o queue
    BY <1>1, <1>5 DEF Requeued
  <2>2. worker.job \in Job /\ worker.job.stalls \in Nat
    BY <1>5 DEF Safe, TableTypes, Worker, Job
  <2>3. worker.job.stalls + 1 \in Nat
    BY <2>2
  <2>4. job \in Job /\ job.row = worker.job.row
    BY <2>2, <2>3 DEF Job
  <2> HIDE DEF job
  <2>5. <<job>> \in Seq(Job) /\ Len(<<job>>) = 1 /\ <<job>>[1] = job
    BY <2>4
  <2>6. /\ queue' \in Seq(Job) /\ Len(queue') = 1 + Len(queue) /\ Len(queue) \in Nat
        /\ \A i \in 1..(1 + Len(queue)) : queue'[i] = IF i <= 1 THEN job ELSE queue[i - 1]
    BY <1>1, <2>1, <2>5, ConcatProperties, LenProperties
  <2>7. DOMAIN queue = 1..Len(queue) /\ DOMAIN queue' = 1..(1 + Len(queue))
    BY <1>1, <2>6, LenProperties
  <2>8. 1 \in DOMAIN queue' /\ queue'[1] = job
    BY <2>6, <2>7
  <2>9. \A i \in DOMAIN queue : i + 1 \in DOMAIN queue' /\ queue'[i + 1] = queue[i]
    <3>1. \A i \in 1..Len(queue) : i + 1 \in 1..(1 + Len(queue)) /\ ~(i + 1 <= 1) /\ (i + 1) - 1 = i
      BY <2>6
    <3> QED BY <2>6, <2>7, <3>1
  <2>10. \A n \in Queued : n \in Queued'
    BY <2>4, <2>8, <2>9 DEF Queued
  <2> QED BY <1>2, <1>3, <2>10 DEF Stranded, Pending, MayStrand
<1> QED BY <1>4, <1>5

LEMMA StrandStep ==
    ASSUME Safe, Rowless, [Next]_vars
    PROVE  /\ Rowless'
           /\ StrandsFew \/ (Crash /\ \A n \in Stranded' \ Stranded : MayStrand(n))
<1>1. ASSUME UNCHANGED mailVars
      PROVE  StrandsFew /\ Rowless'
  <2>1. Stranded' = Stranded
    BY <1>1 DEF mailVars, Stranded, MailRows, NoticeIds, Queued, InHand
  <2> QED BY <1>1, <2>1 DEF mailVars, Rowless, StrandsFew, NoneStranded
<1>2. ASSUME NEW s \in Slots, Beginning(s), UNCHANGED <<queue, worker, faults>>,
             notices' = notices \/ Pending' \subseteq Pending
      PROVE  StrandsFew /\ Rowless'
  <2>1. Pending' \subseteq Pending
    BY <1>2 DEF Pending, MailRows, NoticeIds
  <2> QED BY <1>2, <2>1, BeginningStrandsNone DEF StrandsFew
<1>3. CASE DeskStep(NextSlot)
  <2>1. /\ UNCHANGED <<notices, queue, worker, faults>>
        /\ \E event \in Event : \/ \E actor : BeginEmit(NextSlot, event, actor)
                                \/ \E readers : BeginAdHoc(NextSlot, event, readers)
    <3>1. scene.events \subseteq Event /\ "ticket.assigned" \in Event /\ "ticket.sla_warning" \in Event
      BY EventTypes DEF Safe, CallTypes, Event
    <3> QED BY <1>3, <3>1 DEF DeskStep, TicketEvent, AssignTicket, WarnOfSla, AdHocEvent, OthersUnchanged
  <2>2. Beginning(NextSlot)
    BY <2>1, SlotIsSlot, Begins
  <2> QED BY <1>2, <2>1, <2>2, SlotIsSlot
<1>4. ASSUME NEW s \in Slots, CallGoesOn(s)
      PROVE  StrandsFew /\ Rowless'
  <2>1. CASE Lookup(s) \/ Bell(s)
    <3>1. UNCHANGED <<queue, worker, faults>>
      BY <2>1 DEF Lookup, Bell
    <3>2. notices' = notices \/ Pending' \subseteq Pending
      BY <2>1, BellIsNoMail DEF Lookup
    <3> QED BY <1>2, <2>1, <3>1, <3>2, LookupBegins
  <2>2. CASE MailRow(s)
    BY <2>2, MailRowStrandsNone DEF StrandsFew, MailRow
  <2>3. CASE Enqueue(s)
    BY <2>3, EnqueueStrandsNone DEF StrandsFew, Enqueue
  <2> QED BY <1>4, <2>1, <2>2, <2>3 DEF CallGoesOn
<1>5. CASE WorkerGoesOn
  <2>1. faults' = faults
    BY <1>5 DEF WorkerGoesOn, TakeJob, ReadAndBuild, Send, Record
  <2> QED BY <1>5, <2>1, WorkerStrandsNone DEF StrandsFew
<1>6. CASE MailFails
  BY <1>6, JobFailsStrands, CallFailsStrands DEF MailFails
<1>7. CASE CheckStep \/ HoldStep
  <2>1. ASSUME NEW e \in Employees, SendReminder(e) \/ SendCopies(e)
        PROVE  StrandsFew /\ Rowless'
    <3>1. /\ UNCHANGED <<notices, queue, worker, faults>>
          /\ \E event \in Event : \E readers : BeginAdHoc(JobSlot, event, readers)
      BY <2>1 DEF SendReminder, SendCopies, Event
    <3>2. JobSlot \in Slots
      BY ReminderAssumption
    <3> QED BY <1>2, <3>1, <3>2, Begins
  <2>2. CheckStep \/ HoldStep =>
          UNCHANGED mailVars \/ \E e \in Employees : SendReminder(e) \/ SendCopies(e)
    BY DEF CheckStep, HoldStep, StartCheck, EndCheck, CountDevices, ResolveAll, SkipRecent, RecordReminder,
           Hand, GiveBack, ReturnResolves
  <2> QED BY <1>1, <1>7, <2>1, <2>2
<1>8. CASE CrashWithCheck
  BY <1>8, CrashStrands DEF CrashWithCheck
<1>9. CASE CheckFails
  <2>1. Stranded' = Stranded
    BY <1>9 DEF CheckFails, Stranded, MailRows, NoticeIds, Queued, InHand
  <2>2. Rowless'
    BY <1>9 DEF CheckFails, Rowless
  <2> QED BY <1>9, <2>1, <2>2 DEF CheckFails, StrandsFew, NoneStranded
<1> QED BY <1>1, <1>3, <1>4, <1>5, <1>6, <1>7, <1>8, <1>9 DEF Next, vars, MailStep

\* A mail that waits to be sent has its job or its call until that very
\* operation fails, or its job has stalled too often; each failure strands one
\* at most, and a stop of the process only those that calls have in hand
\* (notifications.service.ts, email.processor.ts).
THEOREM FailuresStrand == Spec => StrandedByFailure
<1> DEFINE A == /\ \A n \in Stranded' \ Stranded :
                     \/ n \in InHand
                     \/ /\ worker # NoJob /\ worker.job.row = n
                        /\ faults' > faults \/ worker.job.stalls = MaxStalls
                /\ crashes' = crashes => Cardinality(Stranded') <= Cardinality(Stranded) + faults' - faults
<1>1. Safe /\ Rowless /\ [Next]_vars => [A]_vars
  <2> SUFFICES ASSUME Safe, Rowless, [Next]_vars
               PROVE  A
    OBVIOUS
  <2>1. Safe'
    BY SafeStep
  <2>2. /\ IsFiniteSet(Stranded) /\ Cardinality(Stranded) \in Nat /\ faults \in Nat
        /\ IsFiniteSet(Stranded)' /\ (Cardinality(Stranded) \in Nat)'
    <3>1. notices' \in Seq(Row)
      BY <2>1 DEF Safe, TableTypes
    <3>2. Len(notices') \in Nat /\ DOMAIN notices' = 1..Len(notices')
      BY <3>1, LenProperties
    <3>3. Stranded' \subseteq 1..Len(notices')
      BY <3>2 DEF Stranded, MailRows, NoticeIds
    <3>4. IsFiniteSet(1..Len(notices'))
      BY <3>2, FS_Interval
    <3>5. IsFiniteSet(Stranded') /\ Cardinality(Stranded') \in Nat
      BY <3>3, <3>4, FS_Subset, FS_CardinalityType
    <3> QED BY <3>5, RowIds DEF Rowless
  <2>3. CASE NoneStranded /\ faults' \in {faults, faults + 1}
    <3>1. Cardinality(Stranded') <= Cardinality(Stranded)
      BY <2>2, <2>3, FS_Subset DEF NoneStranded
    <3>2. Cardinality(Stranded') <= Cardinality(Stranded) + faults' - faults
      BY <2>2, <2>3, <3>1
    <3> QED BY <2>3, <3>2 DEF NoneStranded
  <2>4. CASE faults' = faults + 1 /\ \E k : MayStrand(k) /\ \A n \in Stranded' \ Stranded : n = k
    <3>1. PICK k : MayStrand(k) /\ \A n \in Stranded' \ Stranded : n = k
      BY <2>4
    <3>2. Stranded' \subseteq Stranded \cup {k}
      BY <3>1
    <3>3. /\ IsFiniteSet(Stranded \cup {k})
          /\ Cardinality(Stranded \cup {k}) \in {Cardinality(Stranded), Cardinality(Stranded) + 1}
      BY <2>2, FS_AddElement
    <3>4. Cardinality(Stranded') <= Cardinality(Stranded \cup {k})
      BY <3>2, <3>3, FS_Subset
    <3>5. Cardinality(Stranded') <= Cardinality(Stranded) + faults' - faults
      BY <2>2, <2>4, <3>3, <3>4
    <3> QED BY <3>1, <3>5 DEF MayStrand
  <2>5. CASE Crash /\ \A n \in Stranded' \ Stranded : MayStrand(n)
    <3>1. crashes' # crashes
      <4>1. crashes' = crashes + 1 /\ crashes \in Nat
        BY <2>5 DEF Crash, Safe, TableTypes
      <4> QED BY <4>1
    <3> QED BY <2>5, <3>1 DEF MayStrand
  <2> QED BY <2>3, <2>4, <2>5, StrandStep DEF StrandsFew
<1>2. Init => Safe /\ Rowless
  <2>1. Init => Rowless
    BY DEF Init, MailInit, Rowless, Free
  <2> QED BY <2>1, SafeInit
<1>3. Safe /\ Rowless /\ [Next]_vars => (Safe /\ Rowless)'
  BY SafeStep, StrandStep
<1> QED BY <1>1, <1>2, <1>3, PTL DEF Spec, StrandedByFailure

-----------------------------------------------------------------------------
(* Whom an event is for, and what the button of its mail opens.            *)

\* Of these events the administrators are told.
AdminEvents == {"auth.registration_pending", "device.request.pending_fulfilment",
                "purchase.request.finance_approved", "purchase.request.auto_created"}

Announced == {"ticket.created", "ticket.assigned", "ticket.status_changed", "ticket.comment_added",
              "ticket.sla_warning", "ticket.escalated", "ticket.resolved", "ticket.closed", "ticket.reopened"}

Told == {"auth.account_approved", "auth.account_created", "auth.account_rejected", "auth.registration_pending",
         "auth.registration_confirmation", "device.request.approved", "device.request.rejected",
         "device.request.pending_fulfilment", "device.purchased_available",
         "purchase.request.pending_manager", "purchase.request.pending_finance",
         "purchase.request.finance_approved", "purchase.request.rejected", "purchase.request.auto_created"}

Reminding == {"device.reminder.cycle", "device.reminder.escalation_cycle"}

\* Who may be among the readers of a ticket's event,
MayHear(u, event) ==
    \/ u = ticket.requester \/ HasRole(u, {"IT_ADMIN"}) \/ event \in AssigneeEvents
    \/ event = "ticket.escalated" /\ HasRole(u, {"MANAGER"})

\* and of any other.
MayGet(u, event) ==
    \/ event \in Announced /\ MayHear(u, event)
    \/ /\ event \in Told
       /\ event \in AdminEvents => HasRole(u, {"IT_ADMIN"})
       /\ event = "purchase.request.pending_finance" => HasRole(u, {"FINANCE"})
    \/ event \in Reminding

LEMMA EventNames == TicketEvents = Announced /\ AdHocEvents = Told
<1>1. TicketEvents = Announced
  BY DEF TicketEvents, TicketMails, TicketOutcomeMails, Announced
<1>2. AdHocEvents = Told
  BY DEF AdHocEvents, AccountMails, DeviceMails, PurchaseMails, Told
<1> QED BY <1>1, <1>2

LEMMA Links ==
    /\ \A e \in Announced : LinkOf[e] = TicketPage
    /\ \A e \in {"auth.account_approved", "auth.account_created"} : LinkOf[e] = "/login"
    /\ \A e \in {"auth.account_rejected", "auth.registration_confirmation",
                 "device.reminder.escalation_cycle"} : LinkOf[e] = NoLink
    /\ LinkOf["auth.registration_pending"] = "/admin/pending-users"
    /\ \A e \in {"device.request.approved", "device.request.rejected", "device.purchased_available"} :
         LinkOf[e] = "/devices/my-requests"
    /\ LinkOf["device.request.pending_fulfilment"] = "/admin/device-requests"
    /\ LinkOf["purchase.request.pending_finance"] = "/finance/approvals"
    /\ \A e \in {"purchase.request.pending_manager", "purchase.request.finance_approved",
                 "purchase.request.rejected", "purchase.request.auto_created"} : LinkOf[e] = "/admin/procurement"
<1>1. \A e \in Announced : LinkOf[e] = TicketPage
  BY DEF LinkOf, TicketMails, TicketOutcomeMails, AccountMails, DeviceMails, ReminderMails, PurchaseMails,
         Announced, TicketEvents, MailEvents
<1> QED BY <1>1 DEF LinkOf, TicketMails, TicketOutcomeMails, AccountMails, DeviceMails, ReminderMails, PurchaseMails,
         Announced, TicketEvents, MailEvents

LEMMA PagesOpen ==
    ASSUME NEW u \in Users
    PROVE  /\ \A page \in {TicketPage, "/login", "/devices/my-requests"} : Arrives(page, RolesOf[u]) = page
           /\ IsAdmin(u) => \A page \in {"/admin/pending-users", "/admin/device-requests", "/admin/procurement"} :
                              Arrives(page, RolesOf[u]) = page
           /\ HasRole(u, {"FINANCE"}) => Arrives("/finance/approvals", RolesOf[u]) = "/finance/approvals"
<1>1. \A page \in {TicketPage, "/login", "/devices/my-requests"} : Arrives(page, RolesOf[u]) = page
  BY DEF Arrives, Pages, PublicPages, OpenPages, TicketPage
<1>2. \A page \in {"/admin/pending-users", "/admin/device-requests", "/admin/procurement"} :
         page \in Pages /\ RouteRoles[page] = IT_ADMIN_ROLES
  BY DEF RouteRoles, Pages, PublicPages, OpenPages, AdminPages, ManagedPages, AgentPages, FinancePages
<1>3. "/finance/approvals" \in Pages /\ RouteRoles["/finance/approvals"] = {"FINANCE"}
  BY DEF RouteRoles, Pages, PublicPages, OpenPages, AdminPages, ManagedPages, AgentPages, FinancePages
<1>4. IsAdmin(u) => RolesOf[u] \cap IT_ADMIN_ROLES # {}
  BY DEF IsAdmin, HasRole
<1> QED BY <1>1, <1>2, <1>3, <1>4 DEF Arrives, HasRole

\* Who may get a mail finds its page, but for the dead ends.
LEMMA GetsToPage ==
    ASSUME NEW u \in Users, NEW event, MayGet(u, event)
    PROVE  Opens(u, LinkOf[event]) \/ DeadEnd(u, event)
<1>1. HasRole(u, {"IT_ADMIN"}) => IsAdmin(u)
  BY DEF IsAdmin, HasRole, IT_ADMIN_ROLES
<1>2. IsAdmin(u) => u \in Handlers
  BY DEF IsAdmin, HasRole, IT_ADMIN_ROLES, Handlers
<1>3. u \in Handlers => IsAdmin(u) \/ HasRole(u, {"AGENT", "L2_L3"})
  BY DEF IsAdmin, HasRole, IT_ADMIN_ROLES, Handlers
<1>4. CASE event \in Announced /\ MayHear(u, event)
  <2>1. LinkOf[event] = TicketPage /\ Arrives(TicketPage, RolesOf[u]) = TicketPage /\ event \in TicketEvents
    BY <1>4, Links, PagesOpen, EventNames
  <2>2. MayView(u) \/ DeadEnd(u, event)
    BY <1>1, <1>3, <1>4, <2>1 DEF MayHear, MayView, DeadEnd
  <2> QED BY <2>1, <2>2 DEF Opens
<1>5. CASE /\ event \in Told
           /\ event \in AdminEvents => HasRole(u, {"IT_ADMIN"})
           /\ event = "purchase.request.pending_finance" => HasRole(u, {"FINANCE"})
  <2>1. TicketPage = "/tickets/:id"
    BY DEF TicketPage
  <2>2. CASE event \in AdminEvents \cup {"purchase.request.pending_manager", "purchase.request.rejected"}
    BY <1>1, <1>5, <2>1, <2>2, Links, PagesOpen DEF AdminEvents, Opens, DeadEnd
  <2>3. CASE event = "purchase.request.pending_finance"
    BY <1>5, <2>1, <2>3, Links, PagesOpen DEF Opens
  <2>4. CASE event \in {"auth.account_approved", "auth.account_created", "auth.account_rejected",
                        "auth.registration_confirmation", "device.request.approved",
                        "device.request.rejected", "device.purchased_available"}
    BY <2>1, <2>4, Links, PagesOpen DEF Opens
  <2> QED BY <1>5, <2>2, <2>3, <2>4 DEF Told, AdminEvents
<1>6. CASE event \in Reminding
  BY <1>6, Links DEF Reminding, Opens, DeadEnd
<1> QED BY <1>4, <1>5, <1>6 DEF MayGet

-----------------------------------------------------------------------------
(* Calls and rows, and the readers they have.                              *)

\* A call under way: an event of a ticket is looked up, and whoever is still to
\* get a mail may get it.
MayCall(h) ==
    /\ h.pc = "lookup" => h.event \in Announced /\ h.left = {}
    /\ \A r \in h.left : MayGet(r.to, h.event)
    /\ h.pc \in {"bell", "mail row"} => MayGet(h.at.to, h.event)

CallsAddressed == \A s \in Slots : call[s].pc # "free" => MayCall(call[s])
RowsAddressed == \A n \in MailRows : MayGet(notices[n].to, notices[n].event)
Addressed == CallsAddressed /\ RowsAddressed

\* The requester of the ticket stays.
LEMMA SameMayGet ==
    ASSUME ticket'.requester = ticket.requester
    PROVE  \A u, event : MayGet(u, event)' <=> MayGet(u, event)
<1>1. \A u, event : MayHear(u, event)' <=> MayHear(u, event)
  BY DEF MayHear
<1> QED BY <1>1 DEF MayGet

LEMMA MayGoOn ==
    ASSUME NEW h \in Call, NEW left \in SUBSET Reader, \A r \in left : MayGet(r.to, h.event),
           NEW g \in NextReader(h, left)
    PROVE  g.pc # "free" => MayCall(g)
<1>1. CASE left = {}
  BY <1>1, FreeCall DEF NextReader
<1>2. CASE left # {}
  <2>1. PICK r \in left : g = [h EXCEPT !.pc = "bell", !.at = r, !.left = left \ {r}, !.row = 0]
    BY <1>2 DEF NextReader
  <2>2. g.pc = "bell" /\ g.at = r /\ g.left = left \ {r} /\ g.event = h.event
    BY <2>1 DEF Call
  <2> QED BY <2>2 DEF MayCall
<1> QED BY <1>1, <1>2

\* One call moves, the rows and the ticket's requester stay.
LEMMA CallMoves ==
    ASSUME Safe, Addressed, NEW s \in Slots, NEW g, Go(s, g), g.pc # "free" => MayCall(g),
           ticket'.requester = ticket.requester
    PROVE  CallsAddressed'
<1>1. call \in [Slots -> Call] /\ call' = [call EXCEPT ![s] = g]
  BY DEF Safe, CallTypes, Go
<1>2. call'[s] = g /\ \A r \in Slots : r # s => call'[r] = call[r]
  BY <1>1
<1>3. \A r \in Slots : call'[r].pc # "free" => MayCall(call'[r])
  BY <1>2 DEF Addressed, CallsAddressed
<1>4. \A h : MayCall(h) => MayCall(h)'
  BY SameMayGet DEF MayCall
<1> QED BY <1>3, <1>4 DEF CallsAddressed

LEMMA RowsStay ==
    ASSUME Addressed, notices' = notices, ticket'.requester = ticket.requester
    PROVE  RowsAddressed'
  BY SameMayGet DEF Addressed, RowsAddressed, MailRows, NoticeIds

LEMMA EmitAddresses ==
    ASSUME Safe, Addressed, NEW s \in Slots, NEW event \in Announced, NEW actor,
           BeginEmit(s, event, actor), notices' = notices, ticket'.requester = ticket.requester
    PROVE  Addressed'
<1> DEFINE g == [Free EXCEPT !.pc = "lookup", !.n = Len(due) + 1, !.event = event, !.actor = actor]
<1>1. Go(s, g) /\ g.pc = "lookup" /\ g.event = event /\ g.left = {}
  BY DEF BeginEmit, Free
<1>2. MayCall(g)
  BY <1>1 DEF MayCall
<1> HIDE DEF g
<1> QED BY <1>1, <1>2, CallMoves, RowsStay DEF Addressed

LEMMA AdHocAddresses ==
    ASSUME Safe, Addressed, NEW s \in Slots, NEW event \in Event, NEW readers \in SUBSET Reader,
           BeginAdHoc(s, event, readers), notices' = notices, ticket'.requester = ticket.requester,
           \A r \in readers : MayGet(r.to, event)
    PROVE  Addressed'
<1> DEFINE f == [Free EXCEPT !.n = Len(due) + 1, !.event = event]
<1>1. due \in Seq(Due)
  BY DEF Safe, CallTypes
<1>2. Len(due) + 1 \in Nat
  BY <1>1, LenProperties
<1>3. f \in Call /\ f.event = event
  BY <1>2, FreeCall DEF Call, CallPC, Free
<1>4. PICK g \in NextReader(f, readers) : Go(s, g)
  BY DEF BeginAdHoc
<1> HIDE DEF f
<1>5. g.pc # "free" => MayCall(g)
  BY <1>3, <1>4, MayGoOn
<1> QED BY <1>4, <1>5, CallMoves, RowsStay DEF Addressed

\* The recipients of a ticket's event.
LEMMA RecipientsMayGet ==
    ASSUME NEW event \in Announced, NEW actor
    PROVE  \A r \in ResolveRecipients(event, actor) : MayGet(r.to, event)
<1>1. \A r \in Requester : r.to = ticket.requester
  BY DEF Requester
<1>2. /\ \A r \in WithRole("IT_ADMIN", "admin") : HasRole(r.to, {"IT_ADMIN"})
      /\ \A r \in WithRole("MANAGER", "manager") : HasRole(r.to, {"MANAGER"})
  BY DEF WithRole, HasRole
<1>3. \A r \in Candidates(event)[1] \cup Candidates(event)[2] : MayHear(r.to, event)
  <2>1. CASE event = "ticket.created"
    BY <1>1, <1>2, <2>1 DEF Candidates, MayHear
  <2>2. CASE event = "ticket.escalated"
    BY <1>1, <1>2, <2>2 DEF Candidates, MayHear
  <2>3. CASE event \in AssigneeEvents
    BY <2>3 DEF MayHear
  <2>4. CASE event \notin AssigneeEvents \cup {"ticket.created", "ticket.escalated"}
    BY <1>1, <2>4 DEF Candidates, MayHear, AssigneeEvents
  <2> QED BY <2>1, <2>2, <2>3, <2>4
<1> QED BY <1>3 DEF ResolveRecipients, MayGet

LEMMA AudienceMayGet ==
    ASSUME NEW event \in Told, NEW people \in Audiences(event)
    PROVE  \A r \in AdHoc(people) : MayGet(r.to, event)
<1>1. event \in AdminEvents => \A u \in people : HasRole(u, {"IT_ADMIN"})
  BY DEF Audiences, AdminEvents, Members
<1>2. event = "purchase.request.pending_finance" => \A u \in people : HasRole(u, {"FINANCE"})
  BY DEF Audiences, Members
<1>3. \A r \in AdHoc(people) : r.to \in people
  BY DEF AdHoc
<1> QED BY <1>1, <1>2, <1>3 DEF MayGet

LEMMA DeskAddresses ==
    ASSUME Safe, Addressed, DeskStep(NextSlot)
    PROVE  Addressed'
<1>1. scene.events \subseteq Event /\ ticket \in TicketType /\ NextSlot \in Slots
  BY EventTypes, SlotIsSlot DEF Safe, CallTypes, TicketType
<1>2. "ticket.assigned" \in Announced /\ "ticket.sla_warning" \in Announced
  BY DEF Announced
<1>3. ASSUME NEW event \in scene.events, NEW actor \in Users \cup {Nobody}, TicketEvent(NextSlot, event, actor)
      PROVE  Addressed'
  <2>1. /\ event \in Announced /\ BeginEmit(NextSlot, event, actor)
        /\ notices' = notices /\ ticket' = ticket
    BY <1>3, EventNames DEF TicketEvent, OthersUnchanged
  <2> QED BY <1>1, <2>1, EmitAddresses
<1>4. ASSUME NEW u \in Users, NEW actor \in Users, AssignTicket(NextSlot, u, actor)
      PROVE  Addressed'
  <2>1. /\ BeginEmit(NextSlot, "ticket.assigned", actor) /\ notices' = notices
        /\ ticket' = [ticket EXCEPT !.assignee = u]
    BY <1>4 DEF AssignTicket, OthersUnchanged
  <2>2. ticket'.requester = ticket.requester
    BY <1>1, <2>1 DEF TicketType
  <2> QED BY <1>1, <1>2, <2>1, <2>2, EmitAddresses
<1>5. CASE WarnOfSla(NextSlot)
  <2>1. /\ BeginEmit(NextSlot, "ticket.sla_warning", Nobody) /\ notices' = notices /\ ticket' = ticket
    BY <1>5 DEF WarnOfSla, OthersUnchanged
  <2> QED BY <1>1, <1>2, <2>1, EmitAddresses
<1>6. ASSUME NEW event \in scene.events, NEW people \in SUBSET Users, AdHocEvent(NextSlot, event, people)
      PROVE  Addressed'
  <2>1. /\ event \in Told /\ people \in Audiences(event) /\ BeginAdHoc(NextSlot, event, AdHoc(people))
        /\ notices' = notices /\ ticket' = ticket
    BY <1>6, EventNames DEF AdHocEvent, OthersUnchanged
  <2>2. AdHoc(people) \in SUBSET Reader
    BY DEF AdHoc, Reader
  <2>3. \A r \in AdHoc(people) : MayGet(r.to, event)
    BY <2>1, AudienceMayGet
  <2> QED BY <1>1, <2>1, <2>2, <2>3, AdHocAddresses
<1> QED BY <1>3, <1>4, <1>5, <1>6 DEF DeskStep

LEMMA CallAddresses ==
    ASSUME Safe, Addressed, NEW s \in Slots, CallGoesOn(s) \/ CallFails(s)
    PROVE  Addressed'
<1>1. /\ call[s] \in Call /\ call[s].left \in SUBSET Reader /\ notices \in Seq(Row) /\ CallTypes
      /\ call[s].pc # "free" => MayCall(call[s])
  BY DEF Safe, CallTypes, TableTypes, Call, Addressed, CallsAddressed
<1>2. ASSUME NEW left \in SUBSET Reader, \A r \in left : MayGet(r.to, call[s].event),
             \E g \in NextReader(call[s], left) : Go(s, g), notices' = notices, ticket' = ticket
      PROVE  Addressed'
  <2>1. PICK g \in NextReader(call[s], left) : Go(s, g)
    BY <1>2
  <2>2. g.pc # "free" => MayCall(g)
    BY <1>1, <1>2, <2>1, MayGoOn
  <2> QED BY <1>2, <2>1, <2>2, CallMoves, RowsStay DEF Addressed
<1>3. CASE Lookup(s)
  <2>1. PICK readers : readers = ResolveRecipients(call[s].event, call[s].actor)
    OBVIOUS
  <2>2. /\ call[s].pc = "lookup" /\ notices' = notices /\ ticket' = ticket
        /\ \E g \in NextReader(call[s], readers) : Go(s, g)
    BY <1>3, <2>1 DEF Lookup
  <2>3. call[s].event \in Announced /\ call[s].event \in Event
    BY <1>1, <2>2 DEF MayCall, Call
  <2>4. readers \in SUBSET Reader /\ \A r \in readers : MayGet(r.to, call[s].event)
    BY <1>1, <2>1, <2>3, RecipientTypes, RecipientsMayGet
  <2> QED BY <1>2, <2>2, <2>4
<1>4. CASE Enqueue(s) \/ CallFails(s)
  <2>1. /\ call[s].pc # "free" /\ notices' = notices /\ ticket' = ticket
        /\ \E g \in NextReader(call[s], call[s].left) : Go(s, g)
    BY <1>4 DEF Enqueue, CallFails
  <2> QED BY <1>1, <1>2, <2>1 DEF MayCall
<1>5. ASSUME NEW g, Go(s, g), g.event = call[s].event, g.left = call[s].left, g.at = call[s].at,
             call[s].pc \in {"bell", "mail row"}, g.pc \in {"mail row", "enqueue"}, ticket' = ticket,
             NEW channel \in Channel, NEW status \in Status, AddRow(call[s], channel, status)
      PROVE  Addressed'
  <2> DEFINE x == [to |-> call[s].at.to, event |-> call[s].event, channel |-> channel,
                   status |-> status, call |-> call[s].n]
  <2>1. MayCall(call[s]) /\ MayCall(g)
    BY <1>1, <1>5 DEF MayCall
  <2>2. CallsAddressed'
    BY <1>5, <2>1, CallMoves
  <2>3. x \in Row /\ MayGet(x.to, x.event)
    <3>1. call[s].at \in Reader
      BY <1>1, <1>5 DEF CallTypes
    <3>2. x \in Row
      BY <1>1, <3>1 DEF Reader, Row, Call
    <3> QED BY <1>5, <2>1, <3>2 DEF MayCall
  <2>4. notices' = Append(notices, x)
    BY <1>5 DEF AddRow
  <2> HIDE DEF x
  <2>5. /\ DOMAIN notices = 1..Len(notices) /\ Len(notices) \in Nat
        /\ DOMAIN Append(notices, x) = 1..(Len(notices) + 1) /\ Append(notices, x)[Len(notices) + 1] = x
        /\ \A i \in 1..Len(notices) : Append(notices, x)[i] = notices[i]
    BY <1>1, <2>3, LenProperties, AppendProperties
  <2>6. \A n \in DOMAIN notices' : notices'[n] = x \/ (n \in DOMAIN notices /\ notices'[n] = notices[n])
    BY <2>4, <2>5
  <2>7. \A n \in MailRows' : MayGet(notices'[n].to, notices'[n].event)
    BY <2>3, <2>6 DEF Addressed, RowsAddressed, MailRows, NoticeIds
  <2>8. RowsAddressed'
    BY <1>5, <2>7, SameMayGet DEF RowsAddressed
  <2> QED BY <2>2, <2>8 DEF Addressed
<1>6. CASE Bell(s)
  <2> DEFINE g == [call[s] EXCEPT !.pc = "mail row"]
  <2>1. /\ Go(s, g) /\ g.pc = "mail row" /\ g.event = call[s].event /\ g.left = call[s].left /\ g.at = call[s].at
        /\ call[s].pc = "bell" /\ ticket' = ticket /\ AddRow(call[s], "IN_APP", "SENT")
    BY <1>1, <1>6 DEF Bell, Call
  <2> HIDE DEF g
  <2> QED BY <1>5, <2>1 DEF Channel, Status
<1>7. CASE MailRow(s)
  <2> DEFINE g == [call[s] EXCEPT !.pc = "enqueue", !.row = Len(notices) + 1]
  <2>1. /\ Go(s, g) /\ g.pc = "enqueue" /\ g.event = call[s].event /\ g.left = call[s].left /\ g.at = call[s].at
        /\ call[s].pc = "mail row" /\ ticket' = ticket /\ AddRow(call[s], "EMAIL", "PENDING")
    BY <1>1, <1>7 DEF MailRow, Call
  <2> HIDE DEF g
  <2> QED BY <1>5, <2>1 DEF Channel, Status
<1> QED BY <1>3, <1>4, <1>6, <1>7 DEF CallGoesOn

LEMMA WorkerAddresses ==
    ASSUME Safe, Addressed, WorkerGoesOn \/ JobFails \/ CheckFails \/ UNCHANGED mailVars
    PROVE  Addressed'
<1>1. call' = call /\ ticket' = ticket /\ (notices' = notices \/ Record)
  BY DEF WorkerGoesOn, TakeJob, ReadAndBuild, Send, Record, JobFails, CheckFails, mailVars
<1>2. CallsAddressed'
  <2>1. \A h : MayCall(h) => MayCall(h)'
    BY <1>1, SameMayGet DEF MayCall
  <2> QED BY <1>1, <2>1 DEF Addressed, CallsAddressed
<1>3. CASE Record
  <2>1. PICK k : k = worker.job.row
    OBVIOUS
  <2>2. PICK status : status = worker.pc
    OBVIOUS
  <2>3. notices' = [notices EXCEPT ![k].status = status]
    BY <1>3, <2>1, <2>2 DEF Record
  <2>4. \A n \in DOMAIN notices : notices[n] \in Row
    <3>1. notices \in Seq(Row)
      BY DEF Safe, TableTypes
    <3> QED BY <3>1, LenProperties
  <2>5. Alike(notices', notices)
    BY <2>3, <2>4 DEF Alike, Row
  <2>6. \A n \in MailRows' : MayGet(notices'[n].to, notices'[n].event)
    BY <2>5 DEF Alike, Addressed, RowsAddressed, MailRows, NoticeIds
  <2>7. RowsAddressed'
    BY <1>1, <2>6, SameMayGet DEF RowsAddressed
  <2> QED BY <1>2, <2>7 DEF Addressed
<1> QED BY <1>1, <1>2, <1>3, RowsStay DEF Addressed

LEMMA ReminderAddresses ==
    ASSUME Safe, Addressed, CheckStep \/ HoldStep
    PROVE  Addressed'
<1>1. JobSlot \in Slots /\ \A event \in Reminding : event \in Event
  BY ReminderAssumption DEF Event, Reminding
<1>2. ASSUME UNCHANGED mailVars
      PROVE  Addressed'
  BY <1>2, WorkerAddresses
<1>3. ASSUME NEW event \in Reminding, NEW readers \in SUBSET Reader, BeginAdHoc(JobSlot, event, readers),
             notices' = notices, ticket' = ticket
      PROVE  Addressed'
  <2>1. \A r \in readers : MayGet(r.to, event)
    BY DEF MayGet
  <2> QED BY <1>1, <1>3, <2>1, AdHocAddresses
<1>4. ASSUME NEW e \in Employees, SendReminder(e)
      PROVE  Addressed'
  <2>1. BeginAdHoc(JobSlot, "device.reminder.cycle", AdHoc({e})) /\ notices' = notices /\ ticket' = ticket
    BY <1>4 DEF SendReminder
  <2>2. AdHoc({e}) \in SUBSET Reader
    BY DEF AdHoc, Reader, Employees
  <2> QED BY <1>3, <2>1, <2>2 DEF Reminding
<1>5. ASSUME NEW e \in Employees, SendCopies(e)
      PROVE  Addressed'
  <2>1. /\ BeginAdHoc(JobSlot, "device.reminder.escalation_cycle", Copies(e))
        /\ notices' = notices /\ ticket' = ticket
    BY <1>5 DEF SendCopies
  <2>2. Copies(e) \in SUBSET Reader
    <3>1. WithRole("IT_ADMIN", "admin") \in SUBSET Reader /\ WithRole("MANAGER", "manager") \in SUBSET Reader
      BY DEF WithRole, Reader
    <3> QED BY <3>1 DEF Copies
  <2> QED BY <1>3, <2>1, <2>2 DEF Reminding
<1>6. CheckStep \/ HoldStep =>
        UNCHANGED mailVars \/ \E e \in Employees : SendReminder(e) \/ SendCopies(e)
  BY DEF CheckStep, HoldStep, StartCheck, EndCheck, CountDevices, ResolveAll, SkipRecent, RecordReminder,
         Hand, GiveBack, ReturnResolves
<1> QED BY <1>2, <1>4, <1>5, <1>6

LEMMA AddressedStep ==
    ASSUME Safe, Addressed, [Next]_vars
    PROVE  Addressed'
<1>1. CASE CrashWithCheck
  <2>1. call' = [s \in Slots |-> Free] /\ notices' = notices /\ ticket' = ticket
    BY <1>1 DEF CrashWithCheck, Crash
  <2>2. CallsAddressed'
    BY <2>1, FreeCall DEF CallsAddressed
  <2> QED BY <2>1, <2>2, RowsStay DEF Addressed
<1>2. CASE MailStep \/ MailFails
  BY <1>2, CallAddresses, WorkerAddresses DEF MailStep, MailFails
<1> QED BY <1>1, <1>2, DeskAddresses, ReminderAddresses, WorkerAddresses DEF Next, vars

\* A mail's button opens a page its reader may see, but for the dead ends that
\* are named: recipients (recipient.resolver.ts and the callers of sendAdHoc),
\* links (email-templates.ts) and routes (App.tsx) agree, whatever roles the
\* users have and whoever has the ticket by the time the mail is opened.
THEOREM ButtonsLeadSomewhere == Spec => []MailOpens
<1>1. Safe /\ Addressed => MailOpens
  <2> SUFFICES ASSUME Safe, Addressed, NEW n \in MailRows
               PROVE  Opens(notices[n].to, LinkOf[notices[n].event]) \/ DeadEnd(notices[n].to, notices[n].event)
    BY DEF MailOpens
  <2>1. notices \in Seq(Row)
    BY DEF Safe, TableTypes
  <2>2. notices[n] \in Row
    BY <2>1, LenProperties DEF MailRows, NoticeIds
  <2>3. notices[n].to \in Users
    BY <2>2 DEF Row
  <2> QED BY <2>3, GetsToPage DEF Addressed, RowsAddressed
<1>2. Init => Safe /\ Addressed
  <2>1. Init => Addressed
    BY FreeCall DEF Init, MailInit, Addressed, CallsAddressed, RowsAddressed, MailRows, NoticeIds
  <2> QED BY <2>1, SafeInit
<1>3. Safe /\ Addressed /\ [Next]_vars => (Safe /\ Addressed)'
  BY SafeStep, AddressedStep
<1> QED BY <1>1, <1>2, <1>3, PTL DEF Spec
=============================================================================
