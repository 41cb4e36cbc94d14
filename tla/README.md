# A TLA+ model of the IT support help desk

The program is a NestJS application (`src/apps/api`) over PostgreSQL (through Prisma) and Redis
(BullMQ queues), with a React client (`src/apps/web`) and a small AI service
(`src/apps/ai-service`). This directory holds TLA+ modules of its core, the TLC configurations
that check them on small instances, and TLAPS proofs. Paths below are relative to
`src/apps/api/src` unless they say otherwise.

## 1. The system

One Node process (or several behind a load balancer) serves HTTP requests; the BullMQ workers for
the queues `sla`, `devices` and `notification-email` run in the same process. A handler is an
`async` function: nothing else runs between two of its `await`s, and everything may run at one.
PostgreSQL executes every statement, and every `$transaction`, atomically. So the unit of
interleaving is **one database access**, and that is what one action of the models is.

The hazard the whole code shares is check-then-write: handlers read a row, check status and rights
in TypeScript, and then write with `update({ where: { id } })`, which repeats none of the checks.
Only the ticket id (advisory lock), the SLA warning flag and the claim of a device (both
conditional `updateMany`) are protected.

| Component | State | Operations | What makes it correct |
|---|---|---|---|
| Ticket service and state machine, `tickets/` | `Ticket`, `StatusHistory`, `Comment` rows | create, assign, transition, resolve, comment, update | status along the table, history explains the status, dates and hold times right, role rules of section 3.4, comments locked when closed |
| SLA processor and scheduler, `sla/` | the warning flag, `escalationLevel`, repeatable jobs in Redis | warn at 75 %, escalate a breach | one warning, no early escalation, no breach overlooked |
| Audit, `audit/` | `AuditLog` rows | log | every write has its row |
| Notifications, `notifications/` | `Notification` rows PENDING/SENT/FAILED, the email queue, `SystemConfig` | emit, sendAdHoc, process, retry | a row is not lost, not sent twice, ends SENT or FAILED |
| Device register and requests, `devices/` | `Device`, `DeviceRequest`, `DeviceAllocation` rows | request, decide, allocate, return, edit, import | a device has one holder, ALLOCATED iff there is an open allocation, one decision per request |
| Procurement, `procurement/` | `PurchaseRequest`, `ApprovalStep`, `Vendor` rows | create, submit, approve (manager, finance), PO, receipt | every stage approved, by different people, one device per receipt |
| Device reminders, `devices/device-reminder.*` | `DeviceReminder` rows | weekday job | cadence kept, cycles count up, resolved when within the limit |
| Auth, `auth/` | `User` rows, the in-memory failure counters | register, login, OIDC | at most five tries per window, no second account |
| User administration, `admin/` | `User`, `UserRole` rows | approve, reject, assign roles, deactivate | a pending user is decided once, an account without rights stays so until it is approved |
| Chat, `chat/` and `ai/` | `ChatSession`, `ChatMessage` rows | send message, create ticket from draft | one ticket per session |
| Comments, `comments/` | `Comment` rows | edit, delete | only the author's, not on locked tickets |
| Knowledge base, `kb/` | `KBArticle` rows | draft, publish, archive | published articles only to readers |
| Attachments, `attachments/` | files and `Attachment` rows | upload, download | a row for every file and back |
| Reports, users, categories | none | queries | |
| Web client, `apps/web/src` | the token, the query cache of a tab | open a page, click, poll | a page shows what its user has done; what it offers is accepted; whoever holds the ball finds it |
| AI service, `apps/ai-service` | the index of published articles | answer, synchronise | the index holds the text of what is published |

How they interact: tickets, comments and the SLA jobs share the ticket row and call the state
machine, the audit service and the notifications; a device approval emits the in-process event
`device.request.approved`, on which procurement raises a purchase request, and a receipt puts a
device into the register; the chat creates tickets through the ticket service; all mail goes
through the notification rows and the email queue.

## 2. What is modelled, module by module

```
                 Roles
     .-------------+------------+-------------------------.
TicketService   DeviceDesk   Accounts   MailTemplates   WebRoutes -- Endpoints -- Screens
     |             |                        |               |                       |
SlaProcessor    Procurement                Mail             |   TicketScreens, PurchaseScreens, DeviceScreens,
     |             |                        |               |   PeopleScreens, ArticleScreens, DashboardScreens
  HelpDesk       Assets                 Reminders           |                       |
     :             :                        `--- MailRoom --'                     Portal
TicketWorkflow  AssetRegister
(refinement)    (refinement)        SheetParser -- DeviceImport        Chat, KnowledgeIndex
```

`TicketStatus` is shared by `TicketService`, `TicketWorkflow` and `Endpoints`. Each component that
is run has an `MC...` module that instantiates it for TLC; `..._proofs` and `HelpDesk_refinement`
hold the proofs. The halves tickets and assets share
the users and their roles and nothing else: no handler of one reads or writes a row of the other.
`MailRoom` composes the notices with what raises them, `Portal` every page of the client with the
rules of the server behind it.

### Tickets and SLA

**`Roles`**: the role names, the users, and the rule of the route guard (any one role is enough).

**`TicketStatus`**: the nine statuses, the transition table `Allowed`, the terminal statuses, and
the two status lists of the SLA processor. Constants only.

**`TicketService`**: the ticket table and its handlers.

| Model | Code |
|---|---|
| `ticket[t]` | the `Ticket` row, without subject, description, priority, category, source |
| `lastRow[t]` | the most recent `StatusHistory` row (no row is ever read back, updated or deleted) |
| `comments[t]` | how many `Comment` rows |
| `unaudited[t]` | ticket writes minus audit rows |
| `req[r]` | the local variables of the handler in slot `r`: whom it is for, what it was asked, the row it read |
| `now` | `new Date()`, in ticks |
| `Create` | `create`: lock, next id, insert with history row are one transaction |
| `RequestTransition`, `RequestResolve` | the first read of `transition` and `resolve`, and the role rules |
| `TransitionRead`, `TransitionWrite` | the state machine's read with the table check, and its write with the reopen window |
| `RequestAssign`, `AssignWrite` | `assign`: reads and checks; the write of the status computed from that read |
| `RequestComment`, `CommentWrite` | `addComment` |
| `RequestUpdate`, `UpdateWrite` | `update`, of which only the assignee is kept |
| `Audit` | the audit row of any of them |
| `Fail` | a database call throws, or the process stops: the handler ends where it is |

`Moved` is the state machine's `data` object; `FitsColumn` is the 32-bit width of `slaPausedMs`.
A request that a check refuses changes nothing, so a refusal is an action that is not enabled
or, where the handler already had something in hand, one that ends it. `CanStart` with
`Serial = TRUE` lets a handler or job run begin only when nothing is in progress.

**`SlaProcessor`**: the two jobs. `StartWarnings` and `StartEscalations` read the clock and the
list; a run of the job then does one listed ticket after the other in some order (the query has no
`orderBy`): `FlagWarning` (the conditional `updateMany`), `SendWarning`; `EscalateRead`,
`EscalateWrite`, `EscalateAudit`, `RaiseLevel`. `Workers` is how many runs may overlap: the queue's
worker takes one job at a time, but `dev-admin.controller.ts` calls the same methods directly and a
second instance of the application has a worker of its own. `JobFail` follows the two loops: the
escalation loop catches an error and goes on, the warning loop does not. `levelLag[t]` counts the
system's escalations minus the increments of `escalationLevel`.

**`HelpDesk`** composes the two, gives the specification `Spec`, the fair one `FairSpec`, and the
properties. **`TicketWorkflow`** is the abstract specification: a status that moves along the
table, and a hold time that is exact at every tick. `HelpDesk` maps onto it with
`held = pausedMs + (now - pausedAt when paused)`.

### Devices and purchases

**`DeviceDesk`**: the device register, the requests and the allocations.

| Model | Code |
|---|---|
| `device[d]` | the status of the `Device` row |
| `request[q]` | the `DeviceRequest` row: status, requester, the manager who decided |
| `alloc[q]` | the `DeviceAllocation` row of the request (`requestId` is unique): its device, whether `returnedOn` is set |
| `call[s]` | the local variables of the handler in slot `s` |
| `BeginDevice`, `InsertDevice` | `createDevice`, and a new row of an imported sheet: the next id is read, then inserted |
| `EditDevice` | `updateDevice`, and a row of a sheet whose device is known |
| `Ask` | `createRequest` |
| `BeginDecision`, `DecisionWrite` | `makeDecision`: read and checks; the unconditional write |
| `BeginAllocation`, `CheckDevice`, `ClaimDevice` | `allocate`: the request, the device, the transaction with the conditional claim |
| `BeginReturn`, `FindAllocation`, `ReturnWrite` | `recordReturn` |
| `CutOff` | a call throws, or the process stops |

**`Procurement`**: purchase requests, in the same slots.

| Model | Code |
|---|---|
| `purchase[p]` | the `PurchaseRequest` row: status, the device request behind it, whether cost and budget code are real |
| `steps` | the `ApprovalStep` rows |
| `receipts[p]` | how many devices were created from it (the audit rows say so; no column does) |
| `Announce`, `ListenerId`, `InsertPurchase` | the event `device.request.approved` and `handleDeviceRequestApproved`, which runs on in the slot of the decision |
| `BeginPurchase`, `InsertPurchase` | `create`: straight to the manager, with whatever cost and budget code were entered |
| `BeginEdit`, `EditWrite`; `BeginSubmit`, `SubmitWrite` | `update`; `submit` |
| `BeginApproval`, `CheckDuties`, `ApproveWrite` | `approve`: stage and role; the query for a manager step of the same person; the transaction |
| `BeginOrder`, `OrderWrite` | `recordPo` |
| `BeginReceipt`, `ReceiptId`, `ReceiveWrite` | `recordReceipt` |

**`Assets`** composes the two and states the properties. **`AssetRegister`** is the abstract
specification: devices come in, are issued to one request at a time, and are taken back; a request
is served once. `Assets` maps onto it with `held` = the open allocations.

### Notices and reminders

**`Mail`**: a notification is two rows, one for the bell (SENT at once) and one for the mail
(PENDING). `emit` and `sendAdHoc` are split at their accesses: look up the recipients (`BeginEmit`,
`Lookup`; `BeginAdHoc`), one `createMany`/`create` after the other, one queued job after the other.
The queue is in Redis and survives a `Crash`; the job in hand is queued again, calls in progress
end. The worker makes up to four attempts (`smtp.adapter.ts`), then writes SENT or FAILED; that
write may be lost (its error is swallowed). `Candidates` is the table of who is notified of what,
`ResolveRecipients` takes each once and leaves out the actor, `MailTemplates` has the page each
mail's button leads to. `due` keeps the event, the actor and the candidates of each call, so that
`EachReaderOnce` does not ask `ResolveRecipients` whom a mail may go to.

**`Reminders`**: the daily check of the device limit, employee by employee: count, read the latest
reminder, write, notify; and the return of a device, which resolves reminders. A query or a write
that fails (`CheckFails`) ends the check where it is, and the job is not tried again; `Unvisited`
are the employees it has not dealt with.

**`MailRoom`** raises the events as the handlers of tickets, accounts, devices and purchases and
the jobs do, and states the properties; it knows the client's routes (`WebRoutes`).

### Accounts

**`Accounts`**: `account[u]` is the `User` row with its `UserRole` rows, `attempts[u]` the counter
in the process's memory, `call[s]` the handler in slot `s`. Register, sign in by password (check the
counter, await the comparison, count), by single sign-on (`states` are those the process
remembers, `SsoCallback` consumes one, then `SsoExchange` redeems the code), by the development
login; create, approve, refuse, assign roles, deactivate, each with its read, its rules and its
writes. `Restart` empties what is in memory, `Fail` ends one handler.

### Import of workbooks

**`SheetParser`** translates the parser as operators over a sequence of sheets of lines of cells:
which sheets are taken and how, which line is the header, which column means what, which rows are
devices and which identification and type they get. A cell's text counts only by the words the
parser looks for; its lists of words are named tables in the order in which they are tried.
**`DeviceImport`** is the commit per database access (all rows of a sheet looked
up first, then row by row: next id, insert or overwrite, audit), for several administrators with
their pages (choose, preview, confirm, result) and devices entered by hand.

### Chat and knowledge base

**`Chat`**: one session; the drawer, which waits for each answer; the handler with its session,
history, save, ask, create, link and reply; the answers the AI service can give. What a user's text
says is one of four kinds; "completes" is a text that asks for a ticket only together with the one
before it, since the code looks for the words in all texts of the user joined (`AskedForTicket`).
**`KnowledgeIndex`**: one article with its versions; the requests that edit or publish it, which
read it and then write; and the tasks of the AI service that read the published rows, await, and
upsert.

### Web client

**`Endpoints`**: what the server does with each request of the client, as one guarded step: the
roles of the route and the rules of the service, over a row with a status and the viewer's ties to
it. **`Screens`** says what a page is made of: queries, buttons (calls in order, the keys they
invalidate, the page they lead to), links, each with its condition; **`TicketScreens`**,
**`PurchaseScreens`**, **`DeviceScreens`**, **`PeopleScreens`**, **`ArticleScreens`**,
**`DashboardScreens`** describe every page that way, **`WebRoutes`** the routes and the side bar.
**`Portal`** gives them behaviour: one tab with its query cache. A fetch is read, answered and
received in separate steps; others change the row; a click makes calls, any of which may be refused,
and invalidates keys; pages poll. As in TanStack Query, an invalidation drops the request under way
for a key that has a copy, and joins one for a key that has none yet (`FirstRead`). `version` counts
the changes of what pages show of the row, and `own[key]` is the version that the viewer's last
completed change made, while he is on the page that the change left him on; a key whose first read
was answered before the change (`Overtaken`) keeps what it owed before. A refusal reads nothing
anew, but for the assignment of several tickets together (`BulkFails`). `PagesRefresh` states what
the pages' descriptions must be like for `OwnWriteShown` to hold: what a button changes and leaves
the viewer to look at, it invalidates. `PagesAgree` states what `OfferedIsAccepted` asks of them: in
every status a key of the page may show (`Showable`), the server accepts what the page offers, save
what `InVain` lists; `LedTo` is where the side bar, the links and the buttons of a page can lead.

### Mutants

Some definitions are preceded by a variant of the same shape marked "Seeded fault": what the code
would be with a plausible bug. They are used by no specification; each shows that a property can
tell the code from that bug (PROJECT.json, "mutants").

## 3. The runs

| Run | Instance | Checks |
|---|---|---|
| `serial` | administrator, `Serial = TRUE`, 1 job run, clock to 4, target 2, window 1 | `ImplementsWorkflow` (the refinement), `ReopenedInWindow`: what holds when handlers do not overlap |
| `races` | employee and administrator, 2 overlapping requests, clock stopped | `HistoryExplainsStatus`, `DatesStamped`, `RowsWithinAuthority`: what survives stale writes |
| `faults` | agent, 1 request overlapping 2 job runs, one failure anywhere, clock to 2 | `CutOffCosts`: what a cut-off handler can leave undone, and no more; `EscalatedOnlyPastDue`, `WarnedOnceAndLate`, `RecordsOnlyGrow` |
| `live` | `FairSpec`, administrator, 1 request, 1 job run, clock to 2 | `BreachIsHandled`, `WarningIsRecorded` |
| `assets_serial` | chief and root, 1 slot, 2 devices, 2 requests, 1 purchase request, no status set by hand, one handler cut off | `AllocatedIffHeld`, `OneDevicePerPurchase`, `SeparationOfDuties`, `ShortageRaisesPurchase`, `ImplementsRegister` (the refinement): what overlap or a hand edit can break |
| `assets_races` | chief and deputy, 2 slots, 1 device, 1 request, 1 purchase request, any device set to AVAILABLE by hand, one handler cut off | `OrderedOnlyApproved`, `StatusMatchesAllocation`, `AllocatedAfterDecision`, `AllocatedOnce`: what is left then |
| `mail` | four users, every event in a scene of its own with one trouble, one with three, two that overlap, a ticket assigned to somebody who handles none, the reminders over 2 days | `StatusTellsDelivery`: SENT means sent, FAILED means not; `EachReaderOnce`, `MailOpens`, `RemindersSpaced`; `StrandedByFailure`, `CheckSettles`, `QueueDrains` |
| `accounts` | two system administrators and a newcomer, 2 overlapping handlers, 2 failures allowed in a window, one handler cut off or restart | `TriesBounded`, `DecisionsStand`, `SysAdminRemains`, `StatesUsedOnce` |
| `portal` | viewers of each role with the ties that matter, and a row in each status (absent too) with one step; 10 scenes with more steps or changes by others; `PagesRefresh` and `PagesAgree` for these and for every kind of row, any ties and any one role | `OwnWriteShown`, `OfferedIsAccepted`, `HolderCanPlay`, `PollsCatchUp` |
| `import` | 2 administrators, 2 workbooks, 3 imports, a device entered by hand, one failure | `ReimportCreatesNothing`, `UnreportedIsRegistered` |
| `chat` | 3 messages in 2 calls, one failure; an article with 3 versions, 2 tasks and 2 requests that overlap | `SecondTicketNeedsFault`, `ConfirmedOrFailed`, `IndexSettles` |
| `long_hold` (violation) | a hold longer than the column, one handler at a time | `AllowedIsWritten`: `ticket-state-machine.service.ts:123` says that leaving ON_HOLD accumulates the pause, and the table allows four ways out; past 2^31 ms (24.8 days) the write overflows the column and the ticket cannot leave |

**Bounds and why they are enough.** One ticket: handlers never relate two tickets, the only thing
shared being the id sequence, which is one transaction; a list of several tickets in a sweep adds
only an order. Two slots: every race in the list of hazards is between one stale handler and one
other step. Clock to 2 or 4 ticks with targets of 1 or 2 ticks and windows of 0 or 1 tick: before,
at and past every deadline and window, and a hold that spans a tick before or after the deadline.
`IntMax` of 1 tick makes the column overflow reachable; where it equals `MaxTime` it cannot happen.
`MaxFaults` 1: two failures are two such gaps. In `Assets`, two devices and two requests are what
it takes for a device to pass from one holder to another and for a request to want a second one;
one of each is enough for overlap, where the race is over one row. In `assets_races`,
`MaxSteps` 3 lets approvals begin while fewer than three steps are recorded: both stages, and
either a stage put on hold and taken up again, or a stale approval on top; in `assets_serial` 2 are
both stages.

In `mail`, a scene raises one event (or two): notices share nothing but the queue, which is worked
one job at a time. Three troubles are a mail that fails, a status update that is lost and a crash.
In `accounts`, `MAX_FAILED_ATTEMPTS` of 2 (5 in the code) with two slots shows the excess over the
limit, which is one less than the number of overlapping attempts whatever the limit; operations are
grouped (`MCOperations`) by the rows they contend for. In `portal`, a viewer makes one step from
every status or two from the interesting ones; a page's copies of one row do not depend on another
row. In `import`, the second workbook has the same device in other letters, so that lookup and
insertion of overlapping imports meet. In `chat`, the session and the index run in separate
behaviours: an answer may quote anything in `Chat`. The proofs below need none of the bounds of the
modules they are about.

`CHECK_DEADLOCK FALSE` where it stands: with the clock or a budget at its bound and nothing
requested the system may rest.

**Fairness.** `sla.scheduler.ts` registers both jobs as repeatable, every 15 minutes; the queue is
worked first in, first out by one worker, so a job run that starts again and again while there is
work is started with the work: strong fairness of `StartWarnings` and `StartEscalations` (a ticket
can leave and re-enter the list between two runs, hence strong; in the model a run with an empty
list changes nothing and is not a step). A run that has begun goes on: weak fairness of `RunOn`.
In `MailRoom` only the worker of the queue goes on (BullMQ picks a stalled job up again); troubles
are bounded, and handlers and checks may stop half way. In `KnowledgeIndex` the tasks
of the event loop go on, the scheduler fires every ten minutes, and a task does not fail every
time. In `Portal` a page that polls goes on polling while it is in view, and fetches are answered.
Nothing is assumed of users: requests may never come, stop half way, or come for ever.

`live` has no failures and no column overflow; with the overflow `BreachIsHandled` does not hold
(`long_hold`: the sweep fails on that ticket for ever).

## 4. What the models show of the code

The properties are what holds. Beside them, writing and checking the models showed these things
about the code, which the properties allow for.

*Tickets.* `assign` has no check for a terminal status, and comments and metadata edits are written
after a check on a row read earlier, so a locked ticket can still be assigned, commented or edited.
Two overlapping requests can take a ticket along an edge the table does not have. The hold a ticket
is in does not count in the breach check until it ends: `sla.processor.ts:125` speaks of "time
paused on-hold", the stored `slaPausedMs` has only the completed holds.

*Devices and purchases.* Approvals that overlap can let one person do both stages, though then
somebody else entitled has approved as well (`OrderedOnlyApproved`). Two receipts that overlap
create two devices. The listener of a shortage that loses the race for an id is only logged.

*Mail.* A mail can go out twice and its row stay PENDING; never is a row SENT without a mail. The
reminder copies from the third cycle go twice to somebody who is both administrator and manager.
Whether a reminder is due on a day depends on the minute the last one was written. A return that
races the check leaves a reminder open until the next check. A check that meets a failing query or
write is over, with whoever it had not come to, until the next one (`device-reminder.scheduler.ts`
asks for no second attempt). `src/README.md:88` says that sending e-mail was removed and that there
is no SMTP setting; `smtp.adapter.ts` reads the settings and sends, and the models follow the code.
Some mail buttons lead to pages their reader may not open: `DeadEnd` names them, `MailOpens` says
that all others open. `assign` takes handlers only, but creating (`tickets.service.ts:114`, `:142`)
and editing a ticket (`:397`) make anybody its assignee, who is then told of it and may not see it.

*Accounts.* The lock lets through as many guesses as overlap. Any administrator may approve a
pending account with the role SYS_ADMIN: `approve` lacks the rule `createUser` and `assignRole`
have.

*Import.* An import overwrites the status of a device that is out; "assigned" in a smart sheet
makes it AVAILABLE, "retired" in a laptop sheet ALLOCATED. A row without an asset number that
matches by serial takes the asset number off the device (hence the condition `Apart` of
`ReimportCreatesNothing`). A row with an asset number is never matched by serial. The smart sheet
uses the model number as the serial, so units of one model merge. Asset numbers that differ in case
create two devices. A failing audit row reports a written device as skipped; a failing lookup
ends in "Import failed" though earlier sheets are written. The drop area stays open during a
preview, so "Confirm" can import another file than was previewed; the download of errors is built
from the preview and always empty.

*Chat and articles.* An archived article stays in the index and is still quoted, though the page
says it "will no longer be visible to users". After an "ask", any later message of the session may
create the ticket. Suggestions show drafts to editors. An edit that read the article as a draft
while somebody published it tells the index nothing; the scheduler's next task puts that right.

*Web client.* Clicks that lead to another page refresh nothing; after a refused click nothing is
read again (the bulk assignment apart), and the ticket page never polls. The buttons "+ Add Device"
(`DeviceRegisterPage.tsx:443`) and "+ New Purchase Request" (`ProcurementPipelinePage.tsx:614`) can
be pressed while the list is loading for the first time; if the server answered that load before the
change, the invalidation (`:112`, `:117`) joins it, and the own row is missing until the list is
read next. `OwnWriteShown` excepts exactly such keys. Agents and managers reach the article editor,
new article included, though the server refuses the save (`kb.controller.ts:35`); agents are offered
REOPENED, which it refuses too; an administrator without the stage's role is offered its buttons on
the approvals page; managers are shown the requests of everybody's employees with buttons that only
the requester's manager may use (`devices.service.ts:367`, `:410`), and finance what the reader
approved himself as a manager (`procurement.service.ts:307`); managers and administrators are listed
other people's requests on pages named "My"; "Hold" on a row that is on hold resumes it under a
message that says it was placed on hold. "Review & submit" and the article editor overwrite what
others saved meanwhile. Signing out by the side bar keeps the cache, so who signs in again with
fewer roles still has what he read before; he is offered nothing in vain only because no page he has
left leads to tickets of others. `OfferedIsAccepted` and `OwnWriteShown` state exactly which offers
and which pages are excepted.

## 5. What is proved

Every theorem is about the specification of its component for all values of the constants that
satisfy the assumptions declared beside them; none of the bounds of the runs is used. Apart from
"bounds are naturals, the special values are distinct from the ordinary ones" the assumptions are:
`AccountAssumption`, one of the seeded users is a system administrator (`prisma/seed.ts`), without
which `SysAdminRemains` fails at once; `ReminderAssumption`, the reminders that are there at the
start are numbered and spaced as the processor writes them; `ImportAssumption`, lower case leaves no
text but the empty one empty, a workbook is a sequence of at least one sheet of lines of cells, the
device types are those the parser infers and possibly others, and among the device ids there are at
the start one of each type is the last, the one `generateDeviceId` continues from;
`ScenesAssumption` and `CallsAssumption`, the scenes and the calls are what their types say. Some
theorems have a hypothesis of their own, where the code keeps the property under a condition only:
`Serial` (in `HelpDesk`) and `OneSlot` (in `Assets`), no two handlers are in progress at once;
`HandStatuses = {}`, nobody sets a device's status by hand; `PagesRefresh` and `PagesAgree`, facts
about the finite tables of pages and rules that have no state in them, which TLC evaluates for every
page, every kind of row, all ties and every role (`MCPortal`).

| Module | Theorem | Property |
|---|---|---|
| `HelpDesk_proofs` | `TypeCorrect` | `TypeOK`, with `pausedMs \in 0..IntMax` |
| | `HistoryCorrect` | `HistoryExplainsStatus` |
| | `DatesCorrect` | `DatesStamped` |
| | `AuthorityCorrect` | `RowsWithinAuthority` |
| | `EscalationCorrect` | `EscalatedOnlyPastDue` |
| | `NeverNewAgain` | no ticket becomes NEW again |
| | `WindowKept` | `ReopenedInWindow` |
| | `RecordsKept` | `RecordsOnlyGrow` |
| | `WarningsCorrect` | `WarnedOnceAndLate` |
| | `CutOffsCounted` | `CutOffCosts` |
| `HelpDesk_refinement` | `SerialImplements` | `ImplementsWorkflow`, if `Serial` |
| `Assets_proofs` | `AssetsTypeCorrect` | `TypeOK` of `Assets` |
| | `OrdersCorrect` | `OrderedOnlyApproved` |
| | `RequestStatusCorrect` | `StatusMatchesAllocation` |
| | `AllocationCorrect` | `AllocatedAfterDecision` |
| | `AllocatedForGood` | `AllocatedOnce` |
| | `DutiesSeparated` | `SeparationOfDuties`, if `OneSlot` |
| | `ReceivedOnce` | `OneDevicePerPurchase`, if `OneSlot` |
| | `ShortageAnswered` | `ShortageRaisesPurchase`, if `OneSlot` |
| | `ShelfCorrect` | `AllocatedIffHeld`, if `OneSlot` and `HandStatuses = {}` |
| | `AssetsImplementRegister` | `ImplementsRegister`, under the same |
| `MailRoom_proofs` | `StatusIsTrue` | `StatusTellsDelivery` |
| | `ReadersServed` | `EachReaderOnce` |
| | `RemindersApart` | `RemindersSpaced` |
| | `CheckIsThorough` | `CheckSettles` |
| | `FailuresStrand` | `StrandedByFailure` |
| | `ButtonsLeadSomewhere` | `MailOpens` |
| `Accounts_proofs` | `SysAdminStays` | `SysAdminRemains` |
| | `DecisionsKept` | `DecisionsStand` |
| | `TriesLimited` | `TriesBounded` |
| | `StatesSpent` | `StatesUsedOnce` |
| `DeviceImport_proofs` | `ImportsInOrder` | `Apart => Good`, the invariant the next two follow from |
| | `ReimportIsSafe` | `ReimportCreatesNothing` |
| | `NoRowIsLost` | `UnreportedIsRegistered` |
| | `NumberedLinesAreRead` | `ParseSheet` has a row for every line with an asset number, in order |
| | `NoLineIsLost` | `UnreportedIsRegistered` for the lines of the workbook, through the parser |
| `Chat_proofs` | `OneTicketPerSession` | `SecondTicketNeedsFault` |
| | `TicketsConfirmed` | `ConfirmedOrFailed` |
| | `OnlyPublishedQuoted` | what is in the index was published, of a text the article had |
| `Portal_proofs` | `OwnChangesShown` | `OwnWriteShown`, if `PagesRefresh` |
| | `OffersAreAccepted` | `OfferedIsAccepted`, if `PagesRefresh` and `PagesAgree` |

**Tickets.** `TypeOK` is not inductive: `slaPausedMs` stays non-negative only if the pause a handler
computes is, and it computes it from a marker it read some time ago. `Typed` adds `InHand`: whatever
a handler or a job run has in hand, its ticket exists, the move it is about to write is in the
table, and a pause it has seen began in the past. The safety invariants need to know that what was
checked on a stale row is still good for something at the write. `InEffect` says what: dates seen
are still on the row (`Remembers`: dates are never taken off), the role rules still hold
(`Entitled`: a ticket never changes its requester), and a listed ticket is past its deadline
(`SweepsPastDue`: deadlines never change). `Safe` is the conjunction, and it is inductive. The proof
does not split on the 20 actions for each conjunct: `RowChanges`, `HandChanges` and `JobChanges`
first show that a step changes a row, a hand and a job in one of a few ways, and the lemmas about
the conjuncts split on those. The action properties follow from `Safe` the same way.

`WarningsInOrder` adds to this what the warning job knows. A run lists tickets with three quarters
of their time gone (`Late`), and that is for good: neither the deadline nor the creation date
changes and the clock only goes on. The flag goes up in one conditional write, so that of several
runs with the ticket on their list one only still has the mail to send; the flag stays up, and the
count of warnings and the runs that are about to send one are together at most one. `Counted` is an
exact account of `CutOffCosts`: for each ticket the audit rows that are missing are those that a
handler or a job run at its "audit" step still owes, plus some that cut-offs have cost, which are no
more than `faults`; likewise the escalation level. Each handler and job run enters and leaves the
set of those who owe one at a time, which the theorems on finite sets count.

**The refinement of `TicketWorkflow`** needs `Serial`, and says why. `OneByOne` is inductive with
`Typed`: whoever is at work is alone, so the row he is about to write is still the one he read
(`StillSeen`), so a ticket has a pause under way exactly while it is on hold (`PausedOnHold`).
`RowShows`: then every write of a row is, seen from outside, nothing, a creation or one move along
the table, and leaves the time held as it is; a tick adds one to it exactly where the status is
ON_HOLD (`TickRefines`). Without `Serial`, `StillSeen` is the first to go.

**Devices and purchases.** The same argument as for tickets, smaller. `Safe` holds the types, the
properties, two facts about rows (`RequestRows`: an allocated or approved request was decided by
someone entitled; `PurchaseRows`: what waits for finance has a manager's approval) and `InHand`:
what each handler knows from what it has read. The statuses a handler has read may be stale by the
time it writes, so `Knows` mentions none of them, only what no step takes back (`Lasts`): rows and
approval steps stay, a request keeps its requester, a right decision is only replaced by a right
one, an allocation keeps its device. This is why two approvals survive any overlap of the status
writes: the finance stage is entered on a recorded manager's approval, the check of the duties then
finds that it is someone else's, and steps are never removed. `RequestChange` and `PurchaseChange`
list what a step can make of a row; `StepKinds` separates the twelve writes from the steps that only
read.

*With one slot* (`OneSlot`) more is kept, because then what a handler has read is still so when it
writes. `PurchasesInOrder` says so for purchases (`PurchaseSeen`: the stage, the status and the
query for a manager's step a handler has in hand still agree with the row), and from it that finance
signs last (`FinanceLast`) and is somebody else (`DutiesApart`), that a row is RECEIVED when its one
device came (`ReceiptsRight`), and that ids are given out in order, so that the listener of a
shortage never meets a taken one. `ShelfInOrder` does it for the devices; there a status written by
hand would break it at once, hence `HandStatuses = {}`. `ShelfChange` lists the four things a step
can do to devices and allocations together, and the refinement of `AssetRegister` reads off it:
three of them are its actions, the fourth, nothing, is its stutter. A handler that is cut off
anywhere breaks none of this.

**Notices.** `StatusTellsDelivery` alone says nothing of a PENDING row, and that is where a mail can
go wrong. `Safe` adds where such a mail is: in exactly one job, at the worker, or still in the hands
of the call that wrote it, and that it is Owed (every attempt so far unanswered or lost to a crash)
or Handed (acknowledged, its status not written yet). A stalled job that runs again is paid for by
the crash that caused it. `Readers` says of every call under way that the readers it has still to
serve are distinct and have no mail of this call yet; what the steps of a call do to it are lemmas
about a call, the table of calls and the rows, not about states, so that each is proved once for
`emit` and for the loops around `sendAdHoc`. `Reminded` ties the check in progress to the latest
reminder it has read.

`EachReaderOnce` measures a mail by `due`: `Readers` says that whom a call has still to serve are
candidates of its event other than the actor, which is what `ResolveRecipients` must give.

`CheckSettles` is about the end of a check only, whichever way it ends; `Settling` carries it there:
apart from employees who have begun a return meanwhile, nobody within the limit whom the check has
passed has an open reminder, and whoever it is about to decide on has at least the devices it has
counted. `StrandedByFailure` is an action property: `MayStrand` says which row a step can leave
behind, `StrandsFew` counts, and `Rowless` is what they need (a call has a row in hand only between
writing it and queueing it). `Addressed` says of every call and row which users its event can have
as readers (`MayCall`, `MayGet`); that a reader of an event may open the page of its mail is then a
matter of the tables, the routes and the roles alone, and the dead ends are exactly where it fails.

**Accounts.** `Alone`: as long as no two administrators have overlapped there is at most one under
way, somebody leads (an active system administrator), and whoever is about to demote or deactivate a
system administrator is a leader himself and not that one. `Undisturbed`: as long as nothing failed
or overlapped, what was said about an account and the missing audit rows are the ones the handler
under way still owes. The steps are sorted by kind (begin, write, audit, tell, cut off, aside).
Counting the tries and the states uses the library's theorems on finite sets: a step adds or removes
one slot or state at a time.

**Chat.** `Budgeted`: the tickets there are and the calls that may yet create one (they saw the
session without a ticket) are together no more than one and the failures and broken connections:
only a drawer that a failure or a broken connection has opened again sends while a handler that saw
no ticket is under way or has left none linked. For `ConfirmedOrFailed`, each unconfirmed ticket has
its failure or its call. The index (`IndexInv`): what a task holds was read from an article that was
published, and an article is never a draft again, so that a task that is late writes an old text but
never one nobody was to read.

**Import.** Both properties are about rows that name their device by asset number or serial, and
rest on one idea: *a row that finds a device goes on finding it*. `Finds` is the look-up of the
code. An import that overwrites a device could break it for others, by giving the device another
asset number or serial; `UpdateKeeps` shows that it does not while the register is `Orderly` (no row
without an asset number gives the serial number of a device that has one) and the rows are `Apart`.
Creating is safe if the id is free, which is `NextIdIsFree`, from the numbering of ids. `Sound` then
says of every import under way that each row behind it is reported or finds a device, and that an
import of a file that was imported before has created nothing; look-ups it made earlier may be
stale, but a stale "found" is still found. The two properties themselves ask for `Apart`, which the
code needs: a row without an asset number that matches a device by serial takes the number off it.

*The parser* is proved to read any sheet: its rows have a type and a status the import knows
(`TypesInferred`, `StatusesInferred` go through the tables of words entry by entry), and they
enumerate, in the order of the lines and each once, exactly the lines that give a row (the lemma
`SheetsAreRead`). `NumberedLinesAreRead` says which lines these are at least: every line below the
header with an asset number, save those of the smart sheet that belong on another one. The parser
takes first matches and the k-th such line, and the library's induction theorems cannot be used
here; least and greatest elements (`LowestOf`, `HighestOf`) and the line of each rank (`RankTaken`)
come instead from the well-foundedness of strict inclusion on finite sets: a set without the
property has a smallest one. `NoLineIsLost` puts parser and commit together: a line that names a
device is in the report, at the place of its row, or in the register.

**Web client.** `Steady` says what every key of the page shows or will show. While a click is under
way, `CallsOf` ties it to the button it came from; when it has succeeded, `Invalidate` asks again
for everything it names that has a copy, also for what was already asked for, which is the point: an
answer that was read before the change is thrown away (the seeded fault `InvalidateJoining` joins
every request under way, and both the run and the proof fail). A first read is joined; if it has not
been answered yet its answer is newer than the change, and if it has, `Overtaken` leaves the key
out. `WillBe`: from then on every key of the page is asked anew, or has an answer under way or a
copy from after the change that `own` has for it, or shows nothing. `BulkFails` invalidates without
a change (`BulkFailsKeeps`). For forms that create the row there is nothing to invalidate;
`NoneToShow` says that what reads one row has nothing old to show. A viewer whose roles are the
present ones had them before, since an account's roles change once in a scene; for others the
property says nothing.

`Led` is the second invariant: no copy shows what was not listed to the viewer, with his present
roles or those he had (`Says`), a copy of the present version shows the row as it is (for this,
`UnshownKeeps`: a call that does not count as a change leaves the status), and the viewer is on a
page his roles open. `Agreeing`, which compares pages and rules entry by entry, then gives the
property. One case needed more, which the bounds of the run do not reach: an agent who read a
ticket, was made an employee and signed in again still has it in the cache, and its page would offer
him comments the server refuses. `OnPages` therefore says that he is only on pages he can be led to
with the roles he has left, from keys that can show what leads there (`Reach`, `LedTo`): the page of
a ticket is one of these only for its requester.

*Only model-checked:* of the invariants, `HolderCanPlay`. It has no state but the row's status and
compares the tables of the pages with the tables of the server entry by entry, as `PagesRefresh` and
`PagesAgree` do: the proof would be that enumeration again, over functions built with `:>`, `@@` and
folds that the provers do not unfold, and TLC does it completely. Liveness under fairness
(`BreachIsHandled`, `WarningIsRecorded`, `QueueDrains`, `PollsCatchUp`, `IndexSettles`) is beyond
this prover, and so is induction over data as such: what is defined by recursion or a fold has to be
evaluated.

## 6. What is left out

- Reads (`findAll`, `findOne`, `getStats`) except as a page's query; wording, ids as text,
pagination, sorting, layout, form validation; the figures of reports and dashboards.
- Subject, description, priority, category; `slaResponseDue`, which nothing reads after `create`.
- In `TicketService`, `DeviceDesk` and `Procurement` `RolesOf` is constant, while the code reads the
  roles at each request; `Accounts` is where roles change.
- Time is a tick; the clock read and the write of one block of code happen at the same tick. The
  code reads the clock once in the block that issues the write, with no `await` between. The one
  exception is `create`, which computes the deadline from a clock read before it looks the policy
  up and takes the lock; the delay is that of a shorter target, and the proofs hold for every set
  `SlaTargets` of naturals.
- A restart is several `Fail` and `JobFail` steps in `HelpDesk` and `Assets`.
- Device types other than in the import, a device's other fields, vendors and their editing,
  quantities and amounts.
- The FAILED row that `recordFailure` adds for the administrators' list from the third failed sign-in
  on (`auth.service.ts:231`): no mail belongs to it, no handler decides by it, its errors are ignored.
- Editing a device's serial number by hand (`devices.service.ts:179`): `DeviceImport` has devices
  entered by hand and none edited, so its properties are about a register whose serial numbers only
  imports and new devices set.
- Deleting and editing comments, the files of attachments, full-text search, views and helpful
  counts; the language model behind the AI service. Overlapping runs of the reminder check started
  through `dev-admin.controller.ts`.
- `Portal`: the tab is in view while it polls; the bell's own poll in the side bar is left out; the
  browser's way back is, too; one person per tab, one row at a time, viewers with one role; signing
  out keeps the query cache as the code does, a 401 reloads the page and empties it; the section
  roles of the side bar are merged into its items.
- The components listed as not modelled or partly modelled in PROJECT.json, with the reasons there.

## 7. Plan

Done: tickets and SLA; devices and purchases; notices and reminders; accounts; import; chat and
knowledge base; the web client, each with a run, and the proofs of section 5.

Left: comments' editing and the files of attachments; viewers with several roles in `Portal`; the
figures of the reports against the rows they count.
