------------------------------- MODULE Portal -------------------------------
(***************************************************************************)
(* One tab of the web client, and one row of the server's tables.  Pages   *)
(* show copies of the row that the query cache holds under several keys;   *)
(* a copy is read, answered and received in separate steps, and others     *)
(* change the row at any time.  A button makes calls one after the other,  *)
(* and when all have succeeded the keys it names are invalidated.          *)
(*                                                                         *)
(* The roles in the token decide what is shown; the server looks the roles *)
(* up afresh for each request (jwt.strategy.ts).                           *)
(***************************************************************************)
EXTENDS TicketScreens, PurchaseScreens, DeviceScreens, PeopleScreens, ArticleScreens, DashboardScreens

CONSTANTS
    Scenes      \* the first row, the viewer's first roles, and the bounds steps and others

Ties == {"requester", "assignee", "report", "first", "self", "sysadmin"}

ASSUME ScenesAssumption ==
    \A scene \in Scenes :
        /\ scene.row \in [kind: DOMAIN StatusesOf, status: AnyStatus \cup {Absent}, ties: SUBSET Ties]
        /\ scene.row.status \in StatusesOf[scene.row.kind] \cup {Absent}
        /\ scene.roles \in (SUBSET RoleName) \ {{}}
        /\ scene.steps \in Nat /\ scene.others \in Nat

VARIABLES
    row,        \* kind, status and ties to the viewer
    version,    \* how often what pages show of the row has changed
    account,    \* the viewer's roles, and whether the account is active
    token,      \* the roles in the token; {} when signed out
    page,
    cache,      \* key -> copy, and whether it was invalidated
    fetch,      \* key -> the request under way
    click,      \* the calls under way
    own,        \* key -> the version of the viewer's last completed change it is to show on his page
    steps,      \* the visits and clicks the viewer may still make
    others      \* the changes others may still make

vars == <<row, version, account, token, page, cache, fetch, click, own, steps, others>>

-----------------------------------------------------------------------------
(* Pages.                                                                  *)

ContentOf ==
    ("/dashboard" :> DashboardPage) @@ ("/tickets" :> TicketListPage) @@ ("/tickets/new" :> NewTicketPage) @@
    ("/tickets/:id" :> TicketDetailPage) @@ ("/agent/tickets" :> AgentQueuePage) @@
    ("/admin/tickets" :> AdminTicketQueuePage) @@ ("/admin/assign/:id" :> AssignTicketPage) @@
    ("/manager/approvals" :> ManagerApprovalsPage) @@ ("/finance/approvals" :> FinanceApprovalsPage) @@
    ("/finance/purchase-requests" :> FinancePurchaseRequestsPage) @@
    ("/admin/procurement" :> ProcurementPipelinePage) @@ ("/admin/purchase-requests" :> PurchaseRequestsPage) @@
    ("/devices/request" :> DeviceRequestPage) @@ ("/devices/my-requests" :> MyDeviceRequestsPage) @@
    ("/admin/devices" :> DeviceRegisterPage) @@ ("/admin/device-requests" :> DeviceRequestQueuePage) @@
    ("/admin/users" :> AdminUsersPage) @@ ("/admin/pending-users" :> AdminPendingUsersPage) @@
    ("/admin/notifications" :> AdminNotificationsPage) @@ ("/admin/reports" :> ReportsPage) @@
    ("/kb" :> KBListPage) @@ ("/kb/:id" :> KBArticlePage) @@ ("/kb/:id/edit" :> KBEditorPage) @@
    ("/kb/new" :> KBNewPage) @@ ("/login" :> LoginPage) @@ ("/register" :> RegisterPage) @@
    ("/admin/devices/import" :> Nothing)

\* The sources that list the rows of a kind.
SourcesOf ==
    [ticket |-> {"tickets", "my tickets", "ticket", "ticket report"}, request |-> {"requests"},
     purchase |-> {"purchases", "purchase"}, device |-> {"devices", "overdue devices"},
     account |-> {"accounts", "registrations"}, article |-> {"articles", "article"}]

RoleSets == {{}} \cup {{role} : role \in RoleName} \cup {scene.roles : scene \in Scenes}

\* What somebody with these roles is shown of a page.
View ==
    LET shown(set, roles) == {[x EXCEPT !.viewers = {}] : x \in {y \in set : roles \in y.viewers}} IN
    [path \in DOMAIN ContentOf |-> [roles \in RoleSets |->
        Part(shown(ContentOf[path].queries, roles), shown(ContentOf[path].buttons, roles),
             shown(ContentOf[path].links, roles))]]

RowIn(kind, ties, status) == [kind |-> kind, status |-> status, ties |-> ties]

\* Of the queries, those about a row of the kind.
QueriesAbout(kind, path, roles) == {q \in View[path][roles].queries : q.source \in SourcesOf[kind]}
QueriesOn(path, roles) == QueriesAbout(row.kind, path, roles)

AllQueries == UNION {ContentOf[path].queries : path \in DOMAIN ContentOf}

\* The keys under which rows of each kind are kept.
KeysOf == [kind \in DOMAIN SourcesOf |-> {q.key : q \in {p \in AllQueries : p.source \in SourcesOf[kind]}}]
Keys == KeysOf[row.kind]

\* The buttons that act on the row or create it, and the links that lead from it.
ButtonsAbout(kind, ties, path, roles) ==
    LET none == RowIn(kind, ties, Absent)
        creating == {d.call : d \in Accepted(none, RoleName)}
    IN  {b \in View[path][roles].buttons :
            b.key \in KeysOf[kind] \/ (b.key = NoKey /\ b.calls[1] \in creating)}
LinksAbout(kind, path, roles) == {l \in View[path][roles].links : l.key \in KeysOf[kind] \cup {NoKey}}

ButtonsOn(path, roles) == ButtonsAbout(row.kind, row.ties, path, roles)
LinksOn(path, roles) == LinksAbout(row.kind, path, roles)

-----------------------------------------------------------------------------
(* The query cache.                                                        *)

Unread == [status |-> "unread", version |-> 0]
Unlisted == "unlisted"
NoCopy == [copy |-> Unread, invalid |-> FALSE]
NothingOwn == [key \in Keys |-> 0]

Idle == [stage |-> "idle", copy |-> Unread]
Asked == [Idle EXCEPT !.stage = "asked"]

\* Calls that are still to be made, the first of them on its way.
NoClick == [stage |-> "none", calls |-> <<>>, refreshes |-> {}, goes |-> Stay, at |-> Stay, made |-> 0]

\* What reads one row is not asked while there is none.
OfOneRow == {"ticket", "purchase", "article"}
ActiveKeys(path, roles) ==
    {q.key : q \in {p \in QueriesOn(path, roles) : row.status = Absent => p.source \notin OfOneRow}}
Showing(key) == cache[key].copy.status
IsCurrent(key) == cache[key].copy.version = version /\ cache[key].copy # Unread

\* What a page fetches when it is opened: what is missing or invalidated, and
\* what has become stale since it was read.
FetchOnOpening(path, roles, stale) ==
    [key \in Keys |->
        IF key \in ActiveKeys(path, roles) /\ fetch[key] = Idle
               /\ (cache[key].copy = Unread \/ cache[key].invalid \/ key \in stale)
            THEN Asked ELSE fetch[key]]

Open(path, stale) ==
    /\ page' = Arrives(path, token)
    /\ fetch' = FetchOnOpening(Arrives(path, token), token, stale)

\* A page asks again by its clock, and when the window is focused.
Refetch(key) ==
    /\ key \in ActiveKeys(page, token)
    /\ fetch[key] = Idle
    /\ fetch' = [fetch EXCEPT ![key] = Asked]
    /\ UNCHANGED <<row, version, account, token, page, cache, click, own, steps, others>>

\* The part of Refetch the clock brings about.
Poll(key) ==
    /\ \E q \in QueriesOn(page, token) : q.key = key /\ q.every # Never
    /\ Refetch(key)

\* The copy a query holds of the row: its status if the answer lists it and
\* the page keeps it.
CopyFor(q) ==
    [status |-> IF /\ row.status \in q.want
                   /\ row.status # Absent /\ Lists(q.source, q.asked, row, account.roles)
                  THEN row.status ELSE Unlisted,
     version |-> version]

AllKeys == UNION {KeysOf[kind] : kind \in DOMAIN KeysOf}

QueryOf ==
    [key \in AllKeys |-> CHOOSE q \in AllQueries : q.key = key]

\* A request for one row that the viewer may not see is refused like one for a
\* list his roles do not allow.
Denied(q, r, roles) ==
    \/ roles \cap Readers[q.source] = {}
    \/ q.source \in {"ticket", "article"} /\ ~Lists(q.source, q.asked, r, roles)

Refused(q) == Denied(q, row, account.roles)

\* The server answers: with the row, with a refusal, or that the session is over.
Answers(key) ==
    /\ key \in Keys /\ fetch[key].stage = "asked"
    /\ fetch' = [fetch EXCEPT ![key] =
           CASE ~account.active -> [Idle EXCEPT !.stage = "expired"]
             [] account.active /\ Refused(QueryOf[key]) -> [Idle EXCEPT !.stage = "refused"]
             [] OTHER -> [stage |-> "answered", copy |-> CopyFor(QueryOf[key])]]
    /\ UNCHANGED <<row, version, account, token, page, cache, click, own, steps, others>>

\* Seeded fault: the client goes on when it is told that the session is over.
SessionKept ==
    /\ fetch' = [key \in Keys |-> Idle]
    /\ click' = NoClick
    /\ UNCHANGED <<token, page, cache, own>>

\* A reload of the client: what it held is gone.
SignedOut ==
    /\ token' = {} /\ page' = "/login" /\ own' = NothingOwn
    /\ cache' = [key \in Keys |-> NoCopy]
    /\ fetch' = [key \in Keys |-> Idle]
    /\ click' = NoClick

\* A copy that arrives is no longer marked, whatever happened since it was read.
Receive(key) ==
    /\ key \in Keys /\ fetch[key].stage \in {"answered", "refused"}
    /\ cache' = IF fetch[key].stage = "answered"
                  THEN [cache EXCEPT ![key] = [copy |-> fetch[key].copy, invalid |-> FALSE]] ELSE cache
    /\ fetch' = [fetch EXCEPT ![key] = Idle]
    /\ UNCHANGED <<row, version, account, token, page, click, own, steps, others>>

ReceiveExpired(key) ==
    /\ key \in Keys /\ fetch[key].stage = "expired"
    /\ SignedOut
    /\ UNCHANGED <<row, version, account, steps, others>>

-----------------------------------------------------------------------------
(* Moving between pages.                                                   *)

Offers(link) == link.key = NoKey \/ Showing(link.key) \in link.from

Targets == Menu(token) \cup {l.path : l \in {k \in LinksOn(page, token) : Offers(k)}}

\* Calls under way are not stopped by leaving the page.
Visit(path) ==
    /\ steps > 0 /\ token # {}
    /\ path \in Targets /\ path # page
    /\ \E stale \in SUBSET ActiveKeys(Arrives(path, token), token) : Open(path, stale)
    /\ steps' = steps - 1
    /\ own' = NothingOwn
    /\ UNCHANGED <<row, version, account, token, cache, click, others>>

\* Signing out by the side bar leaves the cache as it is.
SignOut ==
    /\ steps > 0 /\ token # {}
    /\ token' = {} /\ page' = "/login" /\ own' = NothingOwn
    /\ steps' = steps - 1
    /\ UNCHANGED <<row, version, account, cache, fetch, click, others>>

\* The same person signs in again: the token takes the present roles.
SignIn ==
    /\ token = {} /\ account.active /\ click = NoClick
    /\ token' = account.roles /\ page' = "/dashboard"
    /\ \E stale \in SUBSET ActiveKeys("/dashboard", account.roles) :
           fetch' = FetchOnOpening("/dashboard", account.roles, stale)
    /\ UNCHANGED <<row, version, account, cache, click, own, steps, others>>

-----------------------------------------------------------------------------
(* Calls.                                                                  *)

\* Seeded fault: the button is on the page whoever the row belongs to.
OfferedToAnyone(b) == IF b.key = NoKey THEN row.status = Absent ELSE Showing(b.key) \in b.from

\* A form may be filled in while the row does not exist, any other button is on
\* the row a key shows.
Offered(b) ==
    /\ IF b.key = NoKey THEN row.status = Absent ELSE Showing(b.key) \in b.from
    /\ row.ties \cap b.unless = {}

Press(b) ==
    /\ steps > 0 /\ click = NoClick
    /\ b \in ButtonsOn(page, token) /\ Offered(b)
    /\ click' = [stage |-> "sent", calls |-> b.calls, refreshes |-> b.refreshes, goes |-> b.goes, at |-> page,
                 made |-> 0]
    /\ steps' = steps - 1
    /\ UNCHANGED <<row, version, account, token, page, cache, fetch, own, others>>

\* What these calls change is not among what the pages show of the row.
Unshown == {<<"attach">>, <<"feedback">>}

Takes(call) == {d \in Accepted(row, account.roles) : d.call = call}

\* The server carries the call out or refuses it.
Handles ==
    LET call == Head(click.calls) IN
    /\ click.stage = "sent"
    /\ \/ /\ account.active
          /\ \E d \in Takes(call) : row' = [row EXCEPT !.status = d.to]
          /\ IF call \in Unshown
               THEN version' = version /\ click' = [click EXCEPT !.stage = "done"]
               ELSE version' = version + 1 /\ click' = [click EXCEPT !.stage = "done", !.made = version + 1]
       \/ /\ account.active /\ Takes(call) = {}
          /\ click' = [click EXCEPT !.stage = "refused"]
          /\ UNCHANGED <<row, version>>
       \/ /\ ~account.active
          /\ click' = [click EXCEPT !.stage = "expired"]
          /\ UNCHANGED <<row, version>>
    /\ UNCHANGED <<account, token, page, cache, fetch, own, steps, others>>

NextCall ==
    /\ click.stage = "done" /\ Len(click.calls) > 1
    /\ click' = [click EXCEPT !.stage = "sent", !.calls = Tail(@)]
    /\ UNCHANGED <<row, version, account, token, page, cache, fetch, own, steps, others>>

\* Seeded fault: a request that is under way is taken for the new one.
InvalidateJoining(keys) ==
    /\ fetch' = [key \in Keys |-> IF key \in keys \cap ActiveKeys(page, token) /\ fetch[key] = Idle THEN Asked ELSE fetch[key]]
    /\ cache' = [key \in Keys |-> IF key \in keys THEN [cache[key] EXCEPT !.invalid = TRUE] ELSE cache[key]]

\* The first read of a key is on its way.
FirstRead(key) == cache[key].copy = Unread /\ fetch[key] # Idle

\* Keys on the page are read anew, others when they are next shown.  A request
\* under way is dropped for the new one if the key has a copy; a first read is
\* taken for the new one, and its answer ends the invalidation.
Invalidate(keys) ==
    /\ fetch' = [key \in Keys |-> IF key \in keys \cap ActiveKeys(page, token) /\ ~FirstRead(key) THEN Asked ELSE fetch[key]]
    /\ cache' = [key \in Keys |-> IF key \in keys THEN [cache[key] EXCEPT !.invalid = TRUE] ELSE cache[key]]

\* The first read was answered before the viewer's change was made.
Overtaken(key) == FirstRead(key) /\ fetch[key].stage = "answered" /\ fetch[key].copy.version < click.made

\* The last call has succeeded.
Succeed ==
    /\ click.stage = "done" /\ Len(click.calls) = 1 /\ token # {}
    /\ IF click.goes = Stay
         THEN Invalidate(click.refreshes) /\ UNCHANGED page
         ELSE /\ \E stale \in SUBSET ActiveKeys(Arrives(click.goes, token), token) : Open(click.goes, stale)
              /\ UNCHANGED cache
    /\ own' = IF click.goes # Stay THEN NothingOwn
              ELSE IF click.made # 0 /\ click.at = page
                THEN [key \in Keys |-> IF Overtaken(key) THEN own[key] ELSE click.made] ELSE own
    /\ click' = NoClick
    /\ UNCHANGED <<row, version, account, token, steps, others>>

\* A refusal is shown or ignored; nothing is read anew.
Fail ==
    /\ click.stage = "refused" \/ (click.stage = "done" /\ Len(click.calls) = 1 /\ token = {})
    /\ click' = NoClick
    /\ UNCHANGED <<row, version, account, token, page, cache, fetch, own, steps, others>>

\* The page that assigns several tickets together reads anew whatever came of it.
BulkFails ==
    /\ click.stage = "refused" /\ click.at = "/admin/tickets" /\ click.calls = <<<<"assign">>>>
    /\ Invalidate(click.refreshes)
    /\ click' = NoClick
    /\ UNCHANGED <<row, version, account, token, page, own, steps, others>>

FailExpired ==
    /\ click.stage = "expired"
    /\ SignedOut
    /\ UNCHANGED <<row, version, account, steps, others>>

-----------------------------------------------------------------------------
(* Others.                                                                 *)

\* What anybody else can make of the row, or a job or another handler: the
\* return of a device ends its request, the allocation of a request takes a
\* device, a shortage drafts a purchase, nobody but the viewer fills in his form.
ByOthers ==
    {d.to : d \in Accepted([row EXCEPT !.ties = {"requester", "assignee", "report"}], RoleName)}
    \cup (IF row.kind = "request" /\ row.status = "ALLOCATED" THEN {"RETURNED"} ELSE {})
    \cup (IF row.kind = "device" /\ row.status = "AVAILABLE" THEN {"ALLOCATED"} ELSE {})

OthersChange ==
    /\ others > 0 /\ row.status # Absent
    /\ \E to \in ByOthers : row' = [row EXCEPT !.status = to]
    /\ version' = version + 1
    /\ others' = others - 1
    /\ UNCHANGED <<account, token, page, cache, fetch, click, own, steps>>

\* An administrator changes the viewer's role or deactivates the account.
AccountChanges ==
    /\ others > 0 /\ account.active
    /\ account' \in {[account EXCEPT !.active = FALSE], [account EXCEPT !.roles = {"EMPLOYEE"}]} \ {account}
    /\ others' = others - 1
    /\ UNCHANGED <<row, version, token, page, cache, fetch, click, own, steps>>

-----------------------------------------------------------------------------
\* A page that is loaded by its address; one of a row needs the row.
FirstPages(roles) ==
    {path \in DOMAIN ContentOf \ PublicPages :
        /\ Arrives(path, roles) = path
        /\ QueriesOn(path, roles) # {} \/ (row.status = Absent /\ \E b \in ButtonsOn(path, roles) : b.key = NoKey)
        /\ row.status = Absent => \A q \in QueriesOn(path, roles) : q.source \notin OfOneRow}

Init ==
    /\ \E scene \in Scenes :
          /\ row = scene.row
          /\ account = [roles |-> scene.roles, active |-> TRUE]
          /\ token = scene.roles
          /\ steps = scene.steps /\ others = scene.others
    /\ version = 1 /\ own = NothingOwn
    /\ page \in FirstPages(token)
    /\ cache = [key \in Keys |-> NoCopy]
    /\ fetch = [key \in Keys |-> IF key \in ActiveKeys(page, token) THEN Asked ELSE Idle]
    /\ click = NoClick

Fetches == \E key \in Keys : Refetch(key) \/ Answers(key) \/ Receive(key) \/ ReceiveExpired(key)
Visits == SignOut \/ SignIn \/ \E path \in Pages : Visit(path)
Calls == Handles \/ NextCall \/ Succeed \/ Fail \/ BulkFails \/ FailExpired \/ \E b \in ButtonsOn(page, token) : Press(b)

Next == Fetches \/ Visits \/ Calls \/ OthersChange \/ AccountChanges

PolledKeys == {q.key : q \in {p \in AllQueries : p.every # Never}} \cap AllKeys

\* The clock of an open page runs, and what it asks for is answered.
Fairness ==
    \A key \in PolledKeys : WF_vars(Poll(key) \/ Answers(key) \/ Receive(key) \/ ReceiveExpired(key))

Spec == Init /\ [][Next]_vars /\ Fairness

-----------------------------------------------------------------------------
(* What the tables of the pages have to be like.                           *)

\* In some status of the row the server accepts a call of the button that
\* changes what the pages show.
ChangesShown(b, kind, ties, roles) ==
    \E i \in DOMAIN b.calls, status \in StatusesOf[kind] \cup {Absent} :
        /\ b.calls[i] \notin Unshown
        /\ \E d \in Accepted(RowIn(kind, ties, status), roles) : d.call = b.calls[i]

\* A key is of one query.  A button that changes what is shown and does not
\* leave the page names all keys of the page, and who is let in to change may
\* also read; a form need not name what reads the one row it has just created.
Refreshing(kind, ties, roles) ==
    \A path \in Pages :
        /\ \A q \in QueriesAbout(kind, path, roles) :
               q.key \in KeysOf[kind] /\ q.source = QueryOf[q.key].source
        /\ roles # {} => \A b \in ButtonsAbout(kind, ties, path, roles) :
               /\ b.calls \in Seq(Seq(STRING)) \ {<<>>} /\ (b.key = NoKey => Len(b.calls) = 1)
               /\ b.goes = Stay /\ ChangesShown(b, kind, ties, roles) =>
                      \A q \in QueriesAbout(kind, path, roles) :
                          /\ q.key \in b.refreshes \/ (b.key = NoKey /\ q.source \in OfOneRow)
                          /\ \A status \in StatusesOf[kind] : ~Denied(QueryOf[q.key], RowIn(kind, ties, status), roles)

\* It is so for every viewer, before and after his role is changed, and signed out.
PagesRefresh ==
    \A scene \in Scenes : \A roles \in {scene.roles, {"EMPLOYEE"}, {}} :
        Refreshing(scene.row.kind, scene.row.ties, roles)

\* Buttons the server refuses although the page shows the row as it is: agents
\* may open the editor but not save, nor reopen what they resolved; for
\* administrators without the role the approvals page has the manager's buttons;
\* managers are shown requests of employees who report to somebody else
\* (devices.service.ts:367), and finance what the reader himself approved as
\* a manager (procurement.service.ts:307).
InVain(b, ties, roles) ==
    \/ b.calls[1] \in {<<"save">>, <<"write">>} /\ ~Has(roles, IT_ADMIN_ROLES)
    \/ b.calls[1] = <<"move", "REOPENED">> /\ Scope(roles) = "assigned"
    \/ b.calls[1][1] = "approve" /\ (roles = {"IT_ADMIN"} \/ "first" \in ties)
    \/ b.calls[1][1] = "decide" /\ "report" \notin ties

\* What a key may show of a row that was read by somebody with roles of readers.
Showable(key, kind, ties, readers) ==
    LET q == QueryOf[key] IN
    {Unlisted, Unread.status} \cup
    {status \in q.want : \E roles \in readers : Lists(q.source, q.asked, RowIn(kind, ties, status), roles)}

\* In every status in which one of the pages offers a button the server accepts
\* its first call, and links lead where they say.
Agreeing(paths, kind, ties, roles, readers) ==
    \A path \in paths :
        /\ \A b \in ButtonsAbout(kind, ties, path, roles) :
               /\ Unlisted \notin b.from
               /\ ties \cap b.unless = {} =>
                      \A status \in IF b.key = NoKey THEN {Absent}
                                   ELSE b.from \cap StatusesOf[kind] \cap Showable(b.key, kind, ties, readers) :
                          \/ \E d \in Accepted(RowIn(kind, ties, status), roles) : d.call = b.calls[1]
                          \/ InVain(b, ties, roles)
        /\ \A l \in LinksAbout(kind, path, roles) : Arrives(l.path, roles) = l.path

OpenTo(roles) == {path \in Pages : Arrives(path, roles) = path}

\* Where the side bar, links and buttons may lead: a link if its key may show what
\* it is for, a form if the row may be absent.
LedTo(kind, ties, absent, roles, readers) ==
    {path \in OpenTo(roles) :
        \/ path \in Menu(roles) \cup {CatchAll}
        \/ \E from \in OpenTo(roles) :
              \/ \E l \in LinksAbout(kind, from, roles) :
                    l.path = path /\ (l.key = NoKey \/ l.from \cap Showable(l.key, kind, ties, readers) # {})
              \/ \E b \in ButtonsAbout(kind, ties, from, roles) : b.goes = path /\ (b.key = NoKey => absent)}

\* A viewer has every page his roles open; with the role of an employee, which he
\* is left with later, he has those he is led to, and his copies may be from before.
PagesAgree ==
    \A scene \in Scenes :
        LET kind == scene.row.kind
            ties == scene.row.ties
            employee == {"EMPLOYEE"}
            both == {scene.roles, employee}
        IN  /\ Agreeing(OpenTo(scene.roles), kind, ties, scene.roles, {scene.roles})
            /\ Agreeing(LedTo(kind, ties, scene.row.status = Absent, employee, both), kind, ties, employee, both)

-----------------------------------------------------------------------------
(* What is promised.                                                       *)

\* Who holds the ball in a status, as the pages tell the reader.
HolderOf ==
    [purchase |-> [RAISED |-> "IT_ADMIN", PENDING_MANAGER_APPROVAL |-> "MANAGER",
                   PENDING_FINANCE_APPROVAL |-> "FINANCE", FINANCE_APPROVED |-> "IT_ADMIN",
                   PO_RAISED |-> "IT_ADMIN", ON_HOLD |-> "SYS_ADMIN"],
     request  |-> [PENDING_MANAGER_APPROVAL |-> "MANAGER", PENDING_FULFILMENT |-> "IT_ADMIN"]]

\* The server's word and the page's agree for somebody with these roles and ties.
Playable(path, holder, ties) ==
    LET seen == [row EXCEPT !.ties = ties] IN
    \E q \in View[path][holder].queries, b \in View[path][holder].buttons :
        /\ b.key = q.key /\ row.status \in q.want \cap b.from
        /\ holder \cap Readers[q.source] # {} /\ Lists(q.source, q.asked, seen, holder)
        /\ \E d \in Accepted(seen, holder) : d.call = b.calls[1]

\* Whoever is said to hold the ball finds, on a page of his own side bar that
\* polls, the row and a button the server accepts: requestFlow.ts against the
\* side bar, the pages, the lists and the rules of the server.
HolderCanPlay ==
    row.kind \in DOMAIN HolderOf /\ row.status \in DOMAIN HolderOf[row.kind] =>
        LET holder == {HolderOf[row.kind][row.status]} IN
        \E path \in Menu(holder) :
            /\ Arrives(path, holder) = path
            /\ \E q \in View[path][holder].queries : q.every # Never /\ q.source \in SourcesOf[row.kind]
            /\ Playable(path, holder, {"report"})

SignedInAsIs == account.active /\ token = account.roles
Settled == click = NoClick /\ \A key \in ActiveKeys(page, token) : fetch[key] = Idle

\* When a click that leaves the viewer on its page has succeeded and nothing is
\* under way, every copy of the row on the page is at least as new as the
\* change, whatever was polled, answered and invalidated in between, except
\* under a key whose first read was still on its way when the click succeeded
\* and had been answered before the change: that older answer stays.
OwnWriteShown ==
    Settled /\ SignedInAsIs =>
        \A key \in ActiveKeys(page, token) : cache[key].copy = Unread \/ cache[key].copy.version >= own[key]

\* All other buttons a page offers on a copy that is current are accepted, and
\* links lead where they say: the conditions of the pages and of the routes
\* agree with the rules of the server.
OfferedIsAccepted ==
    SignedInAsIs =>
        /\ \A b \in ButtonsOn(page, token) :
               (Offered(b) /\ (b.key # NoKey => IsCurrent(b.key))) => Takes(b.calls[1]) # {} \/ InVain(b, row.ties, token)
        /\ \A l \in LinksOn(page, token) : Offers(l) => Arrives(l.path, token) = l.path

Polled(key) == \E q \in QueriesOn(page, token) : q.key = key /\ q.every # Never

\* A page that polls comes to show the row as it is, or its viewer leaves it,
\* is signed out with the account, or lost the right to read.
PollsCatchUp ==
    \A key \in PolledKeys :
        []<>(\/ key \notin Keys \/ ~Polled(key)
             \/ account.active /\ (IsCurrent(key) \/ Refused(QueryOf[key])))
=============================================================================
