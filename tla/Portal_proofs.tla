--------------------------- MODULE Portal_proofs ----------------------------
(***************************************************************************)
(* Two theorems about Portal.  A viewer's own change is never hidden by an *)
(* older answer: the invariant Steady says, besides what the variables     *)
(* are, what the calls under way are calls of, and that every key of the   *)
(* page is either asked for anew or has what it shows, or is about to      *)
(* show, from after the change.  And what a page offers is accepted: the   *)
(* invariant Led says which pages a viewer may be on and what a copy can   *)
(* show, so that only the tables of the pages are left to compare.         *)
(***************************************************************************)
EXTENDS Portal, SequenceTheorems, TLAPS

\* ActiveKeys of a row that is named.
Active(r, path, roles) ==
    {q.key : q \in {p \in QueriesAbout(r.kind, path, roles) : r.status = Absent => p.source \notin OfOneRow}}

\* The keys under which one row is read alone.
IsOfOneRow(key) == QueryOf[key].source \in OfOneRow

Copies == [status : AnyStatus \cup {Unlisted, "unread"}, version : 0..version]
Stages == {"idle", "asked", "answered", "refused", "expired"}

TypedRow ==
    /\ row \in [kind : DOMAIN StatusesOf, status : AnyStatus \cup {Absent}, ties : SUBSET Ties]
    /\ row.status \in StatusesOf[row.kind] \cup {Absent}
    /\ version \in Nat \ {0}

TypedCache ==
    /\ cache \in [Keys -> [copy : Copies, invalid : BOOLEAN]]
    /\ fetch \in [Keys -> [stage : Stages, copy : Copies]]

\* The roles are those of the scene until an administrator takes them; the token
\* has the present ones or those from before.
TypedSession ==
    /\ account \in [roles : (SUBSET RoleName) \ {{}}, active : BOOLEAN]
    /\ page \in Pages
    /\ token \in {{}, account.roles} \/ account.roles = {"EMPLOYEE"}
    /\ \A roles \in {account.roles, token, {"EMPLOYEE"}, {}} : Refreshing(row.kind, row.ties, roles)
    /\ account.active => \A key \in Keys : fetch[key].stage # "expired"

\* The viewer's changes are of a row that is there, and not of the future.
TypedOwn ==
    /\ own \in [Keys -> 0..version]
    /\ \A key \in Keys : own[key] # 0 => row.status # Absent /\ token # {}

\* What reads one row has nothing to show before there is one.
NoneToShow ==
    row.status = Absent =>
        \A key \in Keys : IsOfOneRow(key) => cache[key].copy = Unread /\ fetch[key] = Idle

\* What the key shows, or will show without being asked for again, is from
\* version v on.
FromOn(key, v) ==
    /\ cache[key].copy = Unread \/ cache[key].copy.version >= v
    /\ fetch[key].stage = "answered" => fetch[key].copy.version >= v

\* It will be, once all that is under way has arrived.
WillBe(key, v) ==
    CASE fetch[key].stage = "asked"    -> TRUE
      [] fetch[key].stage = "answered" -> fetch[key].copy.version >= v
      [] OTHER -> cache[key].copy = Unread \/ cache[key].copy.version >= v

\* The calls under way are, from some point on, those of the button b.
CallsOf(b) ==
    /\ click.refreshes = b.refreshes /\ click.goes = b.goes
    /\ click.calls \in Seq(Range(b.calls)) \ {<<>>}
    /\ b.key = NoKey =>
           /\ Len(click.calls) = 1
           /\ click.stage = "sent" => row.status = Absent
           /\ click.made # 0 => \A key \in Keys : IsOfOneRow(key) => FromOn(key, click.made)
    /\ click.made # 0 /\ token = account.roles => ChangesShown(b, row.kind, row.ties, token)

TypedClick ==
    /\ click = [stage |-> click.stage, calls |-> click.calls, refreshes |-> click.refreshes,
                goes |-> click.goes, at |-> click.at, made |-> click.made]
    /\ click.made \in 0..version
    /\ click.stage \in {"none", "sent", "done", "refused", "expired"}
    /\ click.stage = "none" => click = NoClick
    /\ click.made # 0 => row.status # Absent
    /\ click # NoClick => click.at \in Pages
    /\ click # NoClick /\ token # {} =>
           \E b \in ButtonsAbout(row.kind, row.ties, click.at, token) : CallsOf(b)

\* The key will show the viewer's change, and he may read it.
Reached(key) ==
    own[key] # 0 =>
        /\ WillBe(key, own[key])
        /\ \A status \in StatusesOf[row.kind] :
               ~Denied(QueryOf[key], RowIn(row.kind, row.ties, status), token)

ChangeArrives == SignedInAsIs => \A key \in Active(row, page, token) : Reached(key)

Steady ==
    /\ TypedRow /\ TypedCache /\ TypedSession /\ TypedOwn
    /\ NoneToShow /\ TypedClick /\ ChangeArrives

-----------------------------------------------------------------------------
(* The tables.                                                             *)

\* No status of a row says that there is none.
LEMMA StatusesFit ==
    ASSUME NEW kind \in DOMAIN StatusesOf
    PROVE  Absent \notin StatusesOf[kind] /\ StatusesOf[kind] \subseteq AnyStatus
  <1>1. kind \in {"ticket", "request", "purchase", "device", "account", "article"}
    BY DEF StatusesOf
  <1>2. StatusesOf[kind] \subseteq AnyStatus
    BY DEF AnyStatus
  <1>3. Absent \notin StatusesOf[kind]
    BY <1>1 DEF StatusesOf, Absent, Status, RequestStatus, OrderStatus, DeviceStatus, UserStatus, ArticleStatus
  <1> QED BY <1>2, <1>3

LEMMA AllowedFits ==
    ASSUME NEW s \in Status
    PROVE  Allowed[s] \subseteq Status
  BY DEF Allowed, Status

\* A call that is accepted leaves a row of the kind, there if it was not before.
LEMMA TargetsFit ==
    ASSUME NEW kind \in DOMAIN StatusesOf, NEW ties, NEW s \in StatusesOf[kind] \cup {Absent}, NEW roles,
           NEW d \in Accepted(RowIn(kind, ties, s), roles)
    PROVE  d.to \in StatusesOf[kind]
  <1> DEFINE r == RowIn(kind, ties, s)
  <1>0. r.kind = kind /\ r.status = s /\ r.ties = ties
    BY DEF RowIn
  <1> HIDE DEF r
  <1>1. kind \in {"ticket", "request", "purchase", "device", "account", "article"}
    BY DEF StatusesOf
  <1>2. CASE kind = "ticket"
    <2>1. d \in TicketCalls(r, roles)
      BY <1>0, <1>2 DEF Accepted, r
    <2>2. CASE s = Absent
      BY <2>1, <2>2, <1>0, <1>2 DEF TicketCalls, Does, StatusesOf, Status
    <2>3. CASE s # Absent
      <3>1. s \in Status
        BY <2>3, <1>2 DEF StatusesOf
      <3>2. Reachable(r, roles) \subseteq Status
        BY <3>1, <1>0, AllowedFits DEF Reachable
      <3> QED BY <2>1, <2>3, <3>1, <3>2, <1>0, <1>2 DEF TicketCalls, Does, When, StatusesOf, Status
    <2> QED BY <2>2, <2>3
  <1>3. CASE kind = "request"
    BY <1>0, <1>3 DEF Accepted, r, RequestCalls, Does, When, StatusesOf, RequestStatus
  <1>4. CASE kind = "device"
    BY <1>0, <1>4 DEF Accepted, r, DeviceCalls, Does, When, StatusesOf, DeviceStatus
  <1>5. CASE kind = "purchase"
    <2>1. d \in PurchaseCalls(r, roles)
      BY <1>0, <1>5 DEF Accepted, r
    <2>2. r.status \in DOMAIN StageRole => Approved[r.status] \in OrderStatus
      BY DEF StageRole, Approved, OrderStatus
    <2>3. Held(r.status) \in OrderStatus
      BY DEF Held, OrderStatus
    <2>4. MayDecide(r, roles) => r.status \in DOMAIN StageRole
      BY DEF MayDecide
    <2>5. \/ MayDecide(r, roles) /\ d.to \in {Approved[r.status], "REJECTED", Held(r.status)}
          \/ d.to \in {"PENDING_MANAGER_APPROVAL", "RAISED", "PO_RAISED", "RECEIVED"}
      BY <2>1 DEF PurchaseCalls, Does, When
    <2>6. d.to \in OrderStatus
      BY <2>2, <2>3, <2>4, <2>5 DEF OrderStatus
    <2> QED BY <2>6, <1>5 DEF StatusesOf
  <1>6. CASE kind = "account"
    <2>1. d \in AccountCalls(r, roles)
      BY <1>0, <1>6 DEF Accepted, r
    <2> QED BY <2>1, <1>0, <1>6 DEF AccountCalls, Does, When, StatusesOf, UserStatus, Absent
  <1>7. CASE kind = "article"
    <2>1. d \in ArticleCalls(r, roles)
      BY <1>0, <1>7 DEF Accepted, r
    <2> QED BY <2>1, <1>0, <1>7 DEF ArticleCalls, Does, When, StatusesOf, ArticleStatus, Absent
  <1> QED BY <1>1, <1>2, <1>3, <1>4, <1>5, <1>6, <1>7

LEMMA ArrivesFits ==
    ASSUME NEW path, NEW roles
    PROVE  Arrives(path, roles) \in Pages
  BY DEF Arrives, CatchAll, Pages, OpenPages

\* What a page asks for is of the row's kind and not of a row that is not there.
LEMMA ActiveFits ==
    ASSUME NEW r, NEW path \in Pages, NEW roles, Refreshing(r.kind, r.ties, roles),
           NEW key \in Active(r, path, roles)
    PROVE  key \in KeysOf[r.kind] /\ (r.status = Absent => ~IsOfOneRow(key))
  BY DEF Active, Refreshing, IsOfOneRow

LEMMA ActiveIs ==
    ASSUME NEW path, NEW roles
    PROVE  ActiveKeys(path, roles) = Active(row, path, roles)
  BY DEF ActiveKeys, Active, QueriesOn

LEMMA Entries ==
    /\ Idle.stage = "idle" /\ Idle.copy = Unread /\ Asked.stage = "asked" /\ Asked.copy = Unread
    /\ NoCopy.copy = Unread
    /\ version \in Nat => /\ Idle \in [stage : Stages, copy : Copies]
                          /\ Asked \in [stage : Stages, copy : Copies]
                          /\ NoCopy \in [copy : Copies, invalid : BOOLEAN]
  BY DEF Idle, Asked, NoCopy, Unread, Stages, Copies

-----------------------------------------------------------------------------
(* One key.                                                                *)

\* What a step does to what a key shows and to the request for it.
Same(key) == fetch'[key] = fetch[key] /\ cache'[key].copy = cache[key].copy
Asking(key) ==
    /\ fetch'[key] = Asked /\ cache'[key].copy = cache[key].copy
    /\ row.status = Absent => ~IsOfOneRow(key)
Answering(key) ==
    /\ fetch[key].stage = "asked" /\ cache'[key].copy = cache[key].copy
    /\ fetch'[key].stage = "answered" /\ fetch'[key].copy.version = version
Refusing(key) ==
    /\ fetch[key].stage = "asked" /\ cache'[key].copy = cache[key].copy
    /\ fetch'[key].stage = "refused" /\ Refused(QueryOf[key])
Expiring(key) ==
    /\ fetch[key].stage = "asked" /\ cache'[key].copy = cache[key].copy
    /\ fetch'[key].stage = "expired" /\ ~account.active
Arriving(key) ==
    /\ fetch'[key] = Idle
    /\ \/ fetch[key].stage = "answered" /\ cache'[key].copy = fetch[key].copy
       \/ fetch[key].stage = "refused" /\ cache'[key].copy = cache[key].copy

Forgetting(key) == fetch'[key] = Idle /\ cache'[key] = NoCopy

Turns(key) ==
    Same(key) \/ Asking(key) \/ Answering(key) \/ Refusing(key) \/ Expiring(key) \/ Arriving(key) \/ Forgetting(key)

LEMMA FromOnKept ==
    ASSUME TypedRow, NEW key \in Keys, Turns(key), NEW v \in 0..version, FromOn(key, v)
    PROVE  FromOn(key, v)'
  <1>1. fetch'[key].stage = "answered" => fetch'[key].copy.version >= v
    <2>1. CASE Same(key)
      BY <2>1 DEF Same, FromOn
    <2>2. CASE Asking(key) \/ Refusing(key) \/ Expiring(key) \/ Arriving(key) \/ Forgetting(key)
      BY <2>2, Entries DEF Asking, Refusing, Expiring, Arriving, Forgetting
    <2>3. CASE Answering(key)
      BY <2>3 DEF Answering, TypedRow
    <2> QED BY <2>1, <2>2, <2>3 DEF Turns
  <1>2. cache'[key].copy = Unread \/ cache'[key].copy.version >= v
    <2>1. CASE Forgetting(key)
      BY <2>1, Entries DEF Forgetting
    <2>2. CASE Arriving(key)
      BY <2>2 DEF Arriving, FromOn
    <2>3. CASE ~Forgetting(key) /\ ~Arriving(key)
      BY <2>3 DEF Turns, Same, Asking, Answering, Refusing, Expiring, FromOn
    <2> QED BY <2>1, <2>2, <2>3
  <1> QED BY <1>1, <1>2 DEF FromOn

LEMMA WillBeKept ==
    ASSUME TypedRow, NEW key \in Keys, Turns(key), ~Refusing(key), ~Expiring(key), NEW v \in 0..version,
           WillBe(key, v)
    PROVE  WillBe(key, v)'
  <1> DEFINE new == cache'[key].copy = Unread \/ cache'[key].copy.version >= v
  <1>0. SUFFICES CASE fetch'[key].stage = "asked"    -> TRUE
                   [] fetch'[key].stage = "answered" -> fetch'[key].copy.version >= v
                   [] OTHER -> new
    BY DEF WillBe
  <1>1. CASE Same(key)
    BY <1>1 DEF Same, WillBe
  <1>2. CASE Asking(key)
    BY <1>2, Entries DEF Asking
  <1>3. CASE Answering(key)
    BY <1>3 DEF Answering, TypedRow
  <1>4. CASE Arriving(key)
    BY <1>4, Entries DEF Arriving, WillBe
  <1>5. CASE Forgetting(key)
    BY <1>5, Entries DEF Forgetting
  <1> QED BY <1>1, <1>2, <1>3, <1>4, <1>5 DEF Turns

LEMMA NoneToShowKept ==
    ASSUME TypedRow, NoneToShow, row' = row, \A key \in Keys : Turns(key)
    PROVE  NoneToShow'
  <1> SUFFICES ASSUME row.status = Absent, NEW key \in Keys, IsOfOneRow(key)
               PROVE  cache'[key].copy = Unread /\ fetch'[key] = Idle
    BY DEF NoneToShow, Keys, IsOfOneRow
  <1>1. cache[key].copy = Unread /\ fetch[key] = Idle
    BY DEF NoneToShow
  <1>2. fetch[key].stage = "idle"
    BY <1>1, Entries
  <1> QED BY <1>1, <1>2, Entries DEF Turns, Same, Asking, Answering, Refusing, Expiring, Arriving, Forgetting

-----------------------------------------------------------------------------
(* Steps that leave the viewer, his page and his calls alone.              *)

\* Steps that neither make nor end the row, nor put another in its place.
SameRow ==
    /\ row'.kind = row.kind /\ row'.ties = row.ties
    /\ row'.status = Absent <=> row.status = Absent
    /\ version' \in Nat /\ version' >= version

SameViewer == token' = token /\ (token = account'.roles => token = account.roles)

LEMMA CallsKept ==
    ASSUME TypedRow, SameRow, SameViewer, click' = click, click.made \in 0..version,
           \A key \in Keys : Turns(key), NEW b, CallsOf(b)
    PROVE  CallsOf(b)'
  <1>1. click.made # 0 /\ b.key = NoKey => \A key \in Keys : IsOfOneRow(key) => FromOn(key, click.made)'
    <2> SUFFICES ASSUME click.made # 0, b.key = NoKey, NEW key \in Keys, IsOfOneRow(key)
                 PROVE  FromOn(key, click.made)'
      BY DEF CallsOf
    <2>1. PICK v \in 0..version : v = click.made
      OBVIOUS
    <2>2. FromOn(key, v)
      BY <2>1 DEF CallsOf
    <2>3. FromOn(key, v)'
      BY <2>2, FromOnKept
    <2> QED BY <2>1, <2>3 DEF FromOn
  <1>2. Keys' = Keys
    BY DEF Keys, SameRow
  <1>3. b.key = NoKey =>
            /\ Len(click.calls) = 1
            /\ click.stage = "sent" => row'.status = Absent
            /\ click.made # 0 => \A key \in Keys : IsOfOneRow(key) => FromOn(key, click.made)'
    BY <1>1 DEF CallsOf, SameRow
  <1>4. click.made # 0 /\ token = account'.roles => ChangesShown(b, row'.kind, row'.ties, token)
    BY DEF CallsOf, SameRow, SameViewer
  <1> QED BY <1>2, <1>3, <1>4 DEF CallsOf, IsOfOneRow, SameViewer

LEMMA TypedClickKept ==
    ASSUME TypedRow, TypedClick, SameRow, SameViewer, click' = click, \A key \in Keys : Turns(key)
    PROVE  TypedClick'
  <1>1. /\ click' = [stage |-> click'.stage, calls |-> click'.calls, refreshes |-> click'.refreshes,
                     goes |-> click'.goes, at |-> click'.at, made |-> click'.made]
        /\ click'.stage \in {"none", "sent", "done", "refused", "expired"}
        /\ click'.stage = "none" => click' = NoClick
        /\ click' # NoClick => click'.at \in Pages
    BY DEF TypedClick
  <1>2. click'.made \in 0..version' /\ (click'.made # 0 => row'.status # Absent)
    BY DEF TypedClick, SameRow, TypedRow
  <1>3. click' # NoClick /\ token' # {} =>
            \E b \in ButtonsAbout(row'.kind, row'.ties, click'.at, token') : CallsOf(b)'
    <2> SUFFICES ASSUME click # NoClick, token # {}
                 PROVE  \E b \in ButtonsAbout(row'.kind, row'.ties, click'.at, token') : CallsOf(b)'
      BY DEF SameViewer
    <2>1. PICK b \in ButtonsAbout(row.kind, row.ties, click.at, token) : CallsOf(b)
      BY DEF TypedClick
    <2>2. CallsOf(b)'
      BY <2>1, CallsKept DEF TypedClick
    <2> QED BY <2>1, <2>2 DEF SameRow, SameViewer
  <1> QED BY <1>1, <1>2, <1>3 DEF TypedClick

\* Who may read the answers of the page is not refused.
LEMMA NotRefused ==
    ASSUME TypedRow, TypedOwn, ChangeArrives, SignedInAsIs, NEW key \in Active(row, page, token), key \in Keys,
           own[key] # 0
    PROVE  ~Refused(QueryOf[key])
  <1>1. row.status \in StatusesOf[row.kind]
    BY DEF TypedRow, TypedOwn
  <1>2. row = RowIn(row.kind, row.ties, row.status)
    BY DEF TypedRow, RowIn
  <1>3. ~Denied(QueryOf[key], RowIn(row.kind, row.ties, row.status), token)
    BY <1>1 DEF ChangeArrives, Reached
  <1> QED BY <1>2, <1>3 DEF Refused, SignedInAsIs

LEMMA ReachedKept ==
    ASSUME TypedRow, TypedOwn, ChangeArrives, SameRow, SameViewer, account'.active => account.active,
           account'.active, token = account'.roles, NEW key \in Active(row, page, token), key \in Keys,
           own'[key] = own[key], Turns(key)
    PROVE  Reached(key)'
  <1> SUFFICES ASSUME own[key] # 0
               PROVE  /\ WillBe(key, own[key])'
                      /\ \A status \in StatusesOf[row'.kind] :
                             ~Denied(QueryOf[key], RowIn(row'.kind, row'.ties, status), token')
    <2>1. PICK v : v = own[key]
      OBVIOUS
    <2> QED BY <2>1 DEF Reached, WillBe
  <1>1. SignedInAsIs
    BY DEF SignedInAsIs, SameViewer
  <1>2. PICK v \in 0..version : v = own[key]
    BY DEF TypedOwn
  <1>3. WillBe(key, v)
    BY <1>1, <1>2 DEF ChangeArrives, Reached
  <1>4. ~Refusing(key) /\ ~Expiring(key)
    BY <1>1, NotRefused DEF Refusing, Expiring, SignedInAsIs
  <1>5. WillBe(key, v)'
    BY <1>3, <1>4, WillBeKept
  <1>6. WillBe(key, own[key])'
    BY <1>2, <1>5 DEF WillBe
  <1>7. \A status \in StatusesOf[row'.kind] :
            ~Denied(QueryOf[key], RowIn(row'.kind, row'.ties, status), token')
    BY <1>1 DEF ChangeArrives, Reached, SameRow, SameViewer
  <1> QED BY <1>6, <1>7

LEMMA ChangeArrivesKept ==
    ASSUME TypedRow, TypedSession, TypedOwn, ChangeArrives, SameRow, SameViewer,
           account'.active => account.active, page' = page, own' = own, \A key \in Keys : Turns(key)
    PROVE  ChangeArrives'
  <1> SUFFICES ASSUME account'.active, token = account'.roles, NEW key \in Active(row', page', token')
               PROVE  Reached(key)'
    BY DEF ChangeArrives, SignedInAsIs, SameViewer
  <1>1. key \in Active(row, page, token)
    BY DEF Active, SameRow, SameViewer
  <1>2. key \in Keys
    BY <1>1, ActiveFits DEF TypedSession, Keys
  <1> QED BY <1>1, <1>2, ReachedKept

-----------------------------------------------------------------------------
(* The query cache.                                                        *)

LEMMA CopyFits ==
    ASSUME TypedRow, NEW q
    PROVE  CopyFor(q) \in Copies /\ CopyFor(q).version = version
  BY DEF CopyFor, Copies, TypedRow

\* Requests and copies turn, and the calls under way may end.
LEMMA StandingBut ==
    ASSUME Steady, UNCHANGED <<row, version, account, token, page, own>>, TypedCache', TypedClick',
           \A key \in Keys : Turns(key),
           account.active => \A key \in Keys : fetch'[key].stage # "expired"
    PROVE  Steady'
  <1>1. SameRow /\ SameViewer
    BY DEF Steady, TypedRow, SameRow, SameViewer
  <1>2. TypedRow'
    BY DEF Steady, TypedRow
  <1>3. TypedSession'
    BY DEF Steady, TypedSession, Keys
  <1>4. TypedOwn'
    BY DEF Steady, TypedOwn, Keys
  <1>5. NoneToShow'
    BY NoneToShowKept DEF Steady
  <1>6. ChangeArrives'
    BY <1>1, ChangeArrivesKept DEF Steady
  <1> QED BY <1>2, <1>3, <1>4, <1>5, <1>6 DEF Steady

LEMMA StandingStill ==
    ASSUME Steady, UNCHANGED <<row, version, account, token, page, own, click>>, TypedCache',
           \A key \in Keys : Turns(key),
           account.active => \A key \in Keys : fetch'[key].stage # "expired"
    PROVE  Steady'
  <1>1. SameRow /\ SameViewer
    BY DEF Steady, TypedRow, SameRow, SameViewer
  <1>2. TypedClick'
    BY <1>1, TypedClickKept DEF Steady
  <1> QED BY <1>2, StandingBut

LEMMA RefetchKeeps ==
    ASSUME Steady, NEW k \in Keys, Refetch(k)
    PROVE  Steady'
  <1>1. UNCHANGED <<row, version, account, token, page, own, click, cache>> /\ fetch' = [fetch EXCEPT ![k] = Asked]
    BY DEF Refetch
  <1>2. fetch \in [Keys -> [stage : Stages, copy : Copies]] /\ version \in Nat
    BY DEF Steady, TypedCache, TypedRow
  <1>3. Asked \in [stage : Stages, copy : Copies]
    BY <1>2, Entries
  <1>4. row.status = Absent => ~IsOfOneRow(k)
    <2>1. k \in Active(row, page, token)
      BY ActiveIs DEF Refetch
    <2> QED BY <2>1, ActiveFits DEF Steady, TypedSession
  <1>5. \A key \in Keys : fetch'[key] = IF key = k THEN Asked ELSE fetch[key]
    BY <1>1, <1>2
  <1>6. TypedCache'
    BY <1>1, <1>2, <1>3 DEF Steady, TypedCache, Keys, Copies
  <1>7. \A key \in Keys : Turns(key)
    BY <1>1, <1>4, <1>5 DEF Turns, Same, Asking
  <1>8. account.active => \A key \in Keys : fetch'[key].stage # "expired"
    BY <1>5, Entries DEF Steady, TypedSession
  <1> QED BY <1>1, <1>6, <1>7, <1>8, StandingStill

LEMMA AnswersKeep ==
    ASSUME Steady, NEW k \in Keys, Answers(k)
    PROVE  Steady'
  <1> DEFINE answer == CASE ~account.active -> [Idle EXCEPT !.stage = "expired"]
                         [] account.active /\ Refused(QueryOf[k]) -> [Idle EXCEPT !.stage = "refused"]
                         [] OTHER -> [stage |-> "answered", copy |-> CopyFor(QueryOf[k])]
  <1>1. /\ UNCHANGED <<row, version, account, token, page, own, click, cache>>
        /\ fetch[k].stage = "asked" /\ fetch' = [fetch EXCEPT ![k] = answer]
    BY DEF Answers
  <1>2. /\ fetch \in [Keys -> [stage : Stages, copy : Copies]] /\ version \in Nat
        /\ account.active \in BOOLEAN
    BY DEF Steady, TypedCache, TypedRow, TypedSession
  <1>3. /\ answer \in [stage : Stages, copy : Copies]
        /\ \/ answer.stage = "answered" /\ answer.copy.version = version
           \/ answer.stage = "refused" /\ Refused(QueryOf[k])
           \/ answer.stage = "expired" /\ ~account.active
    <2>1. CopyFor(QueryOf[k]) \in Copies /\ CopyFor(QueryOf[k]).version = version
      BY CopyFits DEF Steady
    <2>2. Unread \in Copies
      BY <1>2 DEF Unread, Copies
    <2>3. CASE ~account.active
      BY <2>2, <2>3 DEF Idle, Stages
    <2>4. CASE account.active /\ Refused(QueryOf[k])
      BY <2>2, <2>4 DEF Idle, Stages
    <2>5. CASE account.active /\ ~Refused(QueryOf[k])
      BY <2>1, <2>5 DEF Stages
    <2> QED BY <2>3, <2>4, <2>5
  <1> HIDE DEF answer
  <1>4. \A key \in Keys : fetch'[key] = IF key = k THEN answer ELSE fetch[key]
    BY <1>1, <1>2
  <1>5. TypedCache'
    BY <1>1, <1>2, <1>3 DEF Steady, TypedCache, Keys, Copies
  <1>6. \A key \in Keys : Turns(key)
    BY <1>1, <1>3, <1>4 DEF Turns, Same, Answering, Refusing, Expiring
  <1>7. account.active => \A key \in Keys : fetch'[key].stage # "expired"
    BY <1>3, <1>4 DEF Steady, TypedSession
  <1> QED BY <1>1, <1>5, <1>6, <1>7, StandingStill

LEMMA ReceiveKeeps ==
    ASSUME Steady, NEW k \in Keys, Receive(k)
    PROVE  Steady'
  <1>1. /\ UNCHANGED <<row, version, account, token, page, own, click>>
        /\ fetch[k].stage \in {"answered", "refused"} /\ fetch' = [fetch EXCEPT ![k] = Idle]
        /\ cache' = IF fetch[k].stage = "answered"
                      THEN [cache EXCEPT ![k] = [copy |-> fetch[k].copy, invalid |-> FALSE]] ELSE cache
    BY DEF Receive
  <1>2. /\ cache \in [Keys -> [copy : Copies, invalid : BOOLEAN]]
        /\ fetch \in [Keys -> [stage : Stages, copy : Copies]] /\ version \in Nat
    BY DEF Steady, TypedCache, TypedRow
  <1>3. Idle \in [stage : Stages, copy : Copies]
    BY <1>2, Entries
  <1>4. [copy |-> fetch[k].copy, invalid |-> FALSE] \in [copy : Copies, invalid : BOOLEAN]
    BY <1>2
  <1>5. \A key \in Keys : fetch'[key] = IF key = k THEN Idle ELSE fetch[key]
    BY <1>1, <1>2
  <1>6. \A key \in Keys : cache'[key].copy = IF key = k /\ fetch[k].stage = "answered" THEN fetch[k].copy
                                             ELSE cache[key].copy
    BY <1>1, <1>2
  <1>7. TypedCache'
    <2>1. fetch' \in [Keys -> [stage : Stages, copy : Copies]]
      BY <1>1, <1>2, <1>3
    <2>2. cache' \in [Keys -> [copy : Copies, invalid : BOOLEAN]]
      BY <1>1, <1>2, <1>4
    <2>3. Keys' = Keys /\ Copies' = Copies
      BY <1>1 DEF Keys, Copies
    <2> QED BY <2>1, <2>2, <2>3 DEF TypedCache
  <1>8. \A key \in Keys : Turns(key)
    BY <1>1, <1>5, <1>6 DEF Turns, Same, Arriving
  <1>9. account.active => \A key \in Keys : fetch'[key].stage # "expired"
    BY <1>5, Entries DEF Steady, TypedSession
  <1> QED BY <1>1, <1>7, <1>8, <1>9, StandingStill

-----------------------------------------------------------------------------
(* Moving between pages.                                                   *)

LEMMA OpeningAsks ==
    ASSUME Steady, NEW path \in Pages, NEW roles, Refreshing(row.kind, row.ties, roles), NEW stale,
           UNCHANGED <<row, version, cache>>, fetch' = FetchOnOpening(path, roles, stale)
    PROVE  /\ TypedCache' /\ \A key \in Keys : Turns(key)
           /\ account.active => \A key \in Keys : fetch'[key].stage # "expired"
  <1>1. fetch \in [Keys -> [stage : Stages, copy : Copies]] /\ version \in Nat
    BY DEF Steady, TypedCache, TypedRow
  <1>2. Asked \in [stage : Stages, copy : Copies]
    BY <1>1, Entries
  <1>3. \A key \in Keys : \/ fetch'[key] = fetch[key]
                          \/ fetch'[key] = Asked /\ key \in Active(row, path, roles)
    BY ActiveIs DEF FetchOnOpening
  <1>4. fetch' \in [Keys -> [stage : Stages, copy : Copies]]
    BY <1>1, <1>2 DEF FetchOnOpening
  <1>5. TypedCache'
    BY <1>4 DEF Steady, TypedCache, Keys, Copies
  <1>6. \A key \in Keys : Turns(key)
    BY <1>3, ActiveFits DEF Turns, Same, Asking
  <1>7. account.active => \A key \in Keys : fetch'[key].stage # "expired"
    BY <1>3, Entries DEF Steady, TypedSession
  <1> QED BY <1>5, <1>6, <1>7

\* Leaving a page ends what is promised of it.
LEMMA Leaving ==
    ASSUME Steady, UNCHANGED <<row, version, account>>, own' = NothingOwn, page' \in Pages,
           TypedCache', \A key \in Keys : Turns(key), TypedClick',
           token' \in {{}, token, account.roles},
           account.active => \A key \in Keys : fetch'[key].stage # "expired"
    PROVE  Steady'
  <1>1. TypedRow'
    BY DEF Steady, TypedRow
  <1>2. TypedSession'
    <2>1. token' \in {{}, account'.roles} \/ account'.roles = {"EMPLOYEE"}
      BY DEF Steady, TypedSession
    <2>2. \A roles \in {account'.roles, token', {"EMPLOYEE"}, {}} : Refreshing(row'.kind, row'.ties, roles)
      BY DEF Steady, TypedSession
    <2> QED BY <2>1, <2>2 DEF Steady, TypedSession, Keys
  <1>3. TypedOwn'
    <2>1. \A key \in Keys' : own'[key] = 0
      BY DEF NothingOwn, Keys
    <2>2. own' \in [Keys' -> 0..version']
      BY DEF Steady, TypedRow, NothingOwn, Keys
    <2> QED BY <2>1, <2>2 DEF TypedOwn
  <1>4. NoneToShow'
    BY NoneToShowKept DEF Steady
  <1>5. ChangeArrives'
    <2>1. \A key \in Active(row', page', token') : key \in Keys
      BY <1>2, ActiveFits DEF TypedSession, Keys
    <2>2. \A key \in Keys : own'[key] = 0
      BY DEF NothingOwn
    <2> QED BY <2>1, <2>2 DEF ChangeArrives, Reached
  <1> QED BY <1>1, <1>2, <1>3, <1>4, <1>5 DEF Steady

LEMMA NoClickFits ==
    ASSUME version' \in Nat, click' = NoClick
    PROVE  TypedClick'
  BY DEF TypedClick, NoClick

LEMMA SignedOutKeeps ==
    ASSUME Steady, SignedOut, UNCHANGED <<row, version, account>>
    PROVE  Steady'
  <1>1. /\ token' = {} /\ page' = "/login" /\ own' = NothingOwn /\ click' = NoClick
        /\ cache' = [key \in Keys |-> NoCopy] /\ fetch' = [key \in Keys |-> Idle]
    BY DEF SignedOut
  <1>2. version \in Nat
    BY DEF Steady, TypedRow
  <1>3. TypedCache'
    <2>1. Idle \in [stage : Stages, copy : Copies] /\ NoCopy \in [copy : Copies, invalid : BOOLEAN]
      BY <1>2, Entries
    <2>2. Keys' = Keys /\ Copies' = Copies
      BY DEF Keys, Copies
    <2> QED BY <1>1, <2>1, <2>2 DEF TypedCache
  <1>4. \A key \in Keys : Turns(key)
    BY <1>1 DEF Turns, Forgetting
  <1>5. TypedClick'
    BY <1>1, <1>2, NoClickFits
  <1>6. \A key \in Keys : fetch'[key].stage # "expired"
    BY <1>1, Entries
  <1>7. page' \in Pages
    BY <1>1 DEF Pages, PublicPages
  <1> QED BY <1>1, <1>3, <1>4, <1>5, <1>6, <1>7, Leaving

LEMMA VisitKeeps ==
    ASSUME Steady, NEW path, Visit(path)
    PROVE  Steady'
  <1>1. UNCHANGED <<row, version, account, token, cache, click>> /\ own' = NothingOwn
    BY DEF Visit
  <1>2. PICK stale : Open(path, stale)
    BY DEF Visit
  <1>3. page' = Arrives(path, token) /\ fetch' = FetchOnOpening(Arrives(path, token), token, stale)
    BY <1>2 DEF Open
  <1>4. Arrives(path, token) \in Pages
    BY ArrivesFits
  <1>5. Refreshing(row.kind, row.ties, token)
    BY DEF Steady, TypedSession
  <1>6. /\ TypedCache' /\ \A key \in Keys : Turns(key)
        /\ account.active => \A key \in Keys : fetch'[key].stage # "expired"
    BY <1>1, <1>3, <1>4, <1>5, OpeningAsks
  <1>7. TypedClick'
    BY <1>1, <1>6, TypedClickKept DEF Steady, SameRow, SameViewer, TypedRow
  <1> QED BY <1>1, <1>3, <1>4, <1>6, <1>7, Leaving

LEMMA SignOutKeeps ==
    ASSUME Steady, SignOut
    PROVE  Steady'
  <1>1. UNCHANGED <<row, version, account, cache, fetch, click>> /\ token' = {} /\ page' = "/login" /\ own' = NothingOwn
    BY DEF SignOut
  <1>2. TypedCache'
    BY <1>1 DEF Steady, TypedCache, Keys, Copies
  <1>3. \A key \in Keys : Turns(key)
    BY <1>1 DEF Turns, Same
  <1>4. TypedClick'
    BY <1>1 DEF Steady, TypedClick
  <1>5. account.active => \A key \in Keys : fetch'[key].stage # "expired"
    BY <1>1 DEF Steady, TypedSession
  <1>6. page' \in Pages
    BY <1>1 DEF Pages, PublicPages
  <1> QED BY <1>1, <1>2, <1>3, <1>4, <1>5, <1>6, Leaving

LEMMA SignInKeeps ==
    ASSUME Steady, SignIn
    PROVE  Steady'
  <1>1. /\ UNCHANGED <<row, version, account, cache, click, own>>
        /\ token = {} /\ click = NoClick /\ token' = account.roles /\ page' = "/dashboard"
    BY DEF SignIn
  <1>2. PICK stale : fetch' = FetchOnOpening("/dashboard", account.roles, stale)
    BY DEF SignIn
  <1>3. "/dashboard" \in Pages
    BY DEF Pages, OpenPages
  <1>4. Refreshing(row.kind, row.ties, account.roles)
    BY DEF Steady, TypedSession
  <1>5. /\ TypedCache' /\ \A key \in Keys : Turns(key)
        /\ account.active => \A key \in Keys : fetch'[key].stage # "expired"
    BY <1>1, <1>2, <1>3, <1>4, OpeningAsks
  <1>6. own' = NothingOwn
    BY <1>1 DEF Steady, TypedOwn, NothingOwn
  <1>7. TypedClick'
    BY <1>1, NoClickFits DEF Steady, TypedRow
  <1> QED BY <1>1, <1>3, <1>5, <1>6, <1>7, Leaving

-----------------------------------------------------------------------------
(* Calls.                                                                  *)

LEMMA OnlyCalls ==
    ASSUME Steady, UNCHANGED <<row, version, account, token, page, own, cache, fetch>>, TypedClick'
    PROVE  Steady'
  <1>1. TypedRow'
    BY DEF Steady, TypedRow
  <1>2. TypedCache'
    BY DEF Steady, TypedCache, Keys, Copies
  <1>3. TypedSession'
    BY DEF Steady, TypedSession, Keys
  <1>4. TypedOwn' /\ NoneToShow'
    BY DEF Steady, TypedOwn, NoneToShow, Keys
  <1>5. ChangeArrives'
    <2>1. SameRow /\ SameViewer
      BY DEF Steady, TypedRow, SameRow, SameViewer
    <2>2. \A key \in Keys : Turns(key)
      BY DEF Turns, Same
    <2> QED BY <2>1, <2>2, ChangeArrivesKept DEF Steady
  <1> QED BY <1>1, <1>2, <1>3, <1>4, <1>5 DEF Steady

LEMMA PressKeeps ==
    ASSUME Steady, NEW b \in ButtonsOn(page, token), Press(b)
    PROVE  Steady'
  <1>1. /\ UNCHANGED <<row, version, account, token, page, cache, fetch, own>> /\ Offered(b)
        /\ click' = [stage |-> "sent", calls |-> b.calls, refreshes |-> b.refreshes, goes |-> b.goes,
                     at |-> page, made |-> 0]
    BY DEF Press
  <1>2. b \in ButtonsAbout(row.kind, row.ties, page, token)
    BY DEF ButtonsOn
  <1>3. token # {} => CallsOf(b)'
    <2> SUFFICES ASSUME token # {} PROVE CallsOf(b)'
      OBVIOUS
    <2>1. b.calls \in Seq(Seq(STRING)) \ {<<>>} /\ (b.key = NoKey => Len(b.calls) = 1)
      BY <1>2 DEF Steady, TypedSession, Refreshing
    <2>2. b.calls \in Seq(Range(b.calls))
      BY <2>1, SeqOfRange
    <2>3. b.key = NoKey => row'.status = Absent
      BY <1>1 DEF Offered
    <2> QED BY <1>1, <2>1, <2>2, <2>3 DEF CallsOf
  <1>4. page \in Pages /\ version \in Nat
    BY DEF Steady, TypedSession, TypedRow
  <1>5. TypedClick'
    <2>1. \E c \in ButtonsAbout(row'.kind, row'.ties, click'.at, token') : token' # {} => CallsOf(c)'
      BY <1>1, <1>2, <1>3
    <2> QED BY <1>1, <1>4, <2>1 DEF TypedClick
  <1> QED BY <1>1, <1>5, OnlyCalls

\* A call that is only answered, or the next one.
LEMMA StageKeeps ==
    ASSUME Steady, UNCHANGED <<row, version, account, token, page, cache, fetch, own>>, click.stage # "none",
           NEW s \in {"sent", "done", "refused", "expired"}, NEW calls,
           click' = [click EXCEPT !.stage = s, !.calls = calls],
           \A entries : click.calls \in Seq(entries) \ {<<>>} => calls \in Seq(entries) \ {<<>>},
           Len(click.calls) = 1 => calls = click.calls /\ s # "sent"
    PROVE  Steady'
  <1>1. click = [stage |-> click.stage, calls |-> click.calls, refreshes |-> click.refreshes,
                 goes |-> click.goes, at |-> click.at, made |-> click.made]
    BY DEF Steady, TypedClick
  <1>2. click' = [stage |-> s, calls |-> calls, refreshes |-> click.refreshes,
                  goes |-> click.goes, at |-> click.at, made |-> click.made]
    BY <1>1
  <1>3. \A b : CallsOf(b) => CallsOf(b)'
    <2> SUFFICES ASSUME NEW b, CallsOf(b) PROVE CallsOf(b)'
      OBVIOUS
    <2>1. click'.calls \in Seq(Range(b.calls)) \ {<<>>}
      BY <1>2 DEF CallsOf
    <2>2. b.key = NoKey => Len(click'.calls) = 1 /\ click'.stage # "sent"
      BY <1>2 DEF CallsOf
    <2>3. Keys' = Keys
      BY DEF Keys
    <2>4. b.key = NoKey /\ click.made # 0 => \A key \in Keys : IsOfOneRow(key) => FromOn(key, click.made)'
      BY <1>2 DEF CallsOf, FromOn
    <2>5. click'.refreshes = b.refreshes /\ click'.goes = b.goes /\ click'.made = click.made
      BY <1>2 DEF CallsOf
    <2>6. click.made # 0 /\ token = account.roles => ChangesShown(b, row.kind, row.ties, token)
      BY DEF CallsOf
    <2>7. b.key = NoKey /\ click'.made # 0 => \A key \in Keys' : IsOfOneRow(key) => FromOn(key, click.made)'
      BY <2>3, <2>4, <2>5
    <2> QED BY <2>1, <2>2, <2>5, <2>6, <2>7 DEF CallsOf, IsOfOneRow
  <1>4. click # NoClick
    BY DEF NoClick
  <1>5. TypedClick'
    <2>1. click' # NoClick /\ token' # {} =>
              \E b \in ButtonsAbout(row'.kind, row'.ties, click'.at, token') : CallsOf(b)'
      BY <1>2, <1>3, <1>4 DEF Steady, TypedClick
    <2>2. /\ click'.made \in 0..version' /\ (click'.made # 0 => row'.status # Absent)
          /\ click'.at \in Pages
      BY <1>2, <1>4 DEF Steady, TypedClick
    <2> QED BY <1>2, <2>1, <2>2 DEF TypedClick
  <1> QED BY <1>5, OnlyCalls

LEMMA NextCallKeeps ==
    ASSUME Steady, NextCall
    PROVE  Steady'
  <1>1. /\ UNCHANGED <<row, version, account, token, page, cache, fetch, own>>
        /\ click.stage = "done" /\ Len(click.calls) > 1
        /\ click' = [click EXCEPT !.stage = "sent", !.calls = Tail(@)]
    BY DEF NextCall
  <1>2. PICK calls : calls = Tail(click.calls)
    OBVIOUS
  <1>3. ASSUME NEW entries, click.calls \in Seq(entries) \ {<<>>}
        PROVE  calls \in Seq(entries) \ {<<>>}
    <2>1. calls \in Seq(entries) /\ Len(calls) = Len(click.calls) - 1
      BY <1>2, <1>3, HeadTailProperties
    <2>2. Len(click.calls) \in Nat
      BY <1>3, LenProperties
    <2>3. Len(calls) # 0
      BY <1>1, <2>1, <2>2
    <2> QED BY <2>1, <2>3, EmptySeq
  <1>4. click' = [click EXCEPT !.stage = "sent", !.calls = calls]
    BY <1>1, <1>2
  <1>5. ~(Len(click.calls) = 1)
    <2> SUFFICES ASSUME Len(click.calls) = 1 PROVE FALSE
      OBVIOUS
    <2>1. 1 > 1
      BY <1>1
    <2> QED BY <2>1
  <1> QED BY <1>1, <1>3, <1>4, <1>5, StageKeeps

LEMMA FailKeeps ==
    ASSUME Steady, Fail
    PROVE  Steady'
  <1>1. UNCHANGED <<row, version, account, token, page, cache, fetch, own>> /\ click' = NoClick
    BY DEF Fail
  <1>2. TypedClick'
    BY <1>1, NoClickFits DEF Steady, TypedRow
  <1> QED BY <1>1, <1>2, OnlyCalls

\* A change of the row by whoever it is makes no copy newer.
LEMMA RowChanges ==
    ASSUME Steady, NEW s \in StatusesOf[row.kind], row' = [row EXCEPT !.status = s],
           version' \in {version, version + 1}, UNCHANGED <<account, token, page, cache, fetch, own>>, TypedClick'
    PROVE  Steady'
  <1>1. /\ row \in [kind : DOMAIN StatusesOf, status : AnyStatus \cup {Absent}, ties : SUBSET Ties]
        /\ version \in Nat \ {0}
    BY DEF Steady, TypedRow
  <1>2. s \in AnyStatus /\ s # Absent
    BY <1>1, StatusesFit
  <1>3. row'.kind = row.kind /\ row'.ties = row.ties /\ row'.status = s
    BY <1>1
  <1>4. TypedRow'
    <2>1. row' \in [kind : DOMAIN StatusesOf, status : AnyStatus \cup {Absent}, ties : SUBSET Ties]
      BY <1>1, <1>2
    <2> QED BY <1>1, <1>3, <2>1 DEF TypedRow
  <1>5. Keys' = Keys
    BY <1>3 DEF Keys
  <1>6. TypedCache'
    <2>1. \A copy \in Copies : copy \in Copies'
      BY <1>1 DEF Copies
    <2>2. \A c \in [copy : Copies, invalid : BOOLEAN] : c \in [copy : Copies', invalid : BOOLEAN]
      BY <2>1
    <2>3. \A f \in [stage : Stages, copy : Copies] : f \in [stage : Stages, copy : Copies']
      BY <2>1
    <2>4. cache \in [Keys -> [copy : Copies', invalid : BOOLEAN]]
      BY <2>2 DEF Steady, TypedCache
    <2>5. fetch \in [Keys -> [stage : Stages, copy : Copies']]
      BY <2>3 DEF Steady, TypedCache
    <2> QED BY <1>5, <2>4, <2>5 DEF TypedCache
  <1>7. TypedSession'
    BY <1>3, <1>5 DEF Steady, TypedSession
  <1>8. TypedOwn'
    BY <1>1, <1>2, <1>3, <1>5 DEF Steady, TypedOwn
  <1>9. NoneToShow'
    BY <1>2, <1>3 DEF NoneToShow
  <1>10. ChangeArrives'
    <2>1. CASE row.status = Absent
      <3>1. \A key \in Keys : own[key] = 0
        BY <2>1 DEF Steady, TypedOwn
      <3>2. \A key \in Active(row', page', token') : key \in Keys
        BY <1>5, <1>7, ActiveFits DEF TypedSession, Keys
      <3> QED BY <3>1, <3>2 DEF ChangeArrives, Reached
    <2>2. CASE row.status # Absent
      <3>1. SameRow /\ SameViewer
        BY <1>1, <1>2, <1>3, <2>2 DEF SameRow, SameViewer
      <3>2. \A key \in Keys : Turns(key)
        BY DEF Turns, Same
      <3> QED BY <3>1, <3>2, ChangeArrivesKept DEF Steady
    <2> QED BY <2>1, <2>2
  <1> QED BY <1>4, <1>6, <1>7, <1>8, <1>9, <1>10 DEF Steady

LEMMA HandlesKeeps ==
    ASSUME Steady, Handles
    PROVE  Steady'
  <1>1. click.stage = "sent" /\ UNCHANGED <<account, token, page, cache, fetch, own>>
    BY DEF Handles
  <1>2. PICK call : call = Head(click.calls)
    OBVIOUS
  <1>3. CASE /\ account.active
             /\ \E d \in Takes(call) : row' = [row EXCEPT !.status = d.to]
             /\ IF call \in Unshown
                  THEN version' = version /\ click' = [click EXCEPT !.stage = "done"]
                  ELSE version' = version + 1 /\ click' = [click EXCEPT !.stage = "done", !.made = version + 1]
    <2>1. PICK d \in Takes(call) : row' = [row EXCEPT !.status = d.to]
      BY <1>3
    <2>2. d \in Accepted(row, account.roles) /\ d.call = call
      BY DEF Takes
    <2>3. row \in [kind : DOMAIN StatusesOf, status : AnyStatus \cup {Absent}, ties : SUBSET Ties]
      BY DEF Steady, TypedRow
    <2>4. row = RowIn(row.kind, row.ties, row.status)
      BY <2>3 DEF RowIn
    <2>5. row.kind \in DOMAIN StatusesOf /\ row.status \in StatusesOf[row.kind] \cup {Absent}
      BY DEF Steady, TypedRow
    <2>6. d \in Accepted(RowIn(row.kind, row.ties, row.status), account.roles)
      BY <2>2, <2>4
    <2>7. d.to \in StatusesOf[row.kind]
      BY <2>5, <2>6, TargetsFit
    <2>8. PICK s : s = d.to
      OBVIOUS
    <2>9. s # Absent
      BY <2>5, <2>7, <2>8, StatusesFit
    <2>10. row'.kind = row.kind /\ row'.ties = row.ties /\ row'.status = s
      BY <2>1, <2>3, <2>8
    <2>11. version \in Nat \ {0} /\ version' \in {version, version + 1}
      BY <1>3 DEF Steady, TypedRow
    <2>12. PICK made : made = IF call \in Unshown THEN click.made ELSE version + 1
      OBVIOUS
    <2>13. click = [stage |-> click.stage, calls |-> click.calls, refreshes |-> click.refreshes,
                    goes |-> click.goes, at |-> click.at, made |-> click.made]
      BY DEF Steady, TypedClick
    <2>14. click' = [stage |-> "done", calls |-> click.calls, refreshes |-> click.refreshes,
                     goes |-> click.goes, at |-> click.at, made |-> made]
      BY <1>3, <2>12, <2>13
    <2>15. made \in 0..version'
      BY <1>3, <2>11, <2>12 DEF Steady, TypedClick
    <2>16. click # NoClick /\ click.at \in Pages
      BY <1>1 DEF Steady, TypedClick, NoClick
    <2>17. ASSUME NEW b, CallsOf(b)
           PROVE  CallsOf(b)'
      <3>1. /\ click'.refreshes = b.refreshes /\ click'.goes = b.goes
            /\ click'.calls \in Seq(Range(b.calls)) \ {<<>>}
            /\ b.key = NoKey => Len(click'.calls) = 1
        BY <2>14, <2>17 DEF CallsOf
      <3>2. Keys' = Keys
        BY <2>10 DEF Keys
      <3>3. ASSUME b.key = NoKey, made # 0, NEW key \in Keys, IsOfOneRow(key)
            PROVE  FromOn(key, made)
        <4>1. CASE call \in Unshown
          BY <2>12, <2>17, <3>3, <4>1 DEF CallsOf
        <4>2. CASE call \notin Unshown
          <5>1. row.status = Absent
            BY <1>1, <2>17, <3>3 DEF CallsOf
          <5>2. cache[key].copy = Unread /\ fetch[key] = Idle
            BY <3>3, <5>1 DEF Steady, NoneToShow
          <5> QED BY <5>2, Entries DEF FromOn
        <4> QED BY <4>1, <4>2
      <3>4. b.key = NoKey /\ made # 0 => \A key \in Keys' : IsOfOneRow(key) => FromOn(key, made)'
        BY <1>1, <3>2, <3>3 DEF FromOn
      <3>5. ASSUME made # 0, token = account.roles
            PROVE  ChangesShown(b, row.kind, row.ties, token)
        <4>1. CASE call \in Unshown
          BY <2>12, <2>17, <3>5, <4>1 DEF CallsOf
        <4>2. CASE call \notin Unshown
          <5>1. call \in Range(b.calls)
            BY <1>2, <2>17, HeadTailProperties DEF CallsOf
          <5>2. PICK i \in DOMAIN b.calls : b.calls[i] = call
            BY <5>1 DEF Range
          <5>3. \E e \in Accepted(RowIn(row.kind, row.ties, row.status), token) : e.call = b.calls[i]
            BY <2>2, <2>6, <3>5, <5>2
          <5> QED BY <2>5, <4>2, <5>2, <5>3 DEF ChangesShown
        <4> QED BY <4>1, <4>2
      <3>6. click'.made = made /\ click'.stage = "done"
        BY <2>14
      <3>7. click'.made # 0 /\ token' = account'.roles => ChangesShown(b, row'.kind, row'.ties, token')
        BY <1>1, <2>10, <3>5, <3>6
      <3>8. b.key = NoKey /\ click'.made # 0 => \A key \in Keys' : IsOfOneRow(key) => FromOn(key, click.made)'
        BY <3>4, <3>6 DEF FromOn
      <3> QED BY <3>1, <3>6, <3>7, <3>8 DEF CallsOf, IsOfOneRow
    <2>18. TypedClick'
      <3>1. token' # {} => \E b \in ButtonsAbout(row'.kind, row'.ties, click'.at, token') : CallsOf(b)'
        BY <1>1, <2>10, <2>14, <2>16, <2>17 DEF Steady, TypedClick
      <3> QED BY <2>9, <2>10, <2>14, <2>15, <2>16, <3>1 DEF TypedClick
    <2>19. row' = [row EXCEPT !.status = s] /\ s \in StatusesOf[row.kind]
      BY <2>1, <2>7, <2>8
    <2> QED BY <1>1, <2>11, <2>18, <2>19, RowChanges
  <1>4. CASE row' = row /\ version' = version /\ click' = [click EXCEPT !.stage = "refused"]
    <2>1. PICK calls : calls = click.calls
      OBVIOUS
    <2>2. click' = [click EXCEPT !.stage = "refused", !.calls = calls]
      BY <1>4, <2>1 DEF Steady, TypedClick
    <2> QED BY <1>1, <1>4, <2>1, <2>2, StageKeeps
  <1>5. CASE row' = row /\ version' = version /\ click' = [click EXCEPT !.stage = "expired"]
    <2>1. PICK calls : calls = click.calls
      OBVIOUS
    <2>2. click' = [click EXCEPT !.stage = "expired", !.calls = calls]
      BY <1>5, <2>1 DEF Steady, TypedClick
    <2> QED BY <1>1, <1>5, <2>1, <2>2, StageKeeps
  <1> QED BY <1>2, <1>3, <1>4, <1>5 DEF Handles

LEMMA InvalidateAsks ==
    ASSUME Steady, UNCHANGED <<row, version>>, NEW keys, Invalidate(keys)
    PROVE  /\ TypedCache' /\ \A key \in Keys : Turns(key)
           /\ account.active => \A key \in Keys : fetch'[key].stage # "expired"
           /\ \A key \in keys \cap Active(row, page, token) : key \in Keys =>
                  IF FirstRead(key) THEN Same(key) ELSE fetch'[key].stage = "asked"
  <1>1. /\ fetch' = [key \in Keys |-> IF key \in keys \cap Active(row, page, token) /\ ~FirstRead(key)
                                         THEN Asked ELSE fetch[key]]
        /\ cache' = [key \in Keys |-> IF key \in keys THEN [cache[key] EXCEPT !.invalid = TRUE] ELSE cache[key]]
    BY ActiveIs DEF Invalidate
  <1>2. /\ cache \in [Keys -> [copy : Copies, invalid : BOOLEAN]]
        /\ fetch \in [Keys -> [stage : Stages, copy : Copies]] /\ version \in Nat
    BY DEF Steady, TypedCache, TypedRow
  <1>3. Asked \in [stage : Stages, copy : Copies]
    BY <1>2, Entries
  <1>4. Keys' = Keys /\ Copies' = Copies
    BY DEF Keys, Copies
  <1>5. fetch' \in [Keys -> [stage : Stages, copy : Copies]]
    BY <1>1, <1>2, <1>3
  <1>6. cache' \in [Keys -> [copy : Copies, invalid : BOOLEAN]]
    BY <1>1, <1>2
  <1>7. TypedCache'
    BY <1>4, <1>5, <1>6 DEF TypedCache
  <1>8. \A key \in Keys : cache'[key].copy = cache[key].copy
    BY <1>1, <1>2
  <1>9. \A key \in Active(row, page, token) : row.status = Absent => ~IsOfOneRow(key)
    BY ActiveFits DEF Steady, TypedSession
  <1>10. \A key \in Keys : Turns(key)
    BY <1>1, <1>8, <1>9 DEF Turns, Same, Asking
  <1>11. account.active => \A key \in Keys : fetch'[key].stage # "expired"
    BY <1>1, Entries DEF Steady, TypedSession
  <1>12. \A key \in keys \cap Active(row, page, token) : key \in Keys =>
             IF FirstRead(key) THEN Same(key) ELSE fetch'[key].stage = "asked"
    BY <1>1, <1>8, Entries DEF Same
  <1> QED BY <1>7, <1>10, <1>11, <1>12

LEMMA SucceedKeeps ==
    ASSUME Steady, Succeed
    PROVE  Steady'
  <1>1. /\ UNCHANGED <<row, version, account, token>> /\ token # {}
        /\ click.stage = "done" /\ click' = NoClick
        /\ own' = IF click.goes # Stay THEN NothingOwn
                  ELSE IF click.made # 0 /\ click.at = page
                    THEN [key \in Keys |-> IF Overtaken(key) THEN own[key] ELSE click.made] ELSE own
    BY DEF Succeed
  <1>2. TypedClick'
    BY <1>1, NoClickFits DEF Steady, TypedRow
  <1>3. CASE click.goes # Stay
    <2>1. PICK stale : Open(click.goes, stale) /\ cache' = cache
      BY <1>3 DEF Succeed
    <2>2. /\ page' = Arrives(click.goes, token)
          /\ fetch' = FetchOnOpening(Arrives(click.goes, token), token, stale)
      BY <2>1 DEF Open
    <2>3. page' \in Pages
      BY <2>2, ArrivesFits
    <2>4. Refreshing(row.kind, row.ties, token)
      BY DEF Steady, TypedSession
    <2>5. PICK path : path = Arrives(click.goes, token)
      OBVIOUS
    <2>6. path \in Pages /\ fetch' = FetchOnOpening(path, token, stale)
      BY <2>2, <2>3, <2>5
    <2>7. /\ TypedCache' /\ \A key \in Keys : Turns(key)
          /\ account.active => \A key \in Keys : fetch'[key].stage # "expired"
      BY <1>1, <2>1, <2>4, <2>6, OpeningAsks
    <2> QED BY <1>1, <1>2, <1>3, <2>3, <2>7, Leaving
  <1>4. CASE click.goes = Stay
    <2>1. page' = page /\ Invalidate(click.refreshes)
      BY <1>4 DEF Succeed
    <2>2. PICK keys : keys = click.refreshes
      OBVIOUS
    <2>3. Invalidate(keys)
      BY <2>1, <2>2
    <2>4. /\ TypedCache' /\ \A key \in Keys : Turns(key)
          /\ account.active => \A key \in Keys : fetch'[key].stage # "expired"
          /\ \A key \in keys \cap Active(row, page, token) : key \in Keys =>
                 IF FirstRead(key) THEN Same(key) ELSE fetch'[key].stage = "asked"
      BY <1>1, <2>3, InvalidateAsks
    <2>5. TypedRow'
      BY <1>1 DEF Steady, TypedRow
    <2>6. TypedSession'
      BY <1>1, <2>1, <2>4 DEF Steady, TypedSession, Keys
    <2>7. TypedOwn'
      <3>1. Keys' = Keys
        BY <1>1 DEF Keys
      <3>2. own' \in [Keys -> 0..version]
        BY <1>1, <1>4 DEF Steady, TypedOwn, TypedClick
      <3>3. \A key \in Keys : own'[key] # 0 => row.status # Absent
        BY <1>1, <1>4 DEF Steady, TypedOwn, TypedClick
      <3> QED BY <1>1, <3>1, <3>2, <3>3 DEF TypedOwn
    <2>8. NoneToShow'
      BY <1>1, <2>4, NoneToShowKept DEF Steady
    <2>0. SameRow /\ SameViewer
      BY <1>1 DEF Steady, TypedRow, SameRow, SameViewer
    <2>9. CASE own' = own
      <3>2. ChangeArrives'
        BY <1>1, <2>0, <2>1, <2>4, <2>9, ChangeArrivesKept DEF Steady
      <3> QED BY <1>2, <2>4, <2>5, <2>6, <2>7, <2>8, <3>2 DEF Steady
    <2>10. CASE /\ click.made # 0 /\ click.at = page
                /\ own' = [key \in Keys |-> IF Overtaken(key) THEN own[key] ELSE click.made]
      <3>0. PICK made \in 0..version : made = click.made
        BY DEF Steady, TypedClick
      <3>1. click # NoClick
        BY <1>1 DEF NoClick
      <3>2. PICK b \in ButtonsAbout(row.kind, row.ties, page, token) : CallsOf(b)
        BY <1>1, <2>10, <3>1 DEF Steady, TypedClick
      <3>3. ASSUME account.active, token = account.roles, NEW key \in Active(row, page, token)
            PROVE  /\ key \in keys \/ (b.key = NoKey /\ IsOfOneRow(key))
                   /\ \A status \in StatusesOf[row.kind] :
                          ~Denied(QueryOf[key], RowIn(row.kind, row.ties, status), token)
        <4>1. PICK q \in QueriesAbout(row.kind, page, token) : q.key = key
          BY DEF Active
        <4>2. /\ page \in Pages /\ Refreshing(row.kind, row.ties, token)
          BY DEF Steady, TypedSession
        <4>3. b.goes = Stay /\ ChangesShown(b, row.kind, row.ties, token) /\ keys = b.refreshes
          BY <1>4, <2>2, <2>10, <3>2, <3>3 DEF CallsOf
        <4>4. /\ q.key \in b.refreshes \/ (b.key = NoKey /\ q.source \in OfOneRow)
              /\ \A status \in StatusesOf[row.kind] :
                     ~Denied(QueryOf[q.key], RowIn(row.kind, row.ties, status), token)
          BY <1>1, <3>2, <4>2, <4>3 DEF Refreshing
        <4>5. q.source = QueryOf[q.key].source
          BY <4>2 DEF Refreshing
        <4> QED BY <4>1, <4>3, <4>4, <4>5 DEF IsOfOneRow
      <3>4. ASSUME account.active, token = account.roles, NEW key \in Active(row, page, token), key \in Keys,
                   ~Overtaken(key)
            PROVE  WillBe(key, made)'
        <4>1. CASE key \in keys /\ ~FirstRead(key)
          <5>1. fetch'[key].stage = "asked"
            BY <2>4, <3>4, <4>1
          <5> QED BY <5>1 DEF WillBe
        <4>2. CASE key \in keys /\ FirstRead(key)
          <5>1. fetch'[key] = fetch[key] /\ cache'[key].copy = Unread
            BY <2>4, <3>4, <4>2 DEF Same, FirstRead
          <5>2. fetch[key].stage = "answered" => fetch[key].copy.version >= made
            <6>1. fetch[key].stage = "answered" => fetch[key].copy.version \in Nat
              BY <3>4 DEF Steady, TypedCache, Copies
            <6> QED BY <3>0, <3>4, <4>2, <6>1 DEF Overtaken
          <5> QED BY <5>1, <5>2 DEF WillBe
        <4>3. CASE b.key = NoKey /\ IsOfOneRow(key)
          <5>1. FromOn(key, made)
            BY <2>10, <3>0, <3>2, <3>4, <4>3 DEF CallsOf
          <5>2. FromOn(key, made)'
            BY <2>4, <3>4, <5>1, FromOnKept DEF Steady
          <5> QED BY <5>2 DEF FromOn, WillBe
        <4> QED BY <3>3, <3>4, <4>1, <4>2, <4>3
      <3>5. ChangeArrives'
        <4> SUFFICES ASSUME account.active, token = account.roles, NEW key \in Active(row, page, token)
                     PROVE  Reached(key)'
          BY <1>1, <2>1 DEF ChangeArrives, SignedInAsIs, Active
        <4>1. key \in Keys
          BY ActiveFits DEF Steady, TypedSession, Keys
        <4>2. CASE Overtaken(key)
          <5>1. own'[key] = own[key]
            BY <2>10, <4>1, <4>2
          <5> QED BY <1>1, <2>0, <2>4, <4>1, <5>1, ReachedKept DEF Steady
        <4>3. CASE ~Overtaken(key)
          <5>1. WillBe(key, made)'
            BY <3>4, <4>1, <4>3
          <5>2. own'[key] = made
            BY <2>10, <3>0, <4>1, <4>3
          <5>3. WillBe(key, own[key])'
            BY <5>1, <5>2 DEF WillBe
          <5> QED BY <1>1, <3>3, <5>3 DEF Reached
        <4> QED BY <4>2, <4>3
      <3> QED BY <1>2, <2>4, <2>5, <2>6, <2>7, <2>8, <3>5 DEF Steady
    <2> QED BY <1>1, <1>4, <2>9, <2>10
  <1> QED BY <1>3, <1>4

LEMMA BulkFailsKeeps ==
    ASSUME Steady, BulkFails
    PROVE  Steady'
  <1>1. UNCHANGED <<row, version, account, token, page, own>> /\ click' = NoClick
    BY DEF BulkFails
  <1>2. PICK keys : Invalidate(keys)
    BY DEF BulkFails
  <1>3. /\ TypedCache' /\ \A key \in Keys : Turns(key)
        /\ account.active => \A key \in Keys : fetch'[key].stage # "expired"
    BY <1>1, <1>2, InvalidateAsks
  <1>4. TypedClick'
    BY <1>1, NoClickFits DEF Steady, TypedRow
  <1> QED BY <1>1, <1>3, <1>4, StandingBut

-----------------------------------------------------------------------------
(* Others, and the first state.                                            *)

\* What others make of a row is a row of its kind.
LEMMA OthersFit ==
    ASSUME TypedRow, row.status # Absent, NEW to \in ByOthers
    PROVE  to \in StatusesOf[row.kind] /\ to # Absent
  <1>1. /\ row \in [kind : DOMAIN StatusesOf, status : AnyStatus \cup {Absent}, ties : SUBSET Ties]
        /\ row.status \in StatusesOf[row.kind]
    BY DEF TypedRow
  <1>2. to \in StatusesOf[row.kind]
    <2> DEFINE ties == {"requester", "assignee", "report"}
    <2>1. [row EXCEPT !.ties = ties] = RowIn(row.kind, ties, row.status)
      BY <1>1 DEF RowIn
    <2>2. ASSUME NEW d \in Accepted(RowIn(row.kind, ties, row.status), RoleName)
          PROVE  d.to \in StatusesOf[row.kind]
      BY <1>1, <2>2, TargetsFit
    <2>3. \/ \E d \in Accepted(RowIn(row.kind, ties, row.status), RoleName) : to = d.to
          \/ row.kind = "request" /\ to = "RETURNED"
          \/ row.kind = "device" /\ to = "ALLOCATED"
      BY <2>1 DEF ByOthers
    <2>4. row.kind = "request" => "RETURNED" \in StatusesOf[row.kind]
      BY DEF StatusesOf, RequestStatus
    <2>5. row.kind = "device" => "ALLOCATED" \in StatusesOf[row.kind]
      BY DEF StatusesOf, DeviceStatus
    <2> QED BY <2>2, <2>3, <2>4, <2>5
  <1> QED BY <1>1, <1>2, StatusesFit

LEMMA OthersKeep ==
    ASSUME Steady, OthersChange
    PROVE  Steady'
  <1>1. PICK to \in ByOthers : row' = [row EXCEPT !.status = to]
    BY DEF OthersChange
  <1>2. row.status # Absent /\ version' = version + 1 /\ UNCHANGED <<account, token, page, cache, fetch, click, own>>
    BY DEF OthersChange
  <1>3. /\ row \in [kind : DOMAIN StatusesOf, status : AnyStatus \cup {Absent}, ties : SUBSET Ties]
        /\ row.status \in StatusesOf[row.kind] /\ version \in Nat \ {0}
    BY <1>2 DEF Steady, TypedRow
  <1>4. to \in StatusesOf[row.kind] /\ to # Absent
    BY <1>1, <1>2, OthersFit DEF Steady
  <1>5. SameRow /\ SameViewer
    BY <1>1, <1>2, <1>3, <1>4 DEF SameRow, SameViewer
  <1>6. \A key \in Keys : Turns(key)
    BY <1>2 DEF Turns, Same
  <1>7. TypedClick'
    BY <1>2, <1>5, <1>6, TypedClickKept DEF Steady
  <1> QED BY <1>1, <1>2, <1>4, <1>7, RowChanges

\* A token that has the present roles had them before, too.
LEMMA AccountKeeps ==
    ASSUME Steady, AccountChanges
    PROVE  Steady'
  <1>1. /\ UNCHANGED <<row, version, token, page, cache, fetch, click, own>> /\ account.active
        /\ account' \in {[account EXCEPT !.active = FALSE], [account EXCEPT !.roles = {"EMPLOYEE"}]}
    BY DEF AccountChanges
  <1>2. account \in [roles : (SUBSET RoleName) \ {{}}, active : BOOLEAN]
    BY DEF Steady, TypedSession
  <1>3. {"EMPLOYEE"} \in (SUBSET RoleName) \ {{}}
    BY DEF RoleName
  <1>4. /\ account' \in [roles : (SUBSET RoleName) \ {{}}, active : BOOLEAN]
        /\ account'.roles \in {account.roles, {"EMPLOYEE"}}
    BY <1>1, <1>2, <1>3
  <1>5. token \in {{}, account.roles} \/ account.roles = {"EMPLOYEE"}
    BY DEF Steady, TypedSession
  <1>6. SameRow /\ SameViewer
    <2>1. token = account'.roles => token = account.roles
      BY <1>4, <1>5
    <2> QED BY <1>1, <2>1 DEF Steady, TypedRow, SameRow, SameViewer
  <1>7. \A key \in Keys : Turns(key)
    BY <1>1 DEF Turns, Same
  <1>8. TypedRow' /\ TypedOwn' /\ NoneToShow'
    BY <1>1 DEF Steady, TypedRow, TypedOwn, NoneToShow, Keys
  <1>9. TypedCache'
    BY <1>1 DEF Steady, TypedCache, Keys, Copies
  <1>10. TypedSession'
    <2>1. token' \in {{}, account'.roles} \/ account'.roles = {"EMPLOYEE"}
      BY <1>1, <1>4, <1>5
    <2>2. \A roles \in {account'.roles, token', {"EMPLOYEE"}, {}} : Refreshing(row'.kind, row'.ties, roles)
      BY <1>1, <1>4 DEF Steady, TypedSession
    <2>3. account'.active => \A key \in Keys' : fetch'[key].stage # "expired"
      BY <1>1 DEF Steady, TypedSession, Keys
    <2>4. page' \in Pages
      BY <1>1 DEF Steady, TypedSession
    <2> QED BY <1>4, <2>1, <2>2, <2>3, <2>4 DEF TypedSession
  <1>11. TypedClick'
    BY <1>1, <1>6, <1>7, TypedClickKept DEF Steady
  <1>12. ChangeArrives'
    BY <1>1, <1>6, <1>7, ChangeArrivesKept DEF Steady
  <1> QED BY <1>8, <1>9, <1>10, <1>11, <1>12 DEF Steady

LEMMA SteadyFirst ==
    ASSUME PagesRefresh, Init
    PROVE  Steady
  <1>1. PICK scene \in Scenes : /\ row = scene.row /\ token = scene.roles
                                /\ account = [roles |-> scene.roles, active |-> TRUE]
    BY DEF Init
  <1>2. /\ version = 1 /\ own = NothingOwn /\ click = NoClick /\ page \in FirstPages(token)
        /\ cache = [key \in Keys |-> NoCopy]
        /\ fetch = [key \in Keys |-> IF key \in Active(row, page, token) THEN Asked ELSE Idle]
    BY ActiveIs DEF Init
  <1>3. TypedRow
    BY <1>1, <1>2, ScenesAssumption DEF TypedRow
  <1>4. TypedCache
    <2>1. /\ Idle \in [stage : Stages, copy : Copies] /\ Asked \in [stage : Stages, copy : Copies]
          /\ NoCopy \in [copy : Copies, invalid : BOOLEAN]
      BY <1>2, Entries
    <2> QED BY <1>2, <2>1 DEF TypedCache
  <1>5. page \in Pages
    <2>1. Arrives(page, token) = page
      BY <1>2 DEF FirstPages
    <2> QED BY <2>1, ArrivesFits
  <1>6. \A roles \in {account.roles, token, {"EMPLOYEE"}, {}} : Refreshing(row.kind, row.ties, roles)
    BY <1>1 DEF PagesRefresh
  <1>7. TypedSession
    <2>1. account \in [roles : (SUBSET RoleName) \ {{}}, active : BOOLEAN] /\ token \in {{}, account.roles}
      BY <1>1, ScenesAssumption
    <2>2. \A key \in Keys : fetch[key].stage # "expired"
      BY <1>2, Entries
    <2> QED BY <1>5, <1>6, <2>1, <2>2 DEF TypedSession
  <1>8. TypedOwn
    BY <1>2 DEF TypedOwn, NothingOwn
  <1>9. NoneToShow
    <2>1. \A key \in Active(row, page, token) : row.status = Absent => ~IsOfOneRow(key)
      BY <1>5, <1>6, ActiveFits
    <2>2. \A key \in Keys : cache[key].copy = Unread
      BY <1>2, Entries
    <2> QED BY <1>2, <2>1, <2>2 DEF NoneToShow
  <1>10. TypedClick
    BY <1>2 DEF TypedClick, NoClick
  <1>11. ChangeArrives
    <2>1. \A key \in Active(row, page, token) : key \in Keys
      BY <1>5, <1>6, ActiveFits DEF Keys
    <2> QED BY <1>2, <2>1 DEF ChangeArrives, Reached, NothingOwn
  <1> QED BY <1>3, <1>4, <1>7, <1>8, <1>9, <1>10, <1>11 DEF Steady

-----------------------------------------------------------------------------
(* The viewer's own changes.                                               *)

LEMMA SteadyKept ==
    ASSUME Steady, [Next]_vars
    PROVE  Steady'
  <1>1. CASE Fetches
    <2>1. PICK key \in Keys : Refetch(key) \/ Answers(key) \/ Receive(key) \/ ReceiveExpired(key)
      BY <1>1 DEF Fetches
    <2>2. CASE ReceiveExpired(key)
      BY <2>2, SignedOutKeeps DEF ReceiveExpired
    <2> QED BY <2>1, <2>2, RefetchKeeps, AnswersKeep, ReceiveKeeps
  <1>2. CASE Visits
    BY <1>2, SignOutKeeps, SignInKeeps, VisitKeeps DEF Visits
  <1>3. CASE Calls
    <2>1. CASE FailExpired
      BY <2>1, SignedOutKeeps DEF FailExpired
    <2>2. CASE \E b \in ButtonsOn(page, token) : Press(b)
      BY <2>2, PressKeeps
    <2> QED BY <1>3, <2>1, <2>2, HandlesKeeps, NextCallKeeps, SucceedKeeps, FailKeeps, BulkFailsKeeps DEF Calls
  <1>4. CASE OthersChange
    BY <1>4, OthersKeep
  <1>5. CASE AccountChanges
    BY <1>5, AccountKeeps
  <1>6. CASE UNCHANGED vars
    <2>1. UNCHANGED <<row, version, account, token, page, own, cache, fetch, click>>
      BY <1>6 DEF vars
    <2>2. TypedClick'
      BY <2>1 DEF Steady, TypedClick, CallsOf, FromOn, IsOfOneRow, Keys
    <2> QED BY <2>1, <2>2, OnlyCalls
  <1> QED BY <1>1, <1>2, <1>3, <1>4, <1>5, <1>6 DEF Next

LEMMA SteadyShows == Steady => OwnWriteShown
  <1> SUFFICES ASSUME Steady, Settled, SignedInAsIs, NEW key \in Active(row, page, token)
               PROVE  cache[key].copy = Unread \/ cache[key].copy.version >= own[key]
    BY ActiveIs DEF OwnWriteShown
  <1>1. fetch[key] = Idle
    BY ActiveIs DEF Settled
  <1>2. fetch[key].stage = "idle"
    BY <1>1, Entries
  <1>3. key \in Keys
    BY ActiveFits DEF Steady, TypedSession, Keys
  <1>4. own[key] = 0 => cache[key].copy.version >= own[key]
    BY <1>3 DEF Steady, TypedCache, TypedRow, Copies
  <1> QED BY <1>2, <1>4 DEF Steady, ChangeArrives, Reached, WillBe

\* If the pages name the keys they show, then whatever is polled, answered and
\* invalidated in between, a viewer to whom a change has been confirmed is not
\* left with a copy from before it, except under a key whose first read had been
\* answered before the change and was still on its way.
THEOREM OwnChangesShown ==
    ASSUME PagesRefresh
    PROVE  Spec => []OwnWriteShown
  <1>1. Init => Steady
    BY SteadyFirst
  <1>2. Steady /\ [Next]_vars => Steady'
    BY SteadyKept
  <1> QED BY <1>1, <1>2, SteadyShows, PTL DEF Spec

-----------------------------------------------------------------------------
(* What is offered is accepted.                                            *)
(*                                                                         *)
(* A copy shows nothing that was not listed to the viewer with his present *)
(* roles or with those of the scene, and if it is of the present version   *)
(* it shows the row as it is.  A viewer who signs in as an employee after  *)
(* his role was changed is on pages he is led to only.                     *)

\* What a copy of a row in version v can say, read by somebody with roles of readers.
Says(key, copy, r, v, readers) ==
    /\ copy.status \in Showable(key, r.kind, r.ties, readers) \ {Absent}
    /\ copy.version = v => copy.status \in {Unlisted, r.status}

\* The pages on which a viewer of the scene may be who has these roles.
Reach(scene, roles) ==
    IF roles = scene.roles THEN OpenTo(roles)
    ELSE LedTo(scene.row.kind, scene.row.ties, scene.row.status = Absent, roles, {scene.roles, roles})

OfScene(scene) ==
    /\ row.kind = scene.row.kind /\ row.ties = scene.row.ties
    /\ row.status = Absent => scene.row.status = Absent
    /\ account.roles \in {scene.roles, {"EMPLOYEE"}}

OnPages(scene) ==
    token # {} =>
        /\ token \in {scene.roles, {"EMPLOYEE"}}
        /\ page \in Reach(scene, token)
        /\ click # NoClick /\ click.goes # Stay => Arrives(click.goes, token) \in Reach(scene, token)

CopiesSay(scene) ==
    \A key \in Keys :
        /\ Says(key, cache[key].copy, row, version, {scene.roles, account.roles})
        /\ Says(key, fetch[key].copy, row, version, {scene.roles, account.roles})

Led == \E scene \in Scenes : OfScene(scene) /\ OnPages(scene) /\ CopiesSay(scene)

\* Calls whose effect is not shown leave the status as it is.
LEMMA UnshownKeeps ==
    ASSUME NEW kind \in DOMAIN StatusesOf, NEW ties, NEW s, NEW roles,
           NEW d \in Accepted(RowIn(kind, ties, s), roles), d.call \in Unshown
    PROVE  d.to = s
  <1> DEFINE r == RowIn(kind, ties, s)
  <1>0. r.kind = kind /\ r.status = s /\ r.ties = ties
    BY DEF RowIn
  <1> HIDE DEF r
  <1>1. kind \in {"ticket", "request", "purchase", "device", "account", "article"}
    BY DEF StatusesOf
  <1>2. d.call[1] = "attach" \/ d.call[1] = "feedback"
    BY DEF Unshown
  <1>3. CASE kind = "ticket"
    <2>1. d \in TicketCalls(r, roles)
      BY <1>0, <1>3 DEF Accepted, r
    <2> QED BY <2>1, <1>2, <1>0 DEF TicketCalls, Does, When
  <1>4. CASE kind = "request"
    <2>1. d \in RequestCalls(r, roles)
      BY <1>0, <1>4 DEF Accepted, r
    <2> QED BY <2>1, <1>2, <1>0 DEF RequestCalls, Does, When
  <1>5. CASE kind = "device"
    <2>1. d \in DeviceCalls(r, roles)
      BY <1>0, <1>5 DEF Accepted, r
    <2> QED BY <2>1, <1>2, <1>0 DEF DeviceCalls, Does, When
  <1>6. CASE kind = "purchase"
    <2>1. d \in PurchaseCalls(r, roles)
      BY <1>0, <1>6 DEF Accepted, r
    <2> QED BY <2>1, <1>2, <1>0 DEF PurchaseCalls, Does, When
  <1>7. CASE kind = "account"
    <2>1. d \in AccountCalls(r, roles)
      BY <1>0, <1>7 DEF Accepted, r
    <2> QED BY <2>1, <1>2, <1>0 DEF AccountCalls, Does, When
  <1>8. CASE kind = "article"
    <2>1. d \in ArticleCalls(r, roles)
      BY <1>0, <1>8 DEF Accepted, r
    <2> QED BY <2>1, <1>2, <1>0 DEF ArticleCalls, Does, When
  <1> QED BY <1>1, <1>3, <1>4, <1>5, <1>6, <1>7, <1>8

\* Wherever a link points, its follower comes to a page that is open to him.
LEMMA OpenFits ==
    ASSUME NEW path, NEW roles
    PROVE  /\ Arrives(path, roles) \in OpenTo(roles) /\ CatchAll \in OpenTo(roles)
           /\ Arrives(path, roles) \in {path, CatchAll}
  <1>1. CatchAll \in Pages /\ Arrives(CatchAll, roles) = CatchAll
    BY DEF Arrives, CatchAll, Pages, OpenPages
  <1>2. Arrives(path, roles) \in {path, CatchAll}
    BY DEF Arrives
  <1>3. Arrives(path, roles) \in Pages
    BY ArrivesFits
  <1>4. Arrives(Arrives(path, roles), roles) = Arrives(path, roles)
    BY <1>1, <1>2
  <1> QED BY <1>1, <1>2, <1>3, <1>4 DEF OpenTo

LEMMA ReachFits ==
    ASSUME NEW scene, NEW roles
    PROVE  Reach(scene, roles) \subseteq OpenTo(roles) /\ CatchAll \in Reach(scene, roles)
  BY OpenFits DEF Reach, LedTo

LEMMA ShowableGrows ==
    ASSUME NEW key, NEW kind, NEW ties, NEW few, NEW many, few \subseteq many
    PROVE  Showable(key, kind, ties, few) \subseteq Showable(key, kind, ties, many)
  BY DEF Showable

\* A viewer who is not on any page of the scene has been made an employee since.
LEMMA ReadersAre ==
    ASSUME Steady, NEW scene, OfScene(scene), OnPages(scene), token # {}, token # scene.roles
    PROVE  token = {"EMPLOYEE"} /\ account.roles = {"EMPLOYEE"}
  BY DEF Steady, TypedSession, OfScene, OnPages

-----------------------------------------------------------------------------
(* Where pages lead.                                                       *)

\* What the side bar and the links of a page offer is among the pages of the scene.
LEMMA TargetsReached ==
    ASSUME Steady, NEW scene, OfScene(scene), OnPages(scene), CopiesSay(scene), token # {},
           NEW path \in Targets
    PROVE  Arrives(path, token) \in Reach(scene, token)
  <1>1. Arrives(path, token) \in OpenTo(token) /\ Arrives(path, token) \in {path, CatchAll}
    BY OpenFits
  <1>2. CASE token = scene.roles
    BY <1>1, <1>2 DEF Reach
  <1>3. CASE Arrives(path, token) = CatchAll
    BY <1>3, ReachFits
  <1>4. CASE token # scene.roles /\ Arrives(path, token) = path
    <2>1. token = {"EMPLOYEE"} /\ account.roles = {"EMPLOYEE"}
      BY <1>4, ReadersAre
    <2>2. page \in OpenTo(token)
      BY ReachFits DEF OnPages
    <2>3. CASE path \in Menu(token)
      BY <1>1, <1>4, <2>3 DEF Reach, LedTo
    <2>4. CASE \E l \in LinksOn(page, token) : Offers(l) /\ l.path = path
      <3>1. PICK l \in LinksAbout(scene.row.kind, page, token) : Offers(l) /\ l.path = path
        BY <2>4 DEF LinksOn, OfScene
      <3>2. l.key = NoKey \/ l.from \cap Showable(l.key, scene.row.kind, scene.row.ties, {scene.roles, token}) # {}
        <4> SUFFICES ASSUME l.key # NoKey
                     PROVE  l.from \cap Showable(l.key, scene.row.kind, scene.row.ties, {scene.roles, token}) # {}
          OBVIOUS
        <4>1. l.key \in Keys
          BY <3>1 DEF LinksAbout, Keys, OfScene
        <4>2. cache[l.key].copy.status \in l.from
          BY <3>1 DEF Offers, Showing
        <4>3. cache[l.key].copy.status \in Showable(l.key, row.kind, row.ties, {scene.roles, account.roles})
          BY <4>1 DEF CopiesSay, Says
        <4> QED BY <2>1, <4>2, <4>3 DEF OfScene
      <3> QED BY <1>1, <1>4, <2>2, <3>1, <3>2 DEF Reach, LedTo
    <2> QED BY <2>3, <2>4 DEF Targets
  <1> QED BY <1>1, <1>2, <1>3, <1>4

\* So is where a button leads that is pressed.
LEMMA ButtonsReach ==
    ASSUME Steady, NEW scene, OfScene(scene), OnPages(scene), token # {},
           NEW b \in ButtonsOn(page, token), Offered(b)
    PROVE  Arrives(b.goes, token) \in Reach(scene, token)
  <1>1. Arrives(b.goes, token) \in OpenTo(token) /\ Arrives(b.goes, token) \in {b.goes, CatchAll}
    BY OpenFits
  <1>2. CASE token = scene.roles
    BY <1>1, <1>2 DEF Reach
  <1>3. CASE Arrives(b.goes, token) = CatchAll
    BY <1>3, ReachFits
  <1>4. CASE token # scene.roles /\ Arrives(b.goes, token) = b.goes
    <2>1. page \in OpenTo(token)
      BY ReachFits DEF OnPages
    <2>2. b \in ButtonsAbout(scene.row.kind, scene.row.ties, page, token)
      BY DEF ButtonsOn, OfScene
    <2>3. b.key = NoKey => scene.row.status = Absent
      BY DEF Offered, OfScene
    <2> QED BY <1>1, <1>4, <2>1, <2>2, <2>3 DEF Reach, LedTo
  <1> QED BY <1>1, <1>2, <1>3, <1>4

-----------------------------------------------------------------------------
(* Copies.                                                                 *)

\* A step reads nothing: what a key shows it showed, or had received, or it is forgotten.
Brings(key) ==
    /\ cache'[key].copy \in {cache[key].copy, fetch[key].copy, Unread}
    /\ fetch'[key].copy \in {fetch[key].copy, Unread}

LEMMA UnreadSays ==
    ASSUME NEW key, NEW r, NEW v \in Nat \ {0}, NEW readers
    PROVE  Says(key, Unread, r, v, readers)
  BY DEF Says, Showable, Unread, Absent

LEMMA SaysLonger ==
    ASSUME NEW key, NEW copy, NEW r, NEW v, NEW few, NEW many, few \subseteq many, Says(key, copy, r, v, few)
    PROVE  Says(key, copy, r, v, many)
  BY ShowableGrows DEF Says

\* The viewer reads with the roles he has, and has had.
LEMMA ReadersGrow ==
    ASSUME NEW scene, OfScene(scene), account'.roles \in {account.roles, {"EMPLOYEE"}}
    PROVE  {scene.roles, account.roles} \subseteq {scene.roles, account'.roles}
  BY DEF OfScene

LEMMA CopiesCarried ==
    ASSUME Steady, NEW scene, OfScene(scene), CopiesSay(scene), row' = row, version' = version,
           account'.roles \in {account.roles, {"EMPLOYEE"}}, \A key \in Keys : Brings(key)
    PROVE  CopiesSay(scene)'
  <1> DEFINE few == {scene.roles, account.roles}
             many == {scene.roles, account'.roles}
  <1>1. few \subseteq many
    BY ReadersGrow
  <1> HIDE DEF few, many
  <1> SUFFICES ASSUME NEW key \in Keys
               PROVE  Says(key, cache'[key].copy, row, version, many) /\ Says(key, fetch'[key].copy, row, version, many)
    BY DEF CopiesSay, Keys, many
  <1>2. version \in Nat \ {0}
    BY DEF Steady, TypedRow
  <1>3. Says(key, cache[key].copy, row, version, few) /\ Says(key, fetch[key].copy, row, version, few)
    BY DEF CopiesSay, few
  <1>4. /\ Says(key, cache[key].copy, row, version, many) /\ Says(key, fetch[key].copy, row, version, many)
        /\ Says(key, Unread, row, version, many)
    BY <1>1, <1>2, <1>3, SaysLonger, UnreadSays
  <1> QED BY <1>4 DEF Brings

\* When the row changes all copies are of an earlier version.
LEMMA CopiesAge ==
    ASSUME Steady, NEW scene, CopiesSay(scene), NEW to, row' = [row EXCEPT !.status = to], version' = version + 1,
           UNCHANGED <<account, cache, fetch>>
    PROVE  CopiesSay(scene)'
  <1>1. row'.kind = row.kind /\ row'.ties = row.ties /\ version \in Nat
    BY DEF Steady, TypedRow
  <1> SUFFICES ASSUME NEW key \in Keys
               PROVE  /\ Says(key, cache[key].copy, row', version', {scene.roles, account.roles})
                      /\ Says(key, fetch[key].copy, row', version', {scene.roles, account.roles})
    BY <1>1 DEF CopiesSay, Keys
  <1>2. cache[key].copy.version \in 0..version /\ fetch[key].copy.version \in 0..version
    BY DEF Steady, TypedCache, Copies
  <1>3. cache[key].copy.version # version' /\ fetch[key].copy.version # version'
    BY <1>1, <1>2
  <1> QED BY <1>1, <1>3 DEF CopiesSay, Says

\* The server's answer.
LEMMA CopySays ==
    ASSUME Steady, NEW key, NEW first
    PROVE  Says(key, CopyFor(QueryOf[key]), row, version, {first, account.roles})
  <1>1. row = RowIn(row.kind, row.ties, row.status)
    BY DEF Steady, TypedRow, RowIn
  <1> DEFINE q == QueryOf[key]
             listed == row.status \in q.want /\ row.status # Absent /\ Lists(q.source, q.asked, row, account.roles)
  <1>2. CopyFor(q).status = IF listed THEN row.status ELSE Unlisted
    BY DEF CopyFor
  <1>3. Unlisted # Absent /\ Unlisted \in Showable(key, row.kind, row.ties, {first, account.roles})
    BY DEF Unlisted, Absent, Showable
  <1>4. listed => row.status \in Showable(key, row.kind, row.ties, {first, account.roles})
    BY <1>1 DEF Showable
  <1> QED BY <1>2, <1>3, <1>4 DEF Says

-----------------------------------------------------------------------------
(* The steps.                                                              *)

\* Steps that leave the row, the viewer, his page and his calls alone.
LEMMA StillLed ==
    ASSUME Steady, NEW scene \in Scenes, OfScene(scene), OnPages(scene), CopiesSay(scene)',
           UNCHANGED <<row, account, token, page, click>>
    PROVE  Led'
  <1>1. OfScene(scene)' /\ OnPages(scene)'
    BY DEF OfScene, OnPages
  <1> QED BY <1>1 DEF Led

LEMMA RefetchLed ==
    ASSUME Steady, Led, NEW k \in Keys, Refetch(k)
    PROVE  Led'
  <1>1. PICK scene \in Scenes : OfScene(scene) /\ OnPages(scene) /\ CopiesSay(scene)
    BY DEF Led
  <1>2. UNCHANGED <<row, version, account, token, page, cache, click>> /\ fetch' = [fetch EXCEPT ![k] = Asked]
    BY DEF Refetch
  <1>3. fetch \in [Keys -> [stage : Stages, copy : Copies]]
    BY DEF Steady, TypedCache
  <1>4. \A key \in Keys : Brings(key)
    BY <1>2, <1>3, Entries DEF Brings
  <1>5. CopiesSay(scene)'
    BY <1>1, <1>2, <1>4, CopiesCarried
  <1> QED BY <1>1, <1>2, <1>5, StillLed

LEMMA AnswersLed ==
    ASSUME Steady, Led, NEW k \in Keys, Answers(k)
    PROVE  Led'
  <1>1. PICK scene \in Scenes : OfScene(scene) /\ OnPages(scene) /\ CopiesSay(scene)
    BY DEF Led
  <1>2. UNCHANGED <<row, version, account, token, page, cache, click>>
    BY DEF Answers
  <1>3. fetch \in [Keys -> [stage : Stages, copy : Copies]] /\ version \in Nat \ {0}
    BY DEF Steady, TypedCache, TypedRow
  <1>4. \A key \in Keys : fetch'[key].copy \in {fetch[key].copy, Unread}
                              \/ fetch'[key].copy = CopyFor(QueryOf[key])
    BY <1>3, Entries DEF Answers, Idle
  <1> DEFINE readers == {scene.roles, account.roles}
  <1>5. ASSUME NEW key \in Keys
        PROVE  Says(key, cache[key].copy, row, version, readers) /\ Says(key, fetch'[key].copy, row, version, readers)
    <2>1. Says(key, cache[key].copy, row, version, readers) /\ Says(key, fetch[key].copy, row, version, readers)
      BY <1>1 DEF CopiesSay
    <2>2. Says(key, Unread, row, version, readers) /\ Says(key, CopyFor(QueryOf[key]), row, version, readers)
      BY <1>3, UnreadSays, CopySays
    <2> HIDE DEF readers
    <2> QED BY <1>4, <2>1, <2>2
  <1>6. CopiesSay(scene)'
    BY <1>2, <1>5 DEF CopiesSay, Keys
  <1> QED BY <1>1, <1>2, <1>6, StillLed

LEMMA ReceiveLed ==
    ASSUME Steady, Led, NEW k \in Keys, Receive(k)
    PROVE  Led'
  <1>1. PICK scene \in Scenes : OfScene(scene) /\ OnPages(scene) /\ CopiesSay(scene)
    BY DEF Led
  <1>2. /\ UNCHANGED <<row, version, account, token, page, click>> /\ fetch' = [fetch EXCEPT ![k] = Idle]
        /\ cache' \in {cache, [cache EXCEPT ![k] = [copy |-> fetch[k].copy, invalid |-> FALSE]]}
    BY DEF Receive
  <1>3. cache \in [Keys -> [copy : Copies, invalid : BOOLEAN]] /\ fetch \in [Keys -> [stage : Stages, copy : Copies]]
    BY DEF Steady, TypedCache
  <1>4. \A key \in Keys : Brings(key)
    BY <1>2, <1>3, Entries DEF Brings
  <1>5. CopiesSay(scene)'
    BY <1>1, <1>2, <1>4, CopiesCarried
  <1> QED BY <1>1, <1>2, <1>5, StillLed

\* Steps after which nobody is signed in.
LEMMA SignedOutLed ==
    ASSUME Steady, Led, UNCHANGED <<row, version, account>>, SignedOut \/ SignOut
    PROVE  Led'
  <1>1. PICK scene \in Scenes : OfScene(scene) /\ OnPages(scene) /\ CopiesSay(scene)
    BY DEF Led
  <1>2. token' = {}
    BY DEF SignedOut, SignOut
  <1>3. \A key \in Keys : Brings(key)
    BY Entries DEF Brings, SignedOut, SignOut
  <1>4. CopiesSay(scene)'
    BY <1>1, <1>3, CopiesCarried
  <1>5. OfScene(scene)' /\ OnPages(scene)'
    BY <1>1, <1>2 DEF OfScene, OnPages
  <1> QED BY <1>4, <1>5 DEF Led

LEMMA OpeningBrings ==
    ASSUME NEW path, NEW roles, NEW stale, UNCHANGED cache, fetch' = FetchOnOpening(path, roles, stale)
    PROVE  \A key \in Keys : Brings(key)
  BY Entries DEF Brings, FetchOnOpening

LEMMA SignInLed ==
    ASSUME Steady, Led, SignIn
    PROVE  Led'
  <1>1. PICK scene \in Scenes : OfScene(scene) /\ OnPages(scene) /\ CopiesSay(scene)
    BY DEF Led
  <1>2. /\ UNCHANGED <<row, version, account, cache, click>> /\ click = NoClick
        /\ token' = account.roles /\ page' = CatchAll
    BY DEF SignIn, CatchAll
  <1>3. \A key \in Keys : Brings(key)
    BY OpeningBrings DEF SignIn
  <1>4. CopiesSay(scene)'
    BY <1>1, <1>2, <1>3, CopiesCarried
  <1>5. page' \in Reach(scene, token')
    BY <1>2, ReachFits
  <1>6. OfScene(scene)' /\ OnPages(scene)'
    BY <1>1, <1>2, <1>5 DEF OfScene, OnPages
  <1> QED BY <1>4, <1>6 DEF Led

LEMMA VisitLed ==
    ASSUME Steady, Led, NEW path, Visit(path)
    PROVE  Led'
  <1>1. PICK scene \in Scenes : OfScene(scene) /\ OnPages(scene) /\ CopiesSay(scene)
    BY DEF Led
  <1>2. /\ UNCHANGED <<row, version, account, token, cache, click>> /\ token # {} /\ path \in Targets
        /\ page' = Arrives(path, token)
    BY DEF Visit, Open
  <1>3. \A key \in Keys : Brings(key)
    BY OpeningBrings DEF Visit, Open
  <1>4. CopiesSay(scene)'
    BY <1>1, <1>2, <1>3, CopiesCarried
  <1>5. page' \in Reach(scene, token)
    BY <1>1, <1>2, TargetsReached
  <1>6. OfScene(scene)' /\ OnPages(scene)'
    BY <1>1, <1>2, <1>5 DEF OfScene, OnPages
  <1> QED BY <1>4, <1>6 DEF Led

LEMMA PressLed ==
    ASSUME Steady, Led, NEW b \in ButtonsOn(page, token), Press(b)
    PROVE  Led'
  <1>1. PICK scene \in Scenes : OfScene(scene) /\ OnPages(scene) /\ CopiesSay(scene)
    BY DEF Led
  <1>2. /\ UNCHANGED <<row, version, account, token, page, cache, fetch>> /\ Offered(b)
        /\ click'.goes = b.goes
    BY DEF Press
  <1>3. \A key \in Keys : Brings(key)
    BY <1>2 DEF Brings
  <1>4. CopiesSay(scene)'
    BY <1>1, <1>2, <1>3, CopiesCarried
  <1>5. token # {} => Arrives(b.goes, token) \in Reach(scene, token)
    BY <1>1, <1>2, ButtonsReach
  <1>6. OfScene(scene)' /\ OnPages(scene)'
    BY <1>1, <1>2, <1>5 DEF OfScene, OnPages
  <1> QED BY <1>4, <1>6 DEF Led

\* The stage of the calls moves on.
LEMMA OnPagesKept ==
    ASSUME Steady, NEW scene, OnPages(scene), UNCHANGED <<token, page>>,
           click' = NoClick \/ (click # NoClick /\ click'.goes = click.goes)
    PROVE  OnPages(scene)'
  BY DEF OnPages

LEMMA HandlesLed ==
    ASSUME Steady, Led, Handles
    PROVE  Led'
  <1>1. PICK scene \in Scenes : OfScene(scene) /\ OnPages(scene) /\ CopiesSay(scene)
    BY DEF Led
  <1>2. UNCHANGED <<account, token, page, cache, fetch>> /\ click.stage = "sent"
    BY DEF Handles
  <1>3. /\ click = [stage |-> click.stage, calls |-> click.calls, refreshes |-> click.refreshes,
                    goes |-> click.goes, at |-> click.at, made |-> click.made]
        /\ click # NoClick
    BY <1>2 DEF Steady, TypedClick, NoClick
  <1>4. click'.goes = click.goes
    BY <1>3 DEF Handles
  <1>5. OnPages(scene)'
    BY <1>1, <1>2, <1>3, <1>4, OnPagesKept
  <1>6. row.kind \in DOMAIN StatusesOf /\ row.status \in StatusesOf[row.kind] \cup {Absent}
        /\ row = RowIn(row.kind, row.ties, row.status)
    BY DEF Steady, TypedRow, RowIn
  <1>7. \A key \in Keys : Brings(key)
    BY <1>2 DEF Brings
  <1>8. CASE UNCHANGED <<row, version>>
    <2>1. OfScene(scene)' /\ CopiesSay(scene)'
      BY <1>1, <1>2, <1>7, <1>8, CopiesCarried DEF OfScene
    <2> QED BY <1>5, <2>1 DEF Led
  <1>9. ASSUME NEW d \in Takes(Head(click.calls)), row' = [row EXCEPT !.status = d.to],
               version' = IF Head(click.calls) \in Unshown THEN version ELSE version + 1
        PROVE  Led'
    <2>1. d \in Accepted(RowIn(row.kind, row.ties, row.status), account.roles) /\ d.call = Head(click.calls)
      BY <1>6 DEF Takes
    <2>2. d.to # Absent
      BY <1>6, <2>1, TargetsFit, StatusesFit
    <2>3. row'.kind = row.kind /\ row'.ties = row.ties /\ row'.status = d.to
      BY <1>9 DEF Steady, TypedRow
    <2>4. OfScene(scene)'
      BY <1>1, <1>2, <2>2, <2>3 DEF OfScene
    <2>5. CASE Head(click.calls) \in Unshown
      <3>1. d.to = row.status
        BY <1>6, <2>1, <2>5, UnshownKeeps
      <3>2. row' = row /\ version' = version
        BY <1>9, <2>5, <3>1 DEF Steady, TypedRow
      <3> QED BY <1>8, <3>2
    <2>6. CASE Head(click.calls) \notin Unshown
      <3>1. CopiesSay(scene)'
        BY <1>1, <1>2, <1>9, <2>6, CopiesAge
      <3> QED BY <1>5, <2>4, <3>1 DEF Led
    <2> QED BY <2>5, <2>6
  <1> QED BY <1>8, <1>9 DEF Handles

LEMMA NextCallLed ==
    ASSUME Steady, Led, NextCall
    PROVE  Led'
  <1>1. PICK scene \in Scenes : OfScene(scene) /\ OnPages(scene) /\ CopiesSay(scene)
    BY DEF Led
  <1>2. UNCHANGED <<row, version, account, token, page, cache, fetch>> /\ click.stage = "done"
    BY DEF NextCall
  <1>3. /\ click = [stage |-> click.stage, calls |-> click.calls, refreshes |-> click.refreshes,
                    goes |-> click.goes, at |-> click.at, made |-> click.made]
        /\ click # NoClick
    BY <1>2 DEF Steady, TypedClick, NoClick
  <1>4. click'.goes = click.goes
    BY <1>3 DEF NextCall
  <1>5. OnPages(scene)'
    BY <1>1, <1>2, <1>3, <1>4, OnPagesKept
  <1>6. \A key \in Keys : Brings(key)
    BY <1>2 DEF Brings
  <1>7. OfScene(scene)' /\ CopiesSay(scene)'
    BY <1>1, <1>2, <1>6, CopiesCarried DEF OfScene
  <1> QED BY <1>5, <1>7 DEF Led

LEMMA SucceedLed ==
    ASSUME Steady, Led, Succeed
    PROVE  Led'
  <1>1. PICK scene \in Scenes : OfScene(scene) /\ OnPages(scene) /\ CopiesSay(scene)
    BY DEF Led
  <1>2. UNCHANGED <<row, version, account, token>> /\ click' = NoClick /\ token # {} /\ click # NoClick
    BY DEF Succeed, NoClick
  <1>3. \A key \in Keys : Brings(key)
    <2>1. CASE click.goes = Stay
      <3>1. Invalidate(click.refreshes)
        BY <2>1 DEF Succeed
      <3> QED BY <3>1, Entries DEF Invalidate, Brings
    <2>2. CASE click.goes # Stay
      BY <2>2, OpeningBrings DEF Succeed, Open
    <2> QED BY <2>1, <2>2
  <1>4. OfScene(scene)' /\ CopiesSay(scene)'
    BY <1>1, <1>2, <1>3, CopiesCarried DEF OfScene
  <1>5. page' = page \/ (click.goes # Stay /\ page' = Arrives(click.goes, token))
    BY DEF Succeed, Open
  <1>6. page' \in Reach(scene, token)
    BY <1>1, <1>2, <1>5 DEF OnPages
  <1>7. OnPages(scene)'
    BY <1>1, <1>2, <1>6 DEF OnPages
  <1> QED BY <1>4, <1>7 DEF Led

LEMMA BulkFailsLed ==
    ASSUME Steady, Led, BulkFails
    PROVE  Led'
  <1>1. PICK scene \in Scenes : OfScene(scene) /\ OnPages(scene) /\ CopiesSay(scene)
    BY DEF Led
  <1>2. UNCHANGED <<row, version, account, token, page>> /\ click' = NoClick
    BY DEF BulkFails
  <1>3. \A key \in Keys : Brings(key)
    BY Entries DEF BulkFails, Invalidate, Brings
  <1>4. OfScene(scene)' /\ CopiesSay(scene)'
    BY <1>1, <1>2, <1>3, CopiesCarried DEF OfScene
  <1>5. OnPages(scene)'
    BY <1>1, <1>2 DEF OnPages
  <1> QED BY <1>4, <1>5 DEF Led

LEMMA FailLed ==
    ASSUME Steady, Led, Fail
    PROVE  Led'
  <1>1. PICK scene \in Scenes : OfScene(scene) /\ OnPages(scene) /\ CopiesSay(scene)
    BY DEF Led
  <1>2. UNCHANGED <<row, version, account, token, page, cache, fetch>> /\ click' = NoClick
    BY DEF Fail
  <1>3. \A key \in Keys : Brings(key)
    BY <1>2 DEF Brings
  <1>4. OfScene(scene)' /\ CopiesSay(scene)'
    BY <1>1, <1>2, <1>3, CopiesCarried DEF OfScene
  <1>5. OnPages(scene)'
    BY <1>1, <1>2, OnPagesKept
  <1> QED BY <1>4, <1>5 DEF Led

LEMMA OthersLed ==
    ASSUME Steady, Led, OthersChange
    PROVE  Led'
  <1>1. PICK scene \in Scenes : OfScene(scene) /\ OnPages(scene) /\ CopiesSay(scene)
    BY DEF Led
  <1>2. PICK to \in ByOthers : row' = [row EXCEPT !.status = to]
    BY DEF OthersChange
  <1>3. row.status # Absent /\ version' = version + 1 /\ UNCHANGED <<account, token, page, cache, fetch, click, own>>
    BY DEF OthersChange
  <1>4. row'.kind = row.kind /\ row'.ties = row.ties
    BY <1>2 DEF Steady, TypedRow
  <1>5. row'.status # Absent
    BY <1>2, <1>3, OthersFit DEF Steady, TypedRow
  <1>6. OfScene(scene)' /\ OnPages(scene)'
    BY <1>1, <1>3, <1>4, <1>5 DEF OfScene, OnPages
  <1>7. CopiesSay(scene)'
    BY <1>1, <1>2, <1>3, CopiesAge
  <1> QED BY <1>6, <1>7 DEF Led

LEMMA AccountLed ==
    ASSUME Steady, Led, AccountChanges
    PROVE  Led'
  <1>1. PICK scene \in Scenes : OfScene(scene) /\ OnPages(scene) /\ CopiesSay(scene)
    BY DEF Led
  <1>2. /\ UNCHANGED <<row, version, token, page, cache, fetch, click>>
        /\ account' \in {[account EXCEPT !.active = FALSE], [account EXCEPT !.roles = {"EMPLOYEE"}]}
    BY DEF AccountChanges
  <1>3. account'.roles \in {account.roles, {"EMPLOYEE"}}
    BY <1>2 DEF Steady, TypedSession
  <1>4. \A key \in Keys : Brings(key)
    BY <1>2 DEF Brings
  <1>5. CopiesSay(scene)'
    BY <1>1, <1>2, <1>3, <1>4, CopiesCarried
  <1>6. OfScene(scene)' /\ OnPages(scene)'
    BY <1>1, <1>2, <1>3 DEF OfScene, OnPages
  <1> QED BY <1>5, <1>6 DEF Led

LEMMA LedFirst ==
    ASSUME Init
    PROVE  Led
  <1>1. PICK scene \in Scenes : /\ row = scene.row /\ token = scene.roles
                                /\ account = [roles |-> scene.roles, active |-> TRUE]
    BY DEF Init
  <1>2. /\ version = 1 /\ click = NoClick /\ page \in FirstPages(token)
        /\ cache = [key \in Keys |-> NoCopy]
        /\ fetch = [key \in Keys |-> IF key \in ActiveKeys(page, token) THEN Asked ELSE Idle]
    BY DEF Init
  <1>3. \A key \in Keys : cache[key].copy = Unread /\ fetch[key].copy = Unread
    BY <1>2, Entries
  <1>4. CopiesSay(scene)
    BY <1>2, <1>3, UnreadSays DEF CopiesSay
  <1>5. page \in Reach(scene, token)
    <2>1. Arrives(page, token) = page
      BY <1>2 DEF FirstPages
    <2>2. page \in OpenTo(token)
      BY <2>1, OpenFits
    <2> QED BY <1>1, <2>2 DEF Reach
  <1>6. OfScene(scene) /\ OnPages(scene)
    BY <1>1, <1>2, <1>5 DEF OfScene, OnPages
  <1> QED BY <1>4, <1>6 DEF Led

LEMMA LedKept ==
    ASSUME Steady, Led, [Next]_vars
    PROVE  Led'
  <1>1. CASE Fetches
    <2>1. PICK key \in Keys : Refetch(key) \/ Answers(key) \/ Receive(key) \/ ReceiveExpired(key)
      BY <1>1 DEF Fetches
    <2>2. CASE ReceiveExpired(key)
      BY <2>2, SignedOutLed DEF ReceiveExpired
    <2> QED BY <2>1, <2>2, RefetchLed, AnswersLed, ReceiveLed
  <1>2. CASE Visits
    <2>1. CASE SignOut
      BY <2>1, SignedOutLed DEF SignOut
    <2> QED BY <1>2, <2>1, SignInLed, VisitLed DEF Visits
  <1>3. CASE Calls
    <2>1. CASE FailExpired
      BY <2>1, SignedOutLed DEF FailExpired
    <2>2. CASE \E b \in ButtonsOn(page, token) : Press(b)
      BY <2>2, PressLed
    <2> QED BY <1>3, <2>1, <2>2, HandlesLed, NextCallLed, SucceedLed, FailLed, BulkFailsLed DEF Calls
  <1>4. CASE OthersChange
    BY <1>4, OthersLed
  <1>5. CASE AccountChanges
    BY <1>5, AccountLed
  <1>6. CASE UNCHANGED vars
    <2>1. UNCHANGED <<row, version, account, token, page, cache, fetch, click>>
      BY <1>6 DEF vars
    <2>2. PICK scene \in Scenes : OfScene(scene) /\ OnPages(scene) /\ CopiesSay(scene)
      BY DEF Led
    <2>3. OfScene(scene)' /\ OnPages(scene)' /\ CopiesSay(scene)'
      BY <2>1, <2>2 DEF OfScene, OnPages, CopiesSay, Keys
    <2> QED BY <2>3 DEF Led
  <1> QED BY <1>1, <1>2, <1>3, <1>4, <1>5, <1>6 DEF Next

-----------------------------------------------------------------------------
(* The comparison.                                                         *)

\* On the pages the viewer may be on, the pages agree with the server.
LEMMA PagesOfSceneAgree ==
    ASSUME PagesAgree, Steady, NEW scene \in Scenes, OfScene(scene), OnPages(scene), SignedInAsIs
    PROVE  Agreeing(Reach(scene, token), row.kind, row.ties, token, {scene.roles, account.roles})
  <1>1. token # {} /\ token = account.roles
    BY DEF Steady, TypedSession, SignedInAsIs
  <1>2. CASE token = scene.roles
    <2>1. Agreeing(OpenTo(scene.roles), scene.row.kind, scene.row.ties, scene.roles, {scene.roles})
      BY DEF PagesAgree
    <2>2. Reach(scene, token) = OpenTo(scene.roles) /\ {scene.roles, account.roles} = {scene.roles}
      BY <1>1, <1>2 DEF Reach
    <2> QED BY <1>2, <2>1, <2>2 DEF OfScene
  <1>3. CASE token # scene.roles
    <2> DEFINE employee == {"EMPLOYEE"}
               both == {scene.roles, employee}
    <2>1. Agreeing(LedTo(scene.row.kind, scene.row.ties, scene.row.status = Absent, employee, both),
                   scene.row.kind, scene.row.ties, employee, both)
      BY DEF PagesAgree
    <2>2. token = employee /\ account.roles = employee
      BY <1>1, <1>3, ReadersAre
    <2>3. Reach(scene, token) = LedTo(scene.row.kind, scene.row.ties, scene.row.status = Absent, employee, both)
      BY <1>3, <2>2 DEF Reach
    <2> QED BY <2>1, <2>2, <2>3 DEF OfScene
  <1> QED BY <1>2, <1>3

LEMMA LedOffers ==
    ASSUME PagesAgree, Steady, Led
    PROVE  OfferedIsAccepted
  <1> SUFFICES ASSUME SignedInAsIs
               PROVE  /\ \A b \in ButtonsOn(page, token) :
                             Offered(b) /\ (b.key # NoKey => IsCurrent(b.key)) =>
                                 Takes(b.calls[1]) # {} \/ InVain(b, row.ties, token)
                      /\ \A l \in LinksOn(page, token) : Offers(l) => Arrives(l.path, token) = l.path
    BY DEF OfferedIsAccepted
  <1>1. PICK scene \in Scenes : OfScene(scene) /\ OnPages(scene) /\ CopiesSay(scene)
    BY DEF Led
  <1> DEFINE readers == {scene.roles, account.roles}
  <1>2. Agreeing(Reach(scene, token), row.kind, row.ties, token, readers)
    BY <1>1, PagesOfSceneAgree
  <1>3. token = account.roles /\ token # {}
    BY DEF SignedInAsIs, Steady, TypedSession
  <1>4. page \in Reach(scene, token)
    BY <1>1, <1>3 DEF OnPages
  <1>5. ASSUME NEW b \in ButtonsOn(page, token), Offered(b), b.key # NoKey => IsCurrent(b.key)
        PROVE  Takes(b.calls[1]) # {} \/ InVain(b, row.ties, token)
    <2>1. b \in ButtonsAbout(row.kind, row.ties, page, token)
      BY DEF ButtonsOn
    <2>2. row.ties \cap b.unless = {}
      BY <1>5 DEF Offered
    <2>3. Unlisted \notin b.from
      BY <1>2, <1>4, <2>1 DEF Agreeing
    <2>4. row.status \in IF b.key = NoKey THEN {Absent}
                         ELSE b.from \cap StatusesOf[row.kind] \cap Showable(b.key, row.kind, row.ties, readers)
      <3>1. CASE b.key = NoKey
        BY <1>5, <3>1 DEF Offered
      <3>2. CASE b.key # NoKey
        <4>1. b.key \in Keys
          BY <2>1, <3>2 DEF ButtonsAbout, Keys
        <4>2. cache[b.key].copy.status \in b.from /\ cache[b.key].copy.version = version
          BY <1>5, <3>2 DEF Offered, Showing, IsCurrent
        <4>3. Says(b.key, cache[b.key].copy, row, version, readers)
          BY <1>1, <4>1 DEF CopiesSay
        <4>4. cache[b.key].copy.status = row.status
          BY <2>3, <4>2, <4>3 DEF Says
        <4>5. row.status \in StatusesOf[row.kind]
          BY <4>3, <4>4 DEF Says, Steady, TypedRow
        <4> QED BY <3>2, <4>2, <4>3, <4>4, <4>5 DEF Says
      <3> QED BY <3>1, <3>2
    <2>5. \/ \E d \in Accepted(RowIn(row.kind, row.ties, row.status), token) : d.call = b.calls[1]
          \/ InVain(b, row.ties, token)
      BY <1>2, <1>4, <2>1, <2>2, <2>4 DEF Agreeing
    <2>6. row = RowIn(row.kind, row.ties, row.status)
      BY DEF Steady, TypedRow, RowIn
    <2> QED BY <1>3, <2>5, <2>6 DEF Takes
  <1>6. ASSUME NEW l \in LinksOn(page, token)
        PROVE  Arrives(l.path, token) = l.path
    BY <1>2, <1>4 DEF Agreeing, LinksOn
  <1> QED BY <1>5, <1>6

\* If the tables of the pages agree with the rules of the server, then so does
\* what a viewer is offered, whatever is cached, changed by others, read with
\* roles he has lost, and in whatever order the answers come.
THEOREM OffersAreAccepted ==
    ASSUME PagesRefresh, PagesAgree
    PROVE  Spec => []OfferedIsAccepted
  <1>1. Init => Steady /\ Led
    BY SteadyFirst, LedFirst
  <1>2. Steady /\ Led /\ [Next]_vars => Steady' /\ Led'
    BY SteadyKept, LedKept
  <1>3. Steady /\ Led => OfferedIsAccepted
    BY LedOffers
  <1> QED BY <1>1, <1>2, <1>3, PTL DEF Spec
=============================================================================
