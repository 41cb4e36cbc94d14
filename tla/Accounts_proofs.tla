--------------------------- MODULE Accounts_proofs ---------------------------
(***************************************************************************)
(* What is true of the accounts, of who administers them and of the ways   *)
(* to sign in, for any number of users, handlers and faults.               *)
(***************************************************************************)
EXTENDS Accounts, FiniteSetTheorems, TLAPS

MailKind == {"nothing", "registered", "created", "approved", "rejected"}

Pc == AdminOps \cup {"free", "audit", "tell", "find", "compare", "exchange"}
Handler == [pc: Pc, op: AdminOps \cup {"none", "login", "sso"}, by: Users \cup {Nobody},
            who: Users \cup {Nobody}, roles: SUBSET RoleName, seen: Account]

\* Handlers of accounts there are already.
ChangeOps == {"approve", "reject", "assign", "deactivate"}
GrantOps == {"create", "approve", "assign"}

\* Where a handler stands, by what it does.
InOrder(h) ==
    /\ h.op = "none" => h = Free
    /\ h.op = "login" => h.pc \in {"find", "compare"} /\ h.who \in Users
    /\ h.op = "sso" => h.pc = "exchange"
    /\ h.op \in AdminOps => h.pc \in {h.op, "audit", "tell"} /\ h.who \in Users
    /\ h.op \in GrantOps => h.roles # {}

CallTypes ==
    /\ call \in [Slots -> Handler]
    /\ \A s \in Slots : InOrder(call[s])

RowTypes ==
    /\ account \in [Users -> Account \cup {NoAccount}]
    /\ told \in [Users -> MailKind]
    /\ unaudited \in [Users -> Int]
    /\ faults \in Nat
    /\ \A s \in Slots : call[s].op \in ChangeOps => Exists(call[s].who)
    /\ \A u \in Users : Exists(u) /\ account[u].status = "ACTIVE" => account[u].roles # {}

SignInTypes ==
    /\ attempts \in [Users -> [count: Nat, start: Nat]]
    /\ now \in Nat /\ started \in Nat
    /\ states \subseteq 1..started

-----------------------------------------------------------------------------
(* One administrator at a time.                                            *)

AtWork(s) == call[s].op \in AdminOps

Leads(v) == Exists(v) /\ account[v].active /\ account[v].status = "ACTIVE" /\ IsSysAdmin(v)

\* What a handler found when it began, and still finds.
StillHolds(h) ==
    /\ h.pc \in {"approve", "reject"} => account[h.who].status = "PENDING_APPROVAL"
    /\ h.pc \in {"assign", "deactivate"} =>
         h.by \in Users /\ h.by # h.who /\ (IsSysAdmin(h.who) => Leads(h.by))

OneAtATime ==
    /\ \A s, r \in Slots : AtWork(s) /\ AtWork(r) => s = r
    /\ \A s \in Slots : StillHolds(call[s])
    /\ \E v \in Users : Leads(v)

\* What a mail says of an account.
Says(u, mail) ==
    /\ account[u].status = "PENDING_APPROVAL" => mail = "registered"
    /\ account[u].status = "REJECTED" => mail = "rejected"
    /\ account[u].status = "ACTIVE" /\ u \notin Seeded => mail \in {"created", "approved"}

\* The change has been written, the rest is still to come.
HasWritten(s, u) == call[s].pc \in {"audit", "tell"} /\ call[s].who = u

SaidAndAudited ==
    \A u \in Users :
        /\ (\A s \in Slots : ~HasWritten(s, u)) =>
             unaudited[u] = 0 /\ (Exists(u) => Says(u, told[u]))
        /\ \A s \in Slots : HasWritten(s, u) =>
             /\ Says(u, MailOf(call[s]))
             /\ unaudited[u] = IF call[s].pc = "audit" THEN 1 ELSE 0

Alone == ~overlapped => OneAtATime
Undisturbed == ~overlapped /\ faults = 0 => SaidAndAudited

Safe == CallTypes /\ RowTypes /\ SignInTypes /\ Alone /\ Undisturbed

-----------------------------------------------------------------------------
(* Handlers.                                                               *)

LEMMA FreeHandler == Free \in Handler /\ InOrder(Free) /\ Free.op = "none" /\ Free.who = Nobody /\ Free.pc = "free"
  BY DEF Free, Handler, Pc, InOrder, NoRow, Account, AccountStatus, AdminOps, GrantOps

LEMMA HandlerStep ==
    ASSUME CallTypes, NEW s \in Slots, NEW h \in Handler, InOrder(h), Go(s, h)
    PROVE  /\ CallTypes' /\ call'[s] = h
           /\ \A r \in Slots : r # s => call'[r] = call[r]
<1>1. call' \in [Slots -> Handler] /\ call'[s] = h /\ \A r \in Slots : r # s => call'[r] = call[r]
  BY DEF CallTypes, Go
<1>2. \A r \in Slots : InOrder(call'[r])
  BY <1>1 DEF CallTypes
<1>3. \A r \in Slots : InOrder(call[r])'
  BY <1>2 DEF InOrder, Free, NoRow
<1> QED BY <1>1, <1>3 DEF CallTypes

\* By where a handler stands, what it does.
LEMMA OpOfPc ==
    ASSUME NEW h \in Handler, InOrder(h)
    PROVE  /\ h.pc \in AdminOps => h.op = h.pc
           /\ h.pc \in AdminOps \cup {"audit", "tell"} => h.op \in AdminOps
           /\ h.pc \in {"find", "compare"} => h.op = "login"
           /\ h.pc = "exchange" => h.op = "sso"
           /\ h.pc = "free" => h.op = "none"
  BY DEF InOrder, Handler, Pc, AdminOps, Free

\* A handler of the administration as it begins.
Begun(s, h) ==
    /\ call[s].pc = "free" /\ Go(s, h)
    /\ h \in Handler /\ InOrder(h) /\ h.op \in AdminOps /\ h.pc = h.op
    /\ h.op \in ChangeOps => Exists(h.who)
    /\ StillHolds(h)
    /\ overlapped' = (overlapped \/ \E r \in Slots : AtWork(r))
    /\ UNCHANGED <<account, told, unaudited, faults, about, signInVars>>

AdminBeginsNow(s) ==
    \/ \E u \in Users : Register(s, u)
    \/ \E a \in Users, u \in Users :
         \/ Reject(s, a, u) \/ Deactivate(s, a, u)
         \/ \E roles \in Grants : CreateUser(s, a, u, roles) \/ Approve(s, a, u, roles)
         \/ \E role \in UNION Grants : AssignRole(s, a, u, role)

LEMMA Begins ==
    ASSUME Safe, NEW s \in Slots, NEW op \in AdminOps, NEW a \in Users \cup {Nobody}, NEW u \in Users,
           NEW roles \in SUBSET RoleName, NEW seen \in Account,
           CanBegin(s, op), AdminBegins(s, op, a, u, roles, seen),
           op \in GrantOps => roles # {},
           op \in ChangeOps => Exists(u),
           op \in {"approve", "reject"} => account[u].status = "PENDING_APPROVAL",
           op \in {"assign", "deactivate"} => a \in Users /\ a # u /\ (IsSysAdmin(u) => Leads(a))
    PROVE  \E h : Begun(s, h)
<1> DEFINE h == [pc |-> op, op |-> op, by |-> a, who |-> u, roles |-> roles, seen |-> seen]
<1>1. h \in Handler /\ h.op = op /\ h.pc = op /\ h.by = a /\ h.who = u /\ h.roles = roles
  BY DEF Handler, Pc
<1>2. Go(s, h) /\ call[s].pc = "free"
      /\ overlapped' = (overlapped \/ \E r \in Slots : AtWork(r))
      /\ UNCHANGED <<account, told, unaudited, faults, about, signInVars>>
  BY DEF AdminBegins, CanBegin, AtWork
<1> HIDE DEF h
<1>3. InOrder(h)
  BY <1>1 DEF InOrder, AdminOps
<1>4. StillHolds(h)
  BY <1>1 DEF StillHolds
<1> QED BY <1>1, <1>2, <1>3, <1>4 DEF Begun

LEMMA AdminBegun ==
    ASSUME Safe, NEW s \in Slots, AdminBeginsNow(s)
    PROVE  \E h : Begun(s, h)
<1>1. NoRow \in Account /\ Grants \subseteq SUBSET RoleName /\ {} \notin Grants
  BY AccountAssumption DEF NoRow, Account, AccountStatus
<1>2. \A u \in Users : Exists(u) => account[u] \in Account
  BY DEF Safe, RowTypes, Exists
<1>3. ASSUME NEW u \in Users, Register(s, u)
      PROVE  \E h : Begun(s, h)
  BY <1>1, <1>3, Begins DEF Register, AdminOps, GrantOps, ChangeOps
<1>4. ASSUME NEW a \in Users, NEW u \in Users, Reject(s, a, u)
      PROVE  \E h : Begun(s, h)
  BY <1>2, <1>4, Begins DEF Reject, AdminOps, GrantOps, ChangeOps
<1>5. ASSUME NEW a \in Users, NEW u \in Users, Deactivate(s, a, u)
      PROVE  \E h : Begun(s, h)
  <2>1. Leads(a)
    BY <1>5 DEF Deactivate, Authorised, Validated, Leads, IsSysAdmin
  <2> QED BY <1>2, <1>5, <2>1, Begins DEF Deactivate, AdminOps, GrantOps, ChangeOps
<1>6. ASSUME NEW a \in Users, NEW u \in Users, NEW roles \in Grants, CreateUser(s, a, u, roles)
      PROVE  \E h : Begun(s, h)
  BY <1>1, <1>6, Begins DEF CreateUser, AdminOps, GrantOps, ChangeOps
<1>7. ASSUME NEW a \in Users, NEW u \in Users, NEW roles \in Grants, Approve(s, a, u, roles)
      PROVE  \E h : Begun(s, h)
  BY <1>1, <1>2, <1>7, Begins DEF Approve, AdminOps, GrantOps, ChangeOps
<1>8. ASSUME NEW a \in Users, NEW u \in Users, NEW role \in UNION Grants, AssignRole(s, a, u, role)
      PROVE  \E h : Begun(s, h)
  <2>1. IsSysAdmin(u) => Leads(a)
    BY <1>8 DEF AssignRole, MayAssign, Authorised, Validated, Leads
  <2>2. {role} \in SUBSET RoleName /\ {role} # {}
    BY <1>1
  <2>3. CanBegin(s, "assign") /\ AdminBegins(s, "assign", a, u, {role}, account[u])
        /\ Exists(u) /\ a # u
    BY <1>8 DEF AssignRole, MayAssign
  <2> QED BY <1>2, <2>1, <2>2, <2>3, Begins DEF AdminOps, GrantOps, ChangeOps
<1> QED BY <1>3, <1>4, <1>5, <1>6, <1>7, <1>8 DEF AdminBeginsNow

-----------------------------------------------------------------------------
(* Steps that leave the accounts alone.                                    *)

\* As long as the accounts stay, so does what is said of them.
LEMMA AccountsStay ==
    ASSUME UNCHANGED <<account, told>>
    PROVE  /\ \A u : (Exists(u)' <=> Exists(u)) /\ (Leads(u)' <=> Leads(u)) /\ (IsSysAdmin(u)' <=> IsSysAdmin(u))
           /\ \A h : (StillHolds(h)' <=> StillHolds(h)) /\ MailOf(h)' = MailOf(h)
           /\ \A u, m : Says(u, m)' <=> Says(u, m)
<1>1. \A u : (Exists(u)' <=> Exists(u)) /\ (IsSysAdmin(u)' <=> IsSysAdmin(u))
  BY DEF Exists, IsSysAdmin
<1>2. \A u : Leads(u)' <=> Leads(u)
  BY <1>1 DEF Leads
<1>3. \A h : StillHolds(h)' <=> StillHolds(h)
  BY <1>1, <1>2 DEF StillHolds
<1>4. \A h : MailOf(h)' = MailOf(h)
  BY DEF MailOf
<1>5. \A u, m : Says(u, m)' <=> Says(u, m)
  BY DEF Says
<1> QED BY <1>1, <1>2, <1>3, <1>4, <1>5

LEMMA BegunKeeps ==
    ASSUME Safe, NEW s \in Slots, NEW h, Begun(s, h)
    PROVE  Safe'
<1>1. CallTypes' /\ call'[s] = h /\ \A r \in Slots : r # s => call'[r] = call[r]
  BY HandlerStep DEF Safe, Begun
<1>2. /\ UNCHANGED <<account, told, unaudited, faults>> /\ UNCHANGED signInVars
      /\ overlapped' = (overlapped \/ \E r \in Slots : AtWork(r))
      /\ h.op \in ChangeOps => Exists(h.who)
      /\ StillHolds(h) /\ h.pc \in AdminOps
  BY DEF Begun, ChangeOps, AdminOps
<1>3. /\ \A u : (Exists(u)' <=> Exists(u)) /\ (Leads(u)' <=> Leads(u))
      /\ \A g : (StillHolds(g)' <=> StillHolds(g)) /\ MailOf(g)' = MailOf(g)
      /\ \A u, m : Says(u, m)' <=> Says(u, m)
  BY <1>2, AccountsStay
<1>4. RowTypes'
  BY <1>1, <1>2, <1>3 DEF Safe, RowTypes
<1>5. SignInTypes'
  BY <1>2 DEF Safe, SignInTypes, signInVars
<1>6. Alone'
  <2> SUFFICES ASSUME ~overlapped'
               PROVE  OneAtATime'
    BY DEF Alone
  <2>1. ~overlapped /\ \A r \in Slots : ~AtWork(r)
    BY <1>2
  <2>2. OneAtATime
    BY <2>1 DEF Safe, Alone
  <2>3. \A r \in Slots : AtWork(r)' => r = s
    BY <1>1, <2>1 DEF AtWork
  <2>4. \A r \in Slots : StillHolds(call'[r])
    BY <1>1, <1>2, <2>2 DEF OneAtATime
  <2>5. \A r \in Slots : StillHolds(call[r])'
    BY <1>3, <2>4
  <2> QED BY <1>3, <2>2, <2>3, <2>5 DEF OneAtATime
<1>7. Undisturbed'
  <2> SUFFICES ASSUME ~overlapped', faults' = 0
               PROVE  SaidAndAudited'
    BY DEF Undisturbed
  <2>1. SaidAndAudited
    BY <1>2 DEF Safe, Undisturbed
  <2>2. \A r \in Slots, u \in Users : HasWritten(r, u)' <=> HasWritten(r, u)
    BY <1>1, <1>2 DEF HasWritten, AdminOps, Begun
  <2>3. \A r \in Slots, u \in Users : HasWritten(r, u) => call'[r] = call[r]
    BY <1>1 DEF HasWritten, Begun
  <2>4. \A u \in Users, r \in Slots : HasWritten(r, u) => Says(u, MailOf(call[r]))'
    BY <1>3, <2>1, <2>3 DEF SaidAndAudited
  <2> QED BY <1>2, <1>3, <2>1, <2>2, <2>3, <2>4 DEF SaidAndAudited
<1> QED BY <1>1, <1>4, <1>5, <1>6, <1>7 DEF Safe

\* No handler of the administration moves.
Aside ==
    /\ CallTypes' /\ SignInTypes' /\ UNCHANGED adminVars /\ faults' = faults
    /\ \A r \in Slots : AtWork(r) \/ AtWork(r)' => call'[r] = call[r]

LEMMA AsideKeeps ==
    ASSUME Safe, Aside
    PROVE  Safe'
<1>1. UNCHANGED <<account, told, unaudited, overlapped>> /\ faults' = faults
  BY DEF Aside, adminVars
<1>2. /\ \A u : (Exists(u)' <=> Exists(u)) /\ (Leads(u)' <=> Leads(u))
      /\ \A g : (StillHolds(g)' <=> StillHolds(g)) /\ MailOf(g)' = MailOf(g)
      /\ \A u, m : Says(u, m)' <=> Says(u, m)
  BY <1>1, AccountsStay
<1>3. \A r \in Slots : call[r] \in Handler /\ InOrder(call[r]) /\ call'[r] \in Handler /\ InOrder(call'[r])
  <2>1. \A r \in Slots : InOrder(call[r])'
    BY DEF Aside, CallTypes
  <2>2. \A r \in Slots : InOrder(call'[r])
    BY <2>1 DEF InOrder, Free, NoRow
  <2> QED BY <2>2 DEF Safe, Aside, CallTypes
<1>4. ASSUME NEW r \in Slots
      PROVE  /\ call[r].pc \in {"audit", "tell"} => AtWork(r)
             /\ call'[r].pc \in ChangeOps => AtWork(r)'
             /\ call'[r].pc \in {"audit", "tell"} => AtWork(r)'
  <2>1. ChangeOps \subseteq AdminOps
    BY DEF ChangeOps, AdminOps
  <2> QED BY <1>3, <2>1, OpOfPc DEF AtWork
<1>5. \A r \in Slots : AtWork(r)' <=> AtWork(r)
  BY DEF Aside, AtWork
<1>6. RowTypes'
  <2>1. \A r \in Slots : call'[r].op \in ChangeOps => call[r].op \in ChangeOps /\ call'[r] = call[r]
    BY <1>5 DEF Aside, AtWork, ChangeOps, AdminOps
  <2> QED BY <1>1, <1>2, <2>1 DEF Safe, RowTypes
<1>7. Alone'
  <2> SUFFICES ASSUME ~overlapped'
               PROVE  OneAtATime'
    BY DEF Alone
  <2>1. OneAtATime
    BY <1>1 DEF Safe, Alone
  <2>2. \A r \in Slots : StillHolds(call'[r])
    <3>1. \A r \in Slots : AtWork(r)' => StillHolds(call'[r])
      BY <1>5, <2>1 DEF Aside, OneAtATime
    <3>2. \A r \in Slots : ~AtWork(r)' => StillHolds(call'[r])
      <4>1. \A r \in Slots : ~AtWork(r)' => call'[r].pc \notin ChangeOps
        BY <1>4
      <4> QED BY <4>1 DEF StillHolds, ChangeOps
    <3> QED BY <3>1, <3>2
  <2>3. \A r \in Slots : StillHolds(call[r])'
    BY <1>2, <2>2
  <2> QED BY <1>2, <1>5, <2>1, <2>3 DEF OneAtATime
<1>8. Undisturbed'
  <2> SUFFICES ASSUME ~overlapped', faults' = 0
               PROVE  SaidAndAudited'
    BY DEF Undisturbed
  <2>1. SaidAndAudited
    BY <1>1 DEF Safe, Undisturbed
  <2>2. \A r \in Slots, u \in Users :
            (HasWritten(r, u) \/ HasWritten(r, u)') => call'[r] = call[r]
    <3>1. \A r \in Slots, u \in Users : /\ HasWritten(r, u) => AtWork(r)
                                        /\ HasWritten(r, u)' => AtWork(r)'
      BY <1>4 DEF HasWritten
    <3> QED BY <3>1 DEF Aside
  <2>3. \A r \in Slots, u \in Users : HasWritten(r, u)' <=> HasWritten(r, u)
    BY <2>2 DEF HasWritten
  <2>4. \A u \in Users, r \in Slots : HasWritten(r, u) => Says(u, MailOf(call[r]))'
    BY <1>2, <2>1, <2>2 DEF SaidAndAudited
  <2> QED BY <1>1, <1>2, <2>1, <2>2, <2>3, <2>4 DEF SaidAndAudited
<1> QED BY <1>6, <1>7, <1>8 DEF Safe, Aside

-----------------------------------------------------------------------------
(* Signing in.                                                             *)

\* A handler that is not of the administration moves on.
LEMMA SlotAside ==
    ASSUME Safe, NEW s \in Slots, NEW h \in Handler, InOrder(h), Go(s, h),
           ~AtWork(s), h.op \notin AdminOps,
           SignInTypes', UNCHANGED adminVars, faults' = faults
    PROVE  Safe'
<1>1. CallTypes' /\ call'[s] = h /\ \A r \in Slots : r # s => call'[r] = call[r]
  BY HandlerStep DEF Safe
<1>2. \A r \in Slots : AtWork(r) \/ AtWork(r)' => call'[r] = call[r]
  BY <1>1 DEF AtWork
<1> QED BY <1>1, <1>2, AsideKeeps DEF Aside

LEMMA NothingMoves ==
    ASSUME Safe, call' = call, SignInTypes', UNCHANGED adminVars, faults' = faults
    PROVE  Safe'
<1>1. CallTypes'
  BY DEF Safe, CallTypes, InOrder, Free, NoRow
<1> QED BY <1>1, AsideKeeps DEF Aside

\* Where sign-in handlers stand they are not of the administration.
LEMMA SignInPc ==
    ASSUME Safe, NEW s \in Slots
    PROVE  /\ call[s] \in Handler /\ InOrder(call[s])
           /\ call[s].pc = "free" => ~AtWork(s)
           /\ call[s].pc \in {"find", "compare"} => ~AtWork(s) /\ call[s].op = "login" /\ call[s].who \in Users
           /\ call[s].pc = "exchange" => ~AtWork(s) /\ call[s].op = "sso"
<1>1. call[s] \in Handler /\ InOrder(call[s])
  BY DEF Safe, CallTypes
<1>2. call[s].op \in {"none", "login", "sso"} => ~AtWork(s)
  BY DEF AtWork, AdminOps
<1>3. call[s].op = "login" => call[s].who \in Users
  BY <1>1 DEF InOrder
<1> QED BY <1>1, <1>2, <1>3, OpOfPc

LEMMA SignInKeeps ==
    ASSUME Safe, NEW s \in Slots, SignInStep(s)
    PROVE  Safe'
<1>1. SignInTypes
  BY FreeHandler DEF Safe
<1>2. Free.op \notin AdminOps
  BY FreeHandler DEF AdminOps
<1>3. ASSUME NEW u \in Users, Login(s, u)
      PROVE  Safe'
  <2> DEFINE h == [Free EXCEPT !.pc = "find", !.op = "login", !.who = u]
  <2>1. h \in Handler /\ h.op = "login" /\ h.pc = "find" /\ h.who = u
    BY <1>1, FreeHandler DEF Handler, Pc
  <2>2. Go(s, h) /\ ~AtWork(s) /\ UNCHANGED adminVars /\ faults' = faults
    BY <1>3, SignInPc DEF Login, CanBegin
  <2> HIDE DEF h
  <2>3. InOrder(h) /\ h.op \notin AdminOps
    BY <2>1 DEF InOrder, AdminOps, GrantOps
  <2>4. SignInTypes'
    BY <1>1, <1>3 DEF SignInTypes, Login, NoAttempts
  <2> QED BY <2>1, <2>2, <2>3, <2>4, SlotAside
<1>4. CASE FindUser(s)
  <2>1. PICK row \in Account : Go(s, [call[s] EXCEPT !.pc = "compare", !.seen = row])
    <3>1. NoRow \in Account
      BY DEF NoRow, Account, AccountStatus
    <3>2. Exists(call[s].who) => account[call[s].who] \in Account
      BY <1>4, SignInPc DEF Safe, RowTypes, Exists, FindUser
    <3> QED BY <1>4, <3>1, <3>2 DEF FindUser
  <2> DEFINE h == [call[s] EXCEPT !.pc = "compare", !.seen = row]
  <2>2. call[s].pc = "find" /\ call[s] \in Handler /\ call[s].op = "login" /\ call[s].who \in Users /\ ~AtWork(s)
    BY <1>4, SignInPc DEF FindUser
  <2>3. h \in Handler /\ h.op = "login" /\ h.pc = "compare" /\ h.who \in Users
    BY <2>2 DEF Handler, Pc
  <2>4. Go(s, h) /\ UNCHANGED adminVars /\ faults' = faults /\ UNCHANGED signInVars
    BY <1>4, <2>1 DEF FindUser
  <2> HIDE DEF h
  <2>5. InOrder(h) /\ h.op \notin AdminOps
    BY <2>3 DEF InOrder, AdminOps, GrantOps
  <2>6. SignInTypes'
    BY <1>1, <2>4 DEF SignInTypes, signInVars
  <2> QED BY <2>2, <2>3, <2>4, <2>5, <2>6, SlotAside
<1>5. CASE Fails(s)
  <2>1. ~AtWork(s) /\ call[s].who \in Users
    BY <1>5, SignInPc DEF Fails
  <2>2. OneMore(call[s].who) \in [count: Nat, start: Nat]
    <3>1. attempts[call[s].who] \in [count: Nat, start: Nat] /\ now \in Nat
      BY <1>1, <2>1 DEF SignInTypes
    <3>2. attempts[call[s].who].count + 1 \in Nat
      BY <3>1
    <3> QED BY <3>1, <3>2 DEF OneMore
  <2>3. SignInTypes'
    BY <1>1, <1>5, <2>2 DEF SignInTypes, Fails
  <2> QED BY <1>1, <1>2, <1>5, <2>1, <2>3, FreeHandler, SlotAside DEF Fails
<1>6. CASE Succeeds(s)
  <2>1. ~AtWork(s) /\ call[s].who \in Users
    BY <1>6, SignInPc DEF Succeeds
  <2>2. SignInTypes'
    BY <1>1, <1>6 DEF SignInTypes, Succeeds, NoAttempts
  <2> QED BY <1>1, <1>2, <1>6, <2>1, <2>2, FreeHandler, SlotAside DEF Succeeds
<1>7. ASSUME NEW n \in states, SsoCallback(s, n)
      PROVE  Safe'
  <2> DEFINE h == [Free EXCEPT !.pc = "exchange", !.op = "sso"]
  <2>1. h \in Handler /\ h.op = "sso" /\ h.pc = "exchange"
    BY <1>1, FreeHandler DEF Handler, Pc
  <2>2. Go(s, h) /\ ~AtWork(s) /\ UNCHANGED adminVars /\ faults' = faults
    BY <1>7, SignInPc DEF SsoCallback, CanBegin
  <2> HIDE DEF h
  <2>3. InOrder(h) /\ h.op \notin AdminOps
    BY <2>1 DEF InOrder, AdminOps, GrantOps
  <2>4. SignInTypes'
    BY <1>1, <1>7 DEF SignInTypes, SsoCallback
  <2> QED BY <2>1, <2>2, <2>3, <2>4, SlotAside
<1>8. ASSUME NEW u \in Users \cup {Nobody}, SsoExchange(s, u)
      PROVE  Safe'
  <2>1. ~AtWork(s)
    BY <1>8, SignInPc DEF SsoExchange
  <2>2. SignInTypes'
    BY <1>1, <1>8 DEF SignInTypes, SsoExchange
  <2> QED BY <1>1, <1>2, <1>8, <2>1, <2>2, FreeHandler, SlotAside DEF SsoExchange
<1> QED BY <1>3, <1>4, <1>5, <1>6, <1>7, <1>8 DEF SignInStep

LEMMA OtherKeeps ==
    ASSUME Safe,
           \/ SsoStart \/ \E n \in states : SsoExpires(n)
           \/ \E u \in Users : DevLogin(u) \/ SessionEnds(u)
           \/ Tick \/ UNCHANGED vars
    PROVE  Safe'
<1>1. call' = call /\ UNCHANGED adminVars /\ faults' = faults
  BY DEF SsoStart, SsoExpires, DevLogin, SessionEnds, Tick, vars, adminVars
<1>2. SignInTypes
  BY DEF Safe
<1>3. SignInTypes'
  <2>1. CASE SsoStart
    <3>1. started \in Nat /\ started' = started + 1 /\ states' = states \cup {started + 1} /\ states \subseteq 1..started
      BY <1>2, <2>1 DEF SignInTypes, SsoStart
    <3>2. started' \in Nat /\ 1..started \subseteq 1..started' /\ started + 1 \in 1..started'
      BY <3>1
    <3>3. states' \subseteq 1..started'
      BY <3>1, <3>2
    <3> QED BY <1>2, <2>1, <3>2, <3>3 DEF SignInTypes, SsoStart
  <2>2. CASE \E n \in states : SsoExpires(n)
    BY <1>2, <2>2 DEF SignInTypes, SsoExpires
  <2>3. CASE Tick
    <3>1. now' \in Nat
      BY <1>2, <2>3 DEF SignInTypes, Tick
    <3> QED BY <1>2, <2>3, <3>1 DEF SignInTypes, Tick
  <2>4. CASE \/ \E u \in Users : DevLogin(u) \/ SessionEnds(u)
             \/ UNCHANGED vars
    BY <1>2, <2>4 DEF SignInTypes, DevLogin, SessionEnds, vars
  <2> QED BY <2>1, <2>2, <2>3, <2>4
<1> QED BY <1>1, <1>3, NothingMoves

-----------------------------------------------------------------------------
(* Handlers that are cut off.                                              *)

LEMMA CutOffKeeps ==
    ASSUME Safe, UNCHANGED adminVars, CallTypes', SignInTypes', faults' = faults + 1,
           \A r \in Slots : call'[r] = call[r] \/ call'[r] = Free
    PROVE  Safe'
<1>1. UNCHANGED <<account, told, unaudited, overlapped>>
  BY DEF adminVars
<1>2. /\ \A u : (Exists(u)' <=> Exists(u)) /\ (Leads(u)' <=> Leads(u))
      /\ \A g : (StillHolds(g)' <=> StillHolds(g)) /\ MailOf(g)' = MailOf(g)
  BY <1>1, AccountsStay
<1>3. faults' \in Nat /\ faults' # 0
  BY DEF Safe, RowTypes
<1>4. Free.op \notin AdminOps /\ Free.pc = "free"
  BY FreeHandler DEF AdminOps
<1>5. \A r \in Slots : AtWork(r)' => call'[r] = call[r] /\ AtWork(r)
  BY <1>4 DEF AtWork
<1>6. RowTypes'
  <2>1. \A r \in Slots : call'[r].op \in ChangeOps => call'[r] = call[r]
    BY <1>4 DEF ChangeOps, AdminOps
  <2> QED BY <1>1, <1>2, <1>3, <2>1 DEF Safe, RowTypes
<1>7. Alone'
  <2> SUFFICES ASSUME ~overlapped'
               PROVE  OneAtATime'
    BY DEF Alone
  <2>1. OneAtATime
    BY <1>1 DEF Safe, Alone
  <2>2. StillHolds(Free)
    BY <1>4 DEF StillHolds
  <2>3. \A r \in Slots : StillHolds(call'[r])
    BY <2>1, <2>2 DEF OneAtATime
  <2>4. \A r \in Slots : StillHolds(call[r])'
    BY <1>2, <2>3
  <2> QED BY <1>2, <1>5, <2>1, <2>4 DEF OneAtATime
<1>8. Undisturbed'
  BY <1>3 DEF Undisturbed
<1> QED BY <1>6, <1>7, <1>8 DEF Safe

LEMMA FailKeeps ==
    ASSUME Safe, NEW s \in Slots, Fail(s)
    PROVE  Safe'
<1>1. CallTypes' /\ call'[s] = Free /\ \A r \in Slots : r # s => call'[r] = call[r]
  BY FreeHandler, HandlerStep DEF Safe, Fail
<1>2. SignInTypes'
  BY DEF Safe, SignInTypes, Fail, signInVars
<1> QED BY <1>1, <1>2, CutOffKeeps DEF Fail

LEMMA RestartKeeps ==
    ASSUME Safe, Restart
    PROVE  Safe'
<1>1. call' = [s \in Slots |-> Free] /\ UNCHANGED adminVars /\ faults' = faults + 1
  BY DEF Restart
<1>2. CallTypes'
  <2>1. call' \in [Slots -> Handler] /\ \A r \in Slots : call'[r] = Free
    BY <1>1, FreeHandler
  <2>2. \A r \in Slots : InOrder(call[r])'
    BY <2>1, FreeHandler DEF InOrder, Free, NoRow
  <2> QED BY <2>1, <2>2 DEF CallTypes
<1>3. SignInTypes'
  BY DEF Safe, SignInTypes, Restart, NoAttempts
<1> QED BY <1>1, <1>2, <1>3, CutOffKeeps

-----------------------------------------------------------------------------
(* What the administration writes.                                         *)

\* The row that is written, by the handler.
LEMMA WrittenRow ==
    ASSUME Safe, NEW s \in Slots, call[s].pc \in AdminOps
    PROVE  LET h == call[s]
               row == account[h.who]
               new == Written(h)
           IN  /\ new \in Account
               /\ new.status = "ACTIVE" => new.roles # {}
               /\ h.op = "register" => new.status = "PENDING_APPROVAL"
               /\ h.op \in {"create", "approve"} => new.status = "ACTIVE"
               /\ h.op = "reject" => new.status = "REJECTED"
               /\ h.op = "assign" => new.status = IF h.seen.status = "PENDING_APPROVAL" THEN "ACTIVE"
                                                                                  ELSE row.status
               /\ h.op = "deactivate" => new.status = row.status
<1> DEFINE h == call[s]
           row == account[h.who]
           new == Written(h)
<1>1. h \in Handler /\ InOrder(h) /\ h.op = h.pc /\ h.op \in AdminOps
  BY SignInPc, OpOfPc
<1>2. h.roles \in SUBSET RoleName /\ h.who \in Users /\ (h.op \in GrantOps => h.roles # {})
      /\ h.seen \in Account
  BY <1>1 DEF InOrder, Handler
<1>3. h.op \in ChangeOps => row \in Account /\ (row.status = "ACTIVE" => row.roles # {})
  BY <1>2 DEF Safe, RowTypes, Exists
<1>4. CASE h.op = "register"
  BY <1>4 DEF Written, NewAccount, Account, AccountStatus
<1>5. CASE h.op = "create"
  BY <1>2, <1>5 DEF Written, NewAccount, Account, AccountStatus, GrantOps
<1>6. CASE h.op = "approve"
  <2>1. row \in Account /\ h.roles # {} /\ new = [row EXCEPT !.status = "ACTIVE", !.roles = h.roles]
    BY <1>2, <1>3, <1>6 DEF Written, GrantOps, ChangeOps
  <2> QED BY <1>2, <1>6, <2>1 DEF Account, AccountStatus
<1>7. CASE h.op = "reject"
  <2>1. row \in Account /\ new = [row EXCEPT !.status = "REJECTED"]
    BY <1>3, <1>7 DEF Written, ChangeOps
  <2> QED BY <1>7, <2>1 DEF Account, AccountStatus
<1>8. CASE h.op = "assign"
  <2>1. row \in Account /\ h.roles # {}
        /\ new = [row EXCEPT !.roles = h.roles,
                     !.status = IF h.seen.status = "PENDING_APPROVAL" THEN "ACTIVE" ELSE row.status]
    BY <1>2, <1>3, <1>8 DEF Written, GrantOps, ChangeOps
  <2> QED BY <1>2, <1>8, <2>1 DEF Account, AccountStatus
<1>9. CASE h.op = "deactivate"
  <2>1. row \in Account /\ (row.status = "ACTIVE" => row.roles # {}) /\ new = [row EXCEPT !.active = FALSE]
    BY <1>3, <1>9 DEF Written, ChangeOps
  <2> QED BY <1>9, <2>1 DEF Account
<1> QED BY <1>1, <1>4, <1>5, <1>6, <1>7, <1>8, <1>9 DEF AdminOps

\* An insert that fails ends its handler.
LEMMA RefusedKeeps ==
    ASSUME Safe, NEW s \in Slots, call[s].pc \in AdminOps, Go(s, Free),
           UNCHANGED adminVars, UNCHANGED signInVars, faults' = faults
    PROVE  Safe'
<1>1. CallTypes' /\ call'[s] = Free /\ \A r \in Slots : r # s => call'[r] = call[r]
  BY FreeHandler, HandlerStep DEF Safe
<1>2. SignInTypes'
  BY DEF Safe, SignInTypes, signInVars
<1>3. UNCHANGED <<account, told, unaudited, overlapped>>
  BY DEF adminVars
<1>4. /\ \A u : (Exists(u)' <=> Exists(u)) /\ (Leads(u)' <=> Leads(u))
      /\ \A g : (StillHolds(g)' <=> StillHolds(g)) /\ MailOf(g)' = MailOf(g)
      /\ \A u, m : Says(u, m)' <=> Says(u, m)
  BY <1>3, AccountsStay
<1>5. Free.op \notin AdminOps /\ Free.op \notin ChangeOps /\ Free.pc = "free"
  BY FreeHandler DEF AdminOps, ChangeOps
<1>6. RowTypes'
  <2>1. \A r \in Slots : call'[r].op \in ChangeOps => call'[r] = call[r]
    BY <1>1, <1>5
  <2> QED BY <1>3, <1>4, <2>1 DEF Safe, RowTypes
<1>7. Alone'
  <2> SUFFICES ASSUME ~overlapped'
               PROVE  OneAtATime'
    BY DEF Alone
  <2>1. OneAtATime
    BY <1>3 DEF Safe, Alone
  <2>2. StillHolds(Free)
    BY <1>5 DEF StillHolds
  <2>3. \A r \in Slots : StillHolds(call'[r])
    BY <1>1, <2>1, <2>2 DEF OneAtATime
  <2>4. \A r \in Slots : StillHolds(call[r])'
    BY <1>4, <2>3
  <2>5. \A r \in Slots : AtWork(r)' => AtWork(r)
    BY <1>1, <1>5 DEF AtWork
  <2> QED BY <1>4, <2>1, <2>4, <2>5 DEF OneAtATime
<1>8. Undisturbed'
  <2> SUFFICES ASSUME ~overlapped', faults' = 0
               PROVE  SaidAndAudited'
    BY DEF Undisturbed
  <2>1. SaidAndAudited
    BY <1>3 DEF Safe, Undisturbed
  <2>2. \A r \in Slots, u \in Users : /\ HasWritten(r, u)' <=> HasWritten(r, u)
                                      /\ HasWritten(r, u) => call'[r] = call[r]
    BY <1>1, <1>5 DEF HasWritten, AdminOps
  <2>3. \A u \in Users, r \in Slots : HasWritten(r, u) => Says(u, MailOf(call[r]))'
    BY <1>4, <2>1, <2>2 DEF SaidAndAudited
  <2> QED BY <1>3, <1>4, <2>1, <2>2, <2>3 DEF SaidAndAudited
<1> QED BY <1>1, <1>2, <1>6, <1>7, <1>8 DEF Safe

LEMMA WriteKeeps ==
    ASSUME Safe, NEW s \in Slots, Write(s)
    PROVE  Safe'
<1>1. PICK h : h = call[s]
  OBVIOUS
<1>2. PICK u : u = h.who
  OBVIOUS
<1>3. PICK new : new = Written(h)
  OBVIOUS
<1>4. /\ h \in Handler /\ InOrder(h) /\ h.op = h.pc /\ h.op \in AdminOps /\ h.pc \in AdminOps /\ u \in Users
  BY <1>1, <1>2, SignInPc, OpOfPc DEF Write, InOrder
<1>5. CASE h.op \in {"register", "create"} /\ Exists(u)
  BY <1>1, <1>2, <1>4, <1>5, RefusedKeeps DEF Write, adminVars
<1>6. CASE ~(h.op \in {"register", "create"} /\ Exists(u))
  <2> DEFINE g == [h EXCEPT !.pc = IF h.op = "register" THEN "tell" ELSE "audit"]
  <2>1. /\ account' = [account EXCEPT ![u] = new]
        /\ unaudited' = [unaudited EXCEPT ![u] = IF h.op = "register" THEN unaudited[u] ELSE unaudited[u] + 1]
        /\ Go(s, g) /\ UNCHANGED <<told, overlapped, faults>> /\ UNCHANGED signInVars
    BY <1>1, <1>2, <1>3, <1>6 DEF Write
  <2>2. /\ g \in Handler /\ g.op = h.op /\ g.who = u /\ g.seen = h.seen /\ g.roles = h.roles
        /\ g.pc = IF h.op = "register" THEN "tell" ELSE "audit"
    BY <1>2, <1>4 DEF Handler, Pc
  <2> HIDE DEF g
  <2>3. InOrder(g)
    BY <1>4, <2>2 DEF InOrder, AdminOps
  <2>4. CallTypes' /\ call'[s] = g /\ \A r \in Slots : r # s => call'[r] = call[r]
    BY <2>1, <2>2, <2>3, HandlerStep DEF Safe
  <2>5. SignInTypes'
    BY <2>1 DEF Safe, SignInTypes, signInVars
  <2>6. /\ new \in Account
        /\ new.status = "ACTIVE" => new.roles # {}
        /\ h.op = "register" => new.status = "PENDING_APPROVAL"
        /\ h.op \in {"create", "approve"} => new.status = "ACTIVE"
        /\ h.op = "reject" => new.status = "REJECTED"
        /\ h.op = "assign" => new.status = IF h.seen.status = "PENDING_APPROVAL" THEN "ACTIVE"
                                                                           ELSE account[u].status
        /\ h.op = "deactivate" => new.status = account[u].status
    BY <1>1, <1>2, <1>3, <1>4, WrittenRow
  <2>7. /\ account' \in [Users -> Account \cup {NoAccount}]
        /\ account'[u] = new /\ \A v \in Users : v # u => account'[v] = account[v]
        /\ unaudited' \in [Users -> Int]
        /\ unaudited'[u] = IF h.op = "register" THEN unaudited[u] ELSE unaudited[u] + 1
        /\ \A v \in Users : v # u => unaudited'[v] = unaudited[v]
    <3>1. account \in [Users -> Account \cup {NoAccount}] /\ unaudited \in [Users -> Int]
      BY DEF Safe, RowTypes
    <3>2. unaudited[u] + 1 \in Int
      BY <1>4, <3>1
    <3> QED BY <1>4, <2>1, <2>6, <3>1, <3>2
  <2>8. NoAccount \notin Account
    BY AccountAssumption
  <2>9. Exists(u)' /\ \A v \in Users : v # u => (Exists(v)' <=> Exists(v)) /\ (Leads(v)' <=> Leads(v))
    BY <2>6, <2>7, <2>8 DEF Exists, Leads, IsSysAdmin
  <2>10. RowTypes'
    <3>1. \A r \in Slots : call'[r].op \in ChangeOps =>
              \E v \in Users : v = call'[r].who /\ Exists(v)'
      <4>1. \A v \in Users : Exists(v) => Exists(v)'
        BY <2>9
      <4>2. \A r \in Slots : call[r].op \in AdminOps => call[r].who \in Users
        BY DEF Safe, CallTypes, InOrder
      <4>3. \A r \in Slots : r # s /\ call[r].op \in ChangeOps => Exists(call[r].who) /\ call[r].who \in Users
        BY <4>2 DEF Safe, RowTypes, ChangeOps, AdminOps
      <4>4. call'[s].who = u /\ Exists(u)' /\ u \in Users
        BY <1>4, <2>2, <2>4, <2>9
      <4>5. \A r \in Slots : r # s /\ call'[r].op \in ChangeOps =>
                \E v \in Users : v = call'[r].who /\ Exists(v)'
        BY <2>4, <4>1, <4>3
      <4> QED BY <4>4, <4>5
    <3>2. \A r \in Slots : (call[r].op \in ChangeOps => Exists(call[r].who))'
      BY <3>1 DEF Exists
    <3>3. \A v \in Users : (Exists(v) /\ account[v].status = "ACTIVE" => account[v].roles # {})'
      BY <2>6, <2>7, <2>9 DEF Safe, RowTypes
    <3>4. told' \in [Users -> MailKind] /\ faults' \in Nat
      BY <2>1 DEF Safe, RowTypes
    <3> QED BY <2>7, <3>2, <3>3, <3>4 DEF RowTypes
  <2>11. ASSUME ~overlapped
         PROVE  OneAtATime /\ \A r \in Slots : AtWork(r) => r = s
    BY <1>1, <1>4, <2>11 DEF Safe, Alone, OneAtATime, AtWork
  <2>12. Alone'
    <3> SUFFICES ASSUME ~overlapped'
                 PROVE  OneAtATime'
      BY DEF Alone
    <3>1. OneAtATime /\ \A r \in Slots : AtWork(r) => r = s
      BY <2>1, <2>11
    <3>2. \A r \in Slots : AtWork(r)' => r = s
      BY <2>4, <3>1 DEF AtWork
    <3>3. \A r \in Slots : StillHolds(call[r])'
      <4>1. \A r \in Slots : r # s => call'[r].pc \notin ChangeOps
        <5>1. \A r \in Slots : r # s => call[r].op \notin AdminOps
          BY <3>1 DEF AtWork
        <5>2. \A r \in Slots : call[r].pc \in AdminOps => call[r].op \in AdminOps
          BY SignInPc, OpOfPc
        <5> QED BY <2>4, <5>1, <5>2 DEF ChangeOps, AdminOps
      <4>2. call'[s].pc \notin ChangeOps
        BY <2>2, <2>4 DEF ChangeOps
      <4>3. \A r \in Slots : call'[r].pc \notin {"approve", "reject", "assign", "deactivate"}
        BY <4>1, <4>2 DEF ChangeOps
      <4> QED BY <4>3 DEF StillHolds
    <3>4. \E v \in Users : Leads(v)'
      <4>1. PICK v \in Users : Leads(v)
        BY <3>1 DEF OneAtATime
      <4>2. CASE v # u
        BY <2>9, <4>1, <4>2
      <4>3. CASE v = u
        <5>1. Exists(u) /\ account[u].status = "ACTIVE" /\ IsSysAdmin(u)
          BY <4>1, <4>3 DEF Leads
        <5>2. StillHolds(h)
          BY <1>1, <3>1 DEF OneAtATime
        <5>3. h.pc \in {"assign", "deactivate"}
          BY <1>2, <1>4, <1>6, <5>1, <5>2 DEF StillHolds, AdminOps
        <5>4. h.by \in Users /\ h.by # u /\ Leads(h.by)
          BY <1>2, <5>1, <5>2, <5>3 DEF StillHolds
        <5>5. PICK w \in Users : w = h.by
          BY <5>4
        <5> QED BY <2>9, <5>4, <5>5
      <4> QED BY <4>2, <4>3
    <3> QED BY <3>2, <3>3, <3>4 DEF OneAtATime
  <2>13. Undisturbed'
    <3> SUFFICES ASSUME ~overlapped', faults' = 0
                 PROVE  SaidAndAudited'
      BY DEF Undisturbed
    <3>1. OneAtATime /\ (\A r \in Slots : AtWork(r) => r = s) /\ SaidAndAudited
      BY <2>1, <2>11 DEF Safe, Undisturbed
    <3>2. \A r \in Slots, v \in Users : ~HasWritten(r, v)
      <4>1. \A r \in Slots : call[r].pc \in {"audit", "tell"} => r = s
        BY <3>1, SignInPc, OpOfPc DEF AtWork
      <4> QED BY <1>1, <1>4, <4>1 DEF HasWritten, AdminOps
    <3>3. \A v \in Users : unaudited[v] = 0 /\ (Exists(v) => Says(v, told[v]))
      BY <3>1, <3>2 DEF SaidAndAudited
    <3>4. \A r \in Slots, v \in Users : HasWritten(r, v)' <=> r = s /\ v = u
      <4>1. \A r \in Slots, v \in Users : r # s => ~HasWritten(r, v)'
        BY <2>4, <3>2 DEF HasWritten
      <4>2. \A v \in Users : HasWritten(s, v)' <=> v = u
        BY <2>2, <2>4 DEF HasWritten
      <4> QED BY <4>1, <4>2
    <3>5. \A v \in Users : v # u => unaudited'[v] = 0 /\ (Exists(v)' => Says(v, told[v])')
      BY <2>1, <2>7, <2>9, <3>3 DEF Says
    <3>6. unaudited'[u] = IF call'[s].pc = "audit" THEN 1 ELSE 0
      BY <1>4, <2>2, <2>4, <2>7, <3>3
    <3>7. Says(u, MailOf(call[s]))'
      <4>1. h.op \in ChangeOps => Says(u, told[u])
        BY <1>1, <1>2, <1>4, <3>3 DEF Safe, RowTypes
      <4>2. MailOf(call[s])' =
              CASE h.op = "register" -> "registered"
                [] h.op = "create"   -> "created"
                [] h.op = "approve" \/ (h.op = "assign" /\ h.seen.status = "PENDING_APPROVAL") -> "approved"
                [] h.op = "reject"   -> "rejected"
                [] OTHER             -> told[u]
        BY <2>1, <2>2, <2>4 DEF MailOf
      <4>3. PICK m : m = MailOf(call[s])'
        OBVIOUS
      <4>4. (new.status = "PENDING_APPROVAL" => m = "registered")
            /\ (new.status = "REJECTED" => m = "rejected")
            /\ (new.status = "ACTIVE" /\ u \notin Seeded => m \in {"created", "approved"})
        <5>1. CASE h.op = "register"
          BY <2>6, <4>2, <4>3, <5>1
        <5>2. CASE h.op = "create"
          BY <2>6, <4>2, <4>3, <5>2
        <5>3. CASE h.op = "approve"
          BY <2>6, <4>2, <4>3, <5>3
        <5>4. CASE h.op = "reject"
          BY <2>6, <4>2, <4>3, <5>4
        <5>5. CASE h.op = "assign"
          BY <2>6, <4>1, <4>2, <4>3, <5>5 DEF ChangeOps, Says
        <5>6. CASE h.op = "deactivate"
          BY <2>6, <4>1, <4>2, <4>3, <5>6 DEF ChangeOps, Says
        <5> QED BY <1>4, <5>1, <5>2, <5>3, <5>4, <5>5, <5>6 DEF AdminOps
      <4> QED BY <2>7, <4>3, <4>4 DEF Says
    <3>8. \A v \in Users, r \in Slots : HasWritten(r, v)' =>
              Says(v, MailOf(call[r]))' /\ unaudited'[v] = IF call'[r].pc = "audit" THEN 1 ELSE 0
      BY <3>4, <3>6, <3>7
    <3>9. \A v \in Users : (\A r \in Slots : ~HasWritten(r, v)') =>
              unaudited'[v] = 0 /\ (Exists(v)' => Says(v, told[v])')
      BY <3>4, <3>5
    <3> QED BY <3>8, <3>9 DEF SaidAndAudited
  <2> QED BY <2>4, <2>5, <2>10, <2>12, <2>13 DEF Safe
<1> QED BY <1>5, <1>6

LEMMA AuditKeeps ==
    ASSUME Safe, NEW s \in Slots, Audit(s)
    PROVE  Safe'
<1>1. PICK h : h = call[s]
  OBVIOUS
<1>2. PICK u : u = h.who
  OBVIOUS
<1>3. h \in Handler /\ InOrder(h) /\ h.pc = "audit" /\ h.op \in AdminOps /\ u \in Users
  BY <1>1, <1>2, SignInPc, OpOfPc DEF Audit, InOrder
<1> DEFINE g == [h EXCEPT !.pc = "tell"]
<1>4. /\ unaudited' = [unaudited EXCEPT ![u] = unaudited[u] - 1] /\ Go(s, g)
      /\ UNCHANGED <<account, told, overlapped, faults>> /\ UNCHANGED signInVars
  BY <1>1, <1>2 DEF Audit
<1>5. g \in Handler /\ g.pc = "tell" /\ g.op = h.op /\ g.who = u /\ g.roles = h.roles /\ g.seen = h.seen
  BY <1>2, <1>3 DEF Handler, Pc
<1> HIDE DEF g
<1>6. InOrder(g)
  BY <1>3, <1>5 DEF InOrder, AdminOps
<1>7. CallTypes' /\ call'[s] = g /\ \A r \in Slots : r # s => call'[r] = call[r]
  BY <1>4, <1>5, <1>6, HandlerStep DEF Safe
<1>8. SignInTypes'
  BY <1>4 DEF Safe, SignInTypes, signInVars
<1>9. /\ \A v : (Exists(v)' <=> Exists(v)) /\ (Leads(v)' <=> Leads(v))
      /\ \A f : (StillHolds(f)' <=> StillHolds(f)) /\ MailOf(f)' = MailOf(f)
      /\ \A v, m : Says(v, m)' <=> Says(v, m)
  BY <1>4, AccountsStay
<1>10. RowTypes'
  <2>1. unaudited' \in [Users -> Int]
    <3>1. unaudited \in [Users -> Int] /\ unaudited[u] - 1 \in Int
      BY <1>3 DEF Safe, RowTypes
    <3> QED BY <1>4, <3>1
  <2>2. \A r \in Slots : (call'[r].op = call[r].op /\ call'[r].who = call[r].who)
    BY <1>1, <1>2, <1>5, <1>7
  <2> QED BY <1>4, <1>9, <2>1, <2>2 DEF Safe, RowTypes
<1>11. \A r \in Slots : AtWork(r)' <=> AtWork(r)
  BY <1>1, <1>5, <1>7 DEF AtWork
<1>12. Alone'
  <2> SUFFICES ASSUME ~overlapped'
               PROVE  OneAtATime'
    BY DEF Alone
  <2>1. OneAtATime
    BY <1>4 DEF Safe, Alone
  <2>2. StillHolds(g)
    BY <1>5 DEF StillHolds
  <2>3. \A r \in Slots : StillHolds(call'[r])
    BY <1>7, <2>1, <2>2 DEF OneAtATime
  <2>4. \A r \in Slots : StillHolds(call[r])'
    BY <1>9, <2>3
  <2> QED BY <1>9, <1>11, <2>1, <2>4 DEF OneAtATime
<1>13. Undisturbed'
  <2> SUFFICES ASSUME ~overlapped', faults' = 0
               PROVE  SaidAndAudited'
    BY DEF Undisturbed
  <2>1. SaidAndAudited /\ OneAtATime
    BY <1>4 DEF Safe, Undisturbed, Alone
  <2>2. \A r \in Slots, v \in Users : HasWritten(r, v) <=> r = s /\ v = u
    <3>1. \A r \in Slots : call[r].pc \in {"audit", "tell"} => AtWork(r)
      BY SignInPc, OpOfPc DEF AtWork
    <3>2. AtWork(s)
      BY <1>1, <1>3 DEF AtWork
    <3>3. \A r \in Slots : call[r].pc \in {"audit", "tell"} => r = s
      BY <2>1, <3>1, <3>2 DEF OneAtATime
    <3> QED BY <1>1, <1>2, <1>3, <3>3 DEF HasWritten
  <2>3. \A r \in Slots, v \in Users : HasWritten(r, v)' <=> r = s /\ v = u
    <3>1. \A r \in Slots, v \in Users : r # s => (HasWritten(r, v)' <=> HasWritten(r, v))
      BY <1>7 DEF HasWritten
    <3>2. \A v \in Users : HasWritten(s, v)' <=> v = u
      BY <1>5, <1>7 DEF HasWritten
    <3> QED BY <2>2, <3>1, <3>2
  <2>4. unaudited[u] = 1 /\ Says(u, MailOf(h))
    BY <1>1, <1>3, <2>1, <2>2 DEF SaidAndAudited
  <2>5. unaudited'[u] = 0 /\ \A v \in Users : v # u => unaudited'[v] = unaudited[v]
    BY <1>3, <1>4, <2>4 DEF Safe, RowTypes
  <2>6. MailOf(g) = MailOf(h)
    BY <1>2, <1>5 DEF MailOf
  <2>7. Says(u, MailOf(call[s]))'
    <3>1. MailOf(call[s])' = MailOf(h)
      BY <1>4, <1>7, <2>6 DEF MailOf
    <3> QED BY <1>9, <2>4, <3>1
  <2>8. \A v \in Users : v # u => unaudited'[v] = 0 /\ (Exists(v)' => Says(v, told[v])')
    <3>1. \A v \in Users : v # u => unaudited[v] = 0 /\ (Exists(v) => Says(v, told[v]))
      BY <2>1, <2>2 DEF SaidAndAudited
    <3> QED BY <1>4, <1>9, <2>5, <3>1
  <2>9. \A v \in Users, r \in Slots : HasWritten(r, v)' =>
            Says(v, MailOf(call[r]))' /\ unaudited'[v] = IF call'[r].pc = "audit" THEN 1 ELSE 0
    BY <1>5, <1>7, <2>3, <2>5, <2>7
  <2>10. \A v \in Users : (\A r \in Slots : ~HasWritten(r, v)') =>
            unaudited'[v] = 0 /\ (Exists(v)' => Says(v, told[v])')
    BY <2>3, <2>8
  <2> QED BY <2>9, <2>10 DEF SaidAndAudited
<1> QED BY <1>7, <1>8, <1>10, <1>12, <1>13 DEF Safe

LEMMA TellKeeps ==
    ASSUME Safe, NEW s \in Slots, Tell(s)
    PROVE  Safe'
<1>1. PICK h : h = call[s]
  OBVIOUS
<1>2. PICK u : u = h.who
  OBVIOUS
<1>3. h \in Handler /\ InOrder(h) /\ h.pc = "tell" /\ h.op \in AdminOps /\ u \in Users
  BY <1>1, <1>2, SignInPc, OpOfPc DEF Tell, InOrder
<1>4. /\ told' = [told EXCEPT ![u] = MailOf(h)] /\ Go(s, Free)
      /\ UNCHANGED <<account, unaudited, overlapped, faults>> /\ UNCHANGED signInVars
  BY <1>1, <1>2 DEF Tell
<1>5. CallTypes' /\ call'[s] = Free /\ \A r \in Slots : r # s => call'[r] = call[r]
  BY <1>4, FreeHandler, HandlerStep DEF Safe
<1>6. SignInTypes'
  BY <1>4 DEF Safe, SignInTypes, signInVars
<1>7. Free.op \notin AdminOps /\ Free.op \notin ChangeOps /\ Free.pc = "free"
  BY FreeHandler DEF AdminOps, ChangeOps
<1>8. /\ \A v : (Exists(v)' <=> Exists(v)) /\ (IsSysAdmin(v)' <=> IsSysAdmin(v))
      /\ \A v : Leads(v)' <=> Leads(v)
      /\ \A f : StillHolds(f)' <=> StillHolds(f)
      /\ \A v, m : Says(v, m)' <=> Says(v, m)
  <2>1. \A v : (Exists(v)' <=> Exists(v)) /\ (IsSysAdmin(v)' <=> IsSysAdmin(v))
    BY <1>4 DEF Exists, IsSysAdmin
  <2>2. \A v : Leads(v)' <=> Leads(v)
    BY <1>4, <2>1 DEF Leads
  <2>3. \A f : StillHolds(f)' <=> StillHolds(f)
    BY <1>4, <2>1, <2>2 DEF StillHolds
  <2>4. \A v, m : Says(v, m)' <=> Says(v, m)
    BY <1>4 DEF Says
  <2> QED BY <2>1, <2>2, <2>3, <2>4
<1>9. RowTypes'
  <2>1. told \in [Users -> MailKind] /\ MailOf(h) \in MailKind
    <3>1. told \in [Users -> MailKind]
      BY DEF Safe, RowTypes
    <3>2. told[h.who] \in MailKind
      BY <1>2, <1>3, <3>1
    <3> QED BY <3>1, <3>2 DEF MailOf, MailKind
  <2>2. told' \in [Users -> MailKind]
    BY <1>4, <2>1
  <2>3. \A r \in Slots : call'[r].op \in ChangeOps => call'[r] = call[r]
    BY <1>5, <1>7
  <2> QED BY <1>4, <1>8, <2>2, <2>3 DEF Safe, RowTypes
<1>10. \A r \in Slots : AtWork(r)' => AtWork(r)
  BY <1>5, <1>7 DEF AtWork
<1>11. Alone'
  <2> SUFFICES ASSUME ~overlapped'
               PROVE  OneAtATime'
    BY DEF Alone
  <2>1. OneAtATime
    BY <1>4 DEF Safe, Alone
  <2>2. StillHolds(Free)
    BY <1>7 DEF StillHolds
  <2>3. \A r \in Slots : StillHolds(call'[r])
    BY <1>5, <2>1, <2>2 DEF OneAtATime
  <2>4. \A r \in Slots : StillHolds(call[r])'
    BY <1>8, <2>3
  <2> QED BY <1>8, <1>10, <2>1, <2>4 DEF OneAtATime
<1>12. Undisturbed'
  <2> SUFFICES ASSUME ~overlapped', faults' = 0
               PROVE  SaidAndAudited'
    BY DEF Undisturbed
  <2>1. SaidAndAudited /\ OneAtATime
    BY <1>4 DEF Safe, Undisturbed, Alone
  <2>2. \A r \in Slots, v \in Users : HasWritten(r, v) <=> r = s /\ v = u
    <3>1. \A r \in Slots : call[r].pc \in {"audit", "tell"} => AtWork(r)
      BY SignInPc, OpOfPc DEF AtWork
    <3>2. AtWork(s)
      BY <1>1, <1>3 DEF AtWork
    <3>3. \A r \in Slots : call[r].pc \in {"audit", "tell"} => r = s
      BY <2>1, <3>1, <3>2 DEF OneAtATime
    <3> QED BY <1>1, <1>2, <1>3, <3>3 DEF HasWritten
  <2>3. \A r \in Slots, v \in Users : ~HasWritten(r, v)'
    <3>1. \A r \in Slots, v \in Users : r # s => (HasWritten(r, v)' <=> HasWritten(r, v))
      BY <1>5 DEF HasWritten
    <3>2. \A v \in Users : ~HasWritten(s, v)'
      BY <1>5, <1>7 DEF HasWritten
    <3> QED BY <2>2, <3>1, <3>2
  <2>4. unaudited[u] = 0 /\ Says(u, MailOf(h))
    BY <1>1, <1>3, <2>1, <2>2 DEF SaidAndAudited
  <2>5. \A v \in Users : v # u => unaudited[v] = 0 /\ (Exists(v) => Says(v, told[v]))
    BY <2>1, <2>2 DEF SaidAndAudited
  <2>6. told'[u] = MailOf(h) /\ \A v \in Users : v # u => told'[v] = told[v]
    BY <1>3, <1>4 DEF Safe, RowTypes
  <2>7. \A v \in Users : unaudited'[v] = 0 /\ (Exists(v)' => Says(v, told'[v]))
    BY <1>4, <1>8, <2>4, <2>5, <2>6
  <2>8. \A v \in Users : unaudited'[v] = 0 /\ (Exists(v)' => Says(v, told[v])')
    BY <1>8, <2>7
  <2> QED BY <2>3, <2>8 DEF SaidAndAudited
<1> QED BY <1>5, <1>6, <1>9, <1>11, <1>12 DEF Safe

-----------------------------------------------------------------------------

LEMMA SafeInit ==
    ASSUME Init
    PROVE  Safe
<1>1. \A s \in Slots : call[s] = Free
  BY DEF Init
<1>2. CallTypes
  <2>1. call \in [Slots -> Handler]
    BY FreeHandler DEF Init
  <2>2. \A s \in Slots : InOrder(call[s])
    BY <1>1, FreeHandler
  <2> QED BY <2>1, <2>2 DEF CallTypes
<1> DEFINE row(u) == [status |-> "ACTIVE", active |-> TRUE, roles |-> RolesOf[u], password |-> TRUE, sso |-> TRUE]
<1>3. \A u \in Seeded : u \in Users /\ RolesOf[u] \in SUBSET RoleName /\ RolesOf[u] # {}
  BY AccountAssumption
<1>4. \A u \in Users : account[u] = IF u \in Seeded THEN row(u) ELSE NoAccount
  BY DEF Init
<1>5. \A u \in Seeded : row(u) \in Account
  BY <1>3 DEF Account, AccountStatus
<1>6. NoAccount \notin Account
  BY AccountAssumption
<1>7. \A u \in Users : Exists(u) <=> u \in Seeded
  BY <1>4, <1>5, <1>6 DEF Exists
<1>12. ASSUME NEW u \in Seeded
       PROVE  /\ u \in Users /\ account[u].status = "ACTIVE" /\ account[u].active
              /\ account[u].roles = RolesOf[u]
  <2>1. u \in Users /\ account[u] = row(u)
    BY <1>3, <1>4
  <2> QED BY <2>1
<1>8. RowTypes
  <2>1. account \in [Users -> Account \cup {NoAccount}]
    <3>1. account = [u \in Users |-> IF u \in Seeded THEN row(u) ELSE NoAccount]
      BY DEF Init
    <3> HIDE DEF row
    <3> QED BY <1>5, <3>1
  <2>2. told \in [Users -> MailKind]
    BY DEF Init, MailKind
  <2>3. unaudited \in [Users -> Int] /\ faults \in Nat
    BY DEF Init
  <2>4. Free.op \notin ChangeOps
    BY FreeHandler DEF ChangeOps
  <2>5. \A u \in Users : Exists(u) /\ account[u].status = "ACTIVE" => account[u].roles # {}
    BY <1>3, <1>7, <1>12
  <2> QED BY <1>1, <2>1, <2>2, <2>3, <2>4, <2>5 DEF RowTypes
<1>9. SignInTypes
  BY DEF Init, SignInTypes, NoAttempts
<1>10. OneAtATime
  <2>1. \A s \in Slots : ~AtWork(s)
    BY <1>1, FreeHandler DEF AtWork, AdminOps
  <2>2. \A s \in Slots : StillHolds(call[s])
    BY <1>1, FreeHandler DEF StillHolds
  <2>3. PICK v \in Seeded : "SYS_ADMIN" \in RolesOf[v]
    BY AccountAssumption
  <2>4. Leads(v)
    BY <1>7, <1>12, <2>3 DEF Leads, IsSysAdmin
  <2> QED BY <1>3, <2>1, <2>2, <2>4 DEF OneAtATime
<1>11. SaidAndAudited
  <2>1. \A s \in Slots, u \in Users : ~HasWritten(s, u)
    BY <1>1, FreeHandler DEF HasWritten
  <2>2. \A u \in Users : unaudited[u] = 0
    BY DEF Init
  <2>3. \A u \in Users : Exists(u) => Says(u, told[u])
    BY <1>7, <1>12 DEF Says
  <2> QED BY <2>1, <2>2, <2>3 DEF SaidAndAudited
<1> QED BY <1>2, <1>8, <1>9, <1>10, <1>11 DEF Safe, Alone, Undisturbed

LEMMA SafeStep ==
    ASSUME Safe, [Next]_vars
    PROVE  Safe'
<1>1. ASSUME NEW s \in Slots, AdminStep(s)
      PROVE  Safe'
  <2>1. AdminBeginsNow(s) \/ Write(s) \/ Audit(s) \/ Tell(s)
    BY <1>1 DEF AdminStep, AdminBeginsNow
  <2> QED BY <2>1, AdminBegun, BegunKeeps, WriteKeeps, AuditKeeps, TellKeeps
<1>2. ASSUME NEW s \in Slots, SignInStep(s)
      PROVE  Safe'
  BY <1>2, SignInKeeps
<1>3. ASSUME NEW s \in Slots, Fail(s)
      PROVE  Safe'
  BY <1>3, FailKeeps
<1>4. CASE Restart
  BY <1>4, RestartKeeps
<1> QED BY <1>1, <1>2, <1>3, <1>4, OtherKeeps DEF Next

\* As long as administrators do not overlap, one who can sign in and restore
\* the others remains: whoever is demoted, somebody else has demoted him
\* (assignRole, deactivateUser).
THEOREM SysAdminStays == Spec => []SysAdminRemains
<1>1. Safe => SysAdminRemains
  BY DEF Safe, Alone, OneAtATime, Leads, SysAdminRemains
<1> QED BY SafeInit, SafeStep, <1>1, PTL DEF Spec

\* Whatever overlaps, an active account has a role; and undisturbed, the mails
\* and the audit rows of the administration agree with the accounts.
THEOREM DecisionsKept == Spec => []DecisionsStand
<1>1. ASSUME Safe, NEW u \in Users, Exists(u)
      PROVE  /\ account[u].status = "ACTIVE" => account[u].roles # {}
             /\ ~overlapped /\ faults = 0 /\ IsSettled(u) => Says(u, told[u]) /\ unaudited[u] = 0
  <2>1. IsSettled(u) => \A s \in Slots : ~HasWritten(s, u)
    BY DEF IsSettled, HasWritten
  <2> QED BY <1>1, <2>1 DEF Safe, RowTypes, Undisturbed, SaidAndAudited
<1>2. Safe => DecisionsStand
  BY <1>1 DEF DecisionsStand, Says
<1> QED BY SafeInit, SafeStep, <1>2, PTL DEF Spec

-----------------------------------------------------------------------------
(* Tries and states are counted.                                           *)

LEMMA SlotCounts ==
    ASSUME NEW T \in SUBSET Slots
    PROVE  IsFiniteSet(T) /\ Cardinality(T) \in Nat /\ Cardinality(Slots) \in Nat
           /\ Cardinality(T) <= Cardinality(Slots)
  BY AccountAssumption, FS_Subset, FS_CardinalityType

LEMMA FewerTries ==
    ASSUME Safe, SignInTypes', TriesBounded, NEW u \in Users,
           Trying(u)' \subseteq Trying(u), attempts'[u].count <= attempts[u].count
    PROVE  attempts'[u].count + Cardinality(Trying(u)') <= MAX_FAILED_ATTEMPTS - 1 + Cardinality(Slots)
<1>1. Trying(u) \in SUBSET Slots /\ Trying(u)' \in SUBSET Slots
  BY DEF Trying
<1>2. IsFiniteSet(Trying(u)) /\ Cardinality(Trying(u)) \in Nat /\ Cardinality(Trying(u)') \in Nat
      /\ Cardinality(Slots) \in Nat
  BY <1>1, SlotCounts
<1>3. Cardinality(Trying(u)') <= Cardinality(Trying(u))
  BY <1>2, FS_Subset
<1>4. attempts[u].count \in Nat /\ attempts'[u].count \in Nat /\ MAX_FAILED_ATTEMPTS \in Nat
  BY AccountAssumption DEF Safe, SignInTypes
<1>5. attempts[u].count + Cardinality(Trying(u)) <= MAX_FAILED_ATTEMPTS - 1 + Cardinality(Slots)
  BY DEF TriesBounded
<1> QED BY <1>2, <1>3, <1>4, <1>5

\* A step that begins no login and counts no failure.
LEMMA NoNewTry ==
    ASSUME Safe, Safe', TriesBounded,
           \A s \in Slots : call'[s].op = "login" => call[s].op = "login" /\ call[s].who = call'[s].who,
           \A u \in Users : attempts'[u].count <= attempts[u].count
    PROVE  TriesBounded'
<1>1. \A u : Trying(u)' \subseteq Trying(u)
  BY DEF Trying
<1>2. SignInTypes'
  BY DEF Safe
<1>3. \A u \in Users : attempts'[u].count + Cardinality(Trying(u)') <= MAX_FAILED_ATTEMPTS - 1 + Cardinality(Slots)
  BY <1>1, <1>2, FewerTries
<1> QED BY <1>3 DEF TriesBounded

LEMMA LoginTries ==
    ASSUME Safe, Safe', TriesBounded, NEW s \in Slots, NEW w \in Users, Login(s, w)
    PROVE  TriesBounded'
<1> DEFINE h == [Free EXCEPT !.pc = "find", !.op = "login", !.who = w]
<1>1. h.op = "login" /\ h.who = w
  BY DEF Free
<1>2. Go(s, h)
  BY DEF Login
<1> HIDE DEF h
<1>3. \A r \in Slots : call'[r] = IF r = s THEN h ELSE call[r]
  BY <1>2 DEF Go, Safe, CallTypes
<1>4. \A u \in Users : u # w => Trying(u)' \subseteq Trying(u) /\ attempts'[u] = attempts[u]
  <2>1. \A u \in Users : u # w => Trying(u)' \subseteq Trying(u)
    BY <1>1, <1>3 DEF Trying
  <2>2. \A u \in Users : u # w => attempts'[u] = attempts[u]
    BY DEF Login, Safe, SignInTypes
  <2> QED BY <2>1, <2>2
<1>5. attempts'[w].count \in Nat /\ attempts[w].count \in Nat /\ attempts'[w].count < MAX_FAILED_ATTEMPTS
      /\ MAX_FAILED_ATTEMPTS \in Nat
  <2>1. attempts[w].count \in Nat /\ attempts[w].start \in Nat /\ now \in Nat
        /\ MAX_FAILED_ATTEMPTS \in Nat \ {0} /\ Window \in Nat
    BY AccountAssumption DEF Safe, SignInTypes
  <2>2. attempts'[w] = IF attempts[w].count > 0 /\ now - attempts[w].start > Window
                          THEN NoAttempts ELSE attempts[w]
    BY DEF Login, Safe, SignInTypes
  <2>3. ~(now - attempts[w].start <= Window /\ attempts[w].count >= MAX_FAILED_ATTEMPTS)
    BY DEF Login, Locked
  <2>4. NoAttempts.count = 0
    BY DEF NoAttempts
  <2> QED BY <2>1, <2>2, <2>3, <2>4
<1>6. Trying(w)' \in SUBSET Slots
  BY DEF Trying
<1>7. Cardinality(Trying(w)') \in Nat /\ Cardinality(Trying(w)') <= Cardinality(Slots) /\ Cardinality(Slots) \in Nat
  BY <1>6, SlotCounts
<1>8. attempts'[w].count + Cardinality(Trying(w)') <= MAX_FAILED_ATTEMPTS - 1 + Cardinality(Slots)
  BY <1>5, <1>7
<1>9. \A u \in Users : attempts[u].count <= attempts[u].count
  BY DEF Safe, SignInTypes
<1>10. SignInTypes'
  BY DEF Safe
<1>11. \A u \in Users : u # w =>
          attempts'[u].count + Cardinality(Trying(u)') <= MAX_FAILED_ATTEMPTS - 1 + Cardinality(Slots)
  BY <1>4, <1>9, <1>10, FewerTries
<1> QED BY <1>8, <1>11 DEF TriesBounded

LEMMA FailedTries ==
    ASSUME Safe, Safe', TriesBounded, NEW s \in Slots, Fails(s)
    PROVE  TriesBounded'
<1>1. PICK w \in Users : w = call[s].who /\ call[s].op = "login"
  BY SignInPc DEF Fails
<1>2. call' = [call EXCEPT ![s] = Free] /\ attempts' = [attempts EXCEPT ![w] = OneMore(w)]
  BY <1>1 DEF Fails, Go
<1>3. \A r \in Slots : call'[r] = IF r = s THEN Free ELSE call[r]
  BY <1>2 DEF Safe, CallTypes
<1>4. \A u \in Users : Trying(u)' = IF u = w THEN Trying(u) \ {s} ELSE Trying(u)
  BY <1>1, <1>3, FreeHandler DEF Trying
<1>5. s \in Trying(w)
  BY <1>1 DEF Trying
<1>6. Trying(w) \in SUBSET Slots
  BY DEF Trying
<1>7. IsFiniteSet(Trying(w)) /\ Cardinality(Trying(w)) \in Nat /\ Cardinality(Slots) \in Nat
  BY <1>6, SlotCounts
<1>8. Cardinality(Trying(w)') = Cardinality(Trying(w)) - 1
  BY <1>4, <1>5, <1>7, FS_RemoveElement
<1>9. attempts'[w] = OneMore(w) /\ \A u \in Users : u # w => attempts'[u] = attempts[u]
  BY <1>2 DEF Safe, SignInTypes
<1>10. attempts[w].count \in Nat /\ attempts'[w].count \in Nat /\ attempts'[w].count <= attempts[w].count + 1
  <2>1. attempts[w] \in [count: Nat, start: Nat] /\ attempts[w].count \in Nat
    BY DEF Safe, SignInTypes
  <2>2. OneMore(w).count = 1 \/ OneMore(w).count = attempts[w].count + 1
    BY <2>1 DEF OneMore
  <2> QED BY <1>9, <2>1, <2>2
<1>11. attempts[w].count + Cardinality(Trying(w)) <= MAX_FAILED_ATTEMPTS - 1 + Cardinality(Slots)
  BY DEF TriesBounded
<1>12. MAX_FAILED_ATTEMPTS \in Nat
  BY AccountAssumption
<1>13. attempts'[w].count + Cardinality(Trying(w)') <= MAX_FAILED_ATTEMPTS - 1 + Cardinality(Slots)
  BY <1>7, <1>8, <1>10, <1>11, <1>12
<1>14. \A u \in Users : u # w =>
          attempts'[u].count + Cardinality(Trying(u)') <= MAX_FAILED_ATTEMPTS - 1 + Cardinality(Slots)
  BY <1>4, <1>9 DEF TriesBounded
<1> QED BY <1>13, <1>14 DEF TriesBounded

\* Handlers that go on signing in are those that were at it.
SameSignIns ==
    \A r \in Slots : call'[r].op \in {"login", "sso"} =>
                       call[r].op = call'[r].op /\ call[r].who = call'[r].who

LEMMA SlotSignsIn ==
    ASSUME Safe, NEW s \in Slots, NEW h, Go(s, h),
           h.op \in {"login", "sso"} => call[s].op = h.op /\ call[s].who = h.who
    PROVE  SameSignIns
<1>1. \A r \in Slots : call'[r] = IF r = s THEN h ELSE call[r]
  BY DEF Safe, CallTypes, Go
<1> QED BY <1>1 DEF SameSignIns

LEMMA AdminSignsNobodyIn ==
    ASSUME Safe, NEW s \in Slots, AdminStep(s)
    PROVE  SameSignIns /\ attempts' = attempts /\ states' = states /\ started' = started
<1>1. AdminBeginsNow(s) \/ Write(s) \/ Audit(s) \/ Tell(s)
  BY DEF AdminStep, AdminBeginsNow
<1>2. Free.op \notin {"login", "sso"} /\ \A op \in AdminOps : op \notin {"login", "sso"}
  BY FreeHandler DEF AdminOps
<1>3. CASE AdminBeginsNow(s)
  <2>1. PICK h : Begun(s, h)
    BY <1>3, AdminBegun
  <2>2. SameSignIns
    BY <1>2, <2>1, SlotSignsIn DEF Begun
  <2> QED BY <2>1, <2>2 DEF Begun, signInVars
<1>4. CASE Write(s)
  <2>1. PICK g : Go(s, g) /\ (g.op = "none" \/ (g.op = call[s].op /\ g.who = call[s].who))
    <3>1. call[s] \in Handler /\ Free.op = "none"
      BY FreeHandler, SignInPc
    <3>2. ASSUME NEW pc
          PROVE  [call[s] EXCEPT !.pc = pc].op = call[s].op /\ [call[s] EXCEPT !.pc = pc].who = call[s].who
      BY <3>1 DEF Handler
    <3>3. Go(s, Free) \/ \E pc : Go(s, [call[s] EXCEPT !.pc = pc])
      BY <1>4 DEF Write
    <3> QED BY <3>1, <3>2, <3>3
  <2>2. SameSignIns
    BY <2>1, SlotSignsIn
  <2> QED BY <1>4, <2>2 DEF Write, signInVars
<1>5. CASE Audit(s)
  <2> DEFINE g == [call[s] EXCEPT !.pc = "tell"]
  <2>1. Go(s, g) /\ g.op = call[s].op /\ g.who = call[s].who
    BY <1>5, SignInPc DEF Audit, Handler
  <2> HIDE DEF g
  <2>2. SameSignIns
    BY <2>1, SlotSignsIn
  <2> QED BY <1>5, <2>2 DEF Audit, signInVars
<1>6. CASE Tell(s)
  <2>1. SameSignIns
    BY <1>2, <1>6, SlotSignsIn DEF Tell
  <2> QED BY <1>6, <2>1 DEF Tell, signInVars
<1> QED BY <1>1, <1>3, <1>4, <1>5, <1>6

LEMMA AttemptTypes ==
    ASSUME Safe
    PROVE  \A u \in Users : attempts[u].count \in Nat /\ attempts[u].count <= attempts[u].count
                           /\ NoAttempts.count <= attempts[u].count
  BY DEF Safe, SignInTypes, NoAttempts

\* No step but a login and a callback begins to sign in, and none but a failure
\* counts one.
StepAside ==
    /\ SameSignIns
    /\ \A u \in Users : attempts'[u].count <= attempts[u].count
    /\ \/ states' \subseteq states /\ started' = started
       \/ started' = started + 1 /\ states' = states \cup {started + 1}

LEMMA Steps ==
    ASSUME Safe, [Next]_vars
    PROVE  \/ StepAside
           \/ \E s \in Slots : \/ \E u \in Users : Login(s, u)
                               \/ Fails(s)
                               \/ \E n \in states : SsoCallback(s, n)
<1>1. Free.op \notin {"login", "sso"}
  BY FreeHandler
<1>2. ASSUME NEW s \in Slots, AdminStep(s)
      PROVE  StepAside
  BY <1>2, AdminSignsNobodyIn, AttemptTypes DEF StepAside
<1>3. ASSUME NEW s \in Slots, FindUser(s)
      PROVE  StepAside
  <2>1. PICK row : Go(s, [call[s] EXCEPT !.pc = "compare", !.seen = row])
    BY <1>3 DEF FindUser
  <2> DEFINE h == [call[s] EXCEPT !.pc = "compare", !.seen = row]
  <2>2. h.op = call[s].op /\ h.who = call[s].who
    BY SignInPc DEF Handler
  <2> HIDE DEF h
  <2>3. SameSignIns
    BY <2>1, <2>2, SlotSignsIn DEF h
  <2> QED BY <1>3, <2>3, AttemptTypes DEF StepAside, FindUser, signInVars
<1>4. ASSUME NEW s \in Slots, Succeeds(s)
      PROVE  StepAside
  <2>1. SameSignIns
    BY <1>1, <1>4, SlotSignsIn DEF Succeeds
  <2>2. \A u \in Users : attempts'[u] = attempts[u] \/ attempts'[u] = NoAttempts
    BY <1>4 DEF Succeeds, Safe, SignInTypes
  <2>3. \A u \in Users : attempts'[u].count <= attempts[u].count
    BY <2>2, AttemptTypes
  <2> QED BY <1>4, <2>1, <2>3 DEF StepAside, Succeeds
<1>5. ASSUME NEW s \in Slots, NEW u, SsoExchange(s, u)
      PROVE  StepAside
  <2>1. SameSignIns
    BY <1>1, <1>5, SlotSignsIn DEF SsoExchange
  <2> QED BY <1>5, <2>1, AttemptTypes DEF StepAside, SsoExchange
<1>6. ASSUME NEW s \in Slots, Fail(s)
      PROVE  StepAside
  <2>1. SameSignIns
    BY <1>1, <1>6, SlotSignsIn DEF Fail
  <2> QED BY <1>6, <2>1, AttemptTypes DEF StepAside, Fail, signInVars
<1>7. CASE Restart
  <2>1. SameSignIns
    BY <1>1, <1>7 DEF Restart, SameSignIns
  <2>2. \A u \in Users : attempts'[u] = NoAttempts
    BY <1>7 DEF Restart
  <2>3. \A u \in Users : attempts'[u].count <= attempts[u].count
    BY <2>2, AttemptTypes
  <2> QED BY <1>7, <2>1, <2>3 DEF StepAside, Restart
<1>8. ASSUME \/ SsoStart \/ \E n \in states : SsoExpires(n)
             \/ \E u \in Users : DevLogin(u) \/ SessionEnds(u)
             \/ Tick \/ UNCHANGED vars
      PROVE  StepAside
  <2>1. call' = call /\ attempts' = attempts
    BY <1>8 DEF SsoStart, SsoExpires, DevLogin, SessionEnds, Tick, vars
  <2>2. \/ states' \subseteq states /\ started' = started
        \/ started' = started + 1 /\ states' = states \cup {started + 1}
    BY <1>8 DEF SsoStart, SsoExpires, DevLogin, SessionEnds, Tick, vars
  <2> QED BY <2>1, <2>2, AttemptTypes DEF StepAside, SameSignIns
<1>9. ASSUME NEW s \in Slots, SignInStep(s)
      PROVE  \/ StepAside \/ \E u \in Users : Login(s, u)
             \/ Fails(s) \/ \E n \in states : SsoCallback(s, n)
  BY <1>3, <1>4, <1>5, <1>9 DEF SignInStep
<1> QED BY <1>2, <1>6, <1>7, <1>8, <1>9 DEF Next

\* The limit on wrong passwords holds but for the logins that were on their way
\* when it was reached (enforceRateLimit, recordFailure).
THEOREM TriesLimited == Spec => []TriesBounded
<1>1. Init => TriesBounded
  <2> SUFFICES ASSUME Init, NEW u \in Users
               PROVE  attempts[u].count + Cardinality(Trying(u)) <= MAX_FAILED_ATTEMPTS - 1 + Cardinality(Slots)
    BY DEF TriesBounded
  <2>1. attempts[u].count = 0
    BY DEF Init, NoAttempts
  <2>2. Trying(u) \in SUBSET Slots
    BY DEF Trying
  <2>3. Cardinality(Trying(u)) \in Nat /\ Cardinality(Trying(u)) <= Cardinality(Slots) /\ Cardinality(Slots) \in Nat
    BY <2>2, SlotCounts
  <2>4. MAX_FAILED_ATTEMPTS \in Nat \ {0}
    BY AccountAssumption
  <2> QED BY <2>1, <2>3, <2>4
<1>2. ASSUME Safe, TriesBounded, [Next]_vars
      PROVE  TriesBounded'
  <2>1. Safe'
    BY <1>2, SafeStep
  <2>2. CASE StepAside
    BY <1>2, <2>1, <2>2, NoNewTry DEF StepAside, SameSignIns
  <2>3. ASSUME NEW s \in Slots, NEW n \in states, SsoCallback(s, n)
        PROVE  TriesBounded'
    <3> DEFINE h == [Free EXCEPT !.pc = "exchange", !.op = "sso"]
    <3>1. h.op = "sso" /\ Go(s, h)
      BY <2>3 DEF Free, SsoCallback
    <3> HIDE DEF h
    <3>2. \A r \in Slots : call'[r] = IF r = s THEN h ELSE call[r]
      BY <1>2, <3>1 DEF Safe, CallTypes, Go
    <3>3. attempts' = attempts
      BY <2>3 DEF SsoCallback
    <3> QED BY <1>2, <2>1, <3>1, <3>2, <3>3, NoNewTry, AttemptTypes
  <2> QED BY <1>2, <2>1, <2>2, <2>3, Steps, LoginTries, FailedTries
<1> QED BY SafeInit, SafeStep, <1>1, <1>2, PTL DEF Spec

LEMMA StateCounts ==
    ASSUME Safe
    PROVE  /\ IsFiniteSet(states) /\ Cardinality(states) \in Nat
           /\ IsFiniteSet(Exchanging) /\ Cardinality(Exchanging) \in Nat /\ started \in Nat
<1>1. states \in SUBSET (1..started) /\ started \in Nat
  BY DEF Safe, SignInTypes
<1>2. IsFiniteSet(1..started)
  BY <1>1, FS_Interval
<1>3. IsFiniteSet(states) /\ Cardinality(states) \in Nat
  BY <1>1, <1>2, FS_Subset, FS_CardinalityType
<1>4. Exchanging \in SUBSET Slots
  BY DEF Exchanging
<1> QED BY <1>1, <1>3, <1>4, SlotCounts

\* No state is exchanged but one that was handed out, and none twice
\* (oidcCallback deletes it before anything else).
THEOREM StatesSpent == Spec => []StatesUsedOnce
<1>1. Init => StatesUsedOnce
  <2> SUFFICES ASSUME Init
               PROVE  StatesUsedOnce
    OBVIOUS
  <2>1. states = {} /\ started = 0
    BY DEF Init
  <2>2. Exchanging = {}
    BY FreeHandler DEF Init, Exchanging
  <2>3. Cardinality(states) = 0 /\ Cardinality(Exchanging) = 0
    BY <2>1, <2>2, FS_EmptySet
  <2> QED BY <2>1, <2>3 DEF StatesUsedOnce
<1>2. ASSUME Safe, StatesUsedOnce, [Next]_vars
      PROVE  StatesUsedOnce'
  <2>1. Safe'
    BY <1>2, SafeStep
  <2>2. /\ IsFiniteSet(states) /\ Cardinality(states) \in Nat
        /\ IsFiniteSet(Exchanging) /\ Cardinality(Exchanging) \in Nat /\ started \in Nat
        /\ Cardinality(states) + Cardinality(Exchanging) <= started
    BY <1>2, StateCounts DEF StatesUsedOnce
  <2>3. Cardinality(states') \in Nat /\ Cardinality(Exchanging') \in Nat /\ started' \in Nat
    <3>1. states' \in SUBSET (1..started') /\ started' \in Nat
      BY <2>1 DEF Safe, SignInTypes
    <3>2. IsFiniteSet(1..started')
      BY <3>1, FS_Interval
    <3>3. Exchanging' \in SUBSET Slots
      BY DEF Exchanging
    <3> QED BY <3>1, <3>2, <3>3, FS_Subset, FS_CardinalityType, SlotCounts
  <2>4. ASSUME Exchanging' \subseteq Exchanging, states' \subseteq states, started' = started
        PROVE  StatesUsedOnce'
    <3>1. Cardinality(Exchanging') <= Cardinality(Exchanging) /\ Cardinality(states') <= Cardinality(states)
      BY <2>2, <2>4, FS_Subset
    <3>2. Cardinality(states') + Cardinality(Exchanging') <= started'
      BY <2>2, <2>3, <2>4, <3>1
    <3> QED BY <3>2 DEF StatesUsedOnce
  <2>5. CASE StepAside
    <3>1. Exchanging' \subseteq Exchanging
      BY <2>5 DEF StepAside, SameSignIns, Exchanging
    <3>2. CASE states' \subseteq states /\ started' = started
      BY <2>4, <3>1, <3>2
    <3>3. CASE started' = started + 1 /\ states' = states \cup {started + 1}
      <4>1. Cardinality(Exchanging') <= Cardinality(Exchanging)
        BY <2>2, <3>1, FS_Subset
      <4>2. Cardinality(states') <= Cardinality(states) + 1
        <5>1. Cardinality(states') = IF started + 1 \in states THEN Cardinality(states)
                                                               ELSE Cardinality(states) + 1
          BY <2>2, <3>3, FS_AddElement
        <5> QED BY <2>2, <5>1
      <4>3. Cardinality(states') + Cardinality(Exchanging') <= started'
        BY <2>2, <2>3, <3>3, <4>1, <4>2
      <4> QED BY <4>3 DEF StatesUsedOnce
    <3> QED BY <2>5, <3>2, <3>3 DEF StepAside
  <2>6. ASSUME NEW s \in Slots, NEW n \in states, SsoCallback(s, n)
        PROVE  StatesUsedOnce'
    <3> DEFINE h == [Free EXCEPT !.pc = "exchange", !.op = "sso"]
    <3>1. h.op = "sso" /\ Go(s, h)
      BY <2>6 DEF Free, SsoCallback
    <3> HIDE DEF h
    <3>2. \A r \in Slots : call'[r] = IF r = s THEN h ELSE call[r]
      BY <1>2, <3>1 DEF Safe, CallTypes, Go
    <3>3. s \notin Exchanging
      BY <1>2, <2>6, SignInPc, OpOfPc DEF SsoCallback, CanBegin, Exchanging
    <3>4. Exchanging' = Exchanging \cup {s}
      BY <3>1, <3>2 DEF Exchanging
    <3>5. Cardinality(Exchanging') = Cardinality(Exchanging) + 1
      BY <2>2, <3>3, <3>4, FS_AddElement
    <3>6. Cardinality(states') = Cardinality(states) - 1 /\ started' = started
      BY <2>2, <2>6, FS_RemoveElement DEF SsoCallback
    <3>7. Cardinality(states') + Cardinality(Exchanging') <= started'
      BY <2>2, <3>5, <3>6
    <3> QED BY <3>7 DEF StatesUsedOnce
  <2>7. ASSUME NEW s \in Slots, NEW u \in Users, Login(s, u)
        PROVE  StatesUsedOnce'
    <3> DEFINE h == [Free EXCEPT !.pc = "find", !.op = "login", !.who = u]
    <3>1. h.op # "sso" /\ Go(s, h) /\ states' = states /\ started' = started
      BY <2>7 DEF Free, Login
    <3> HIDE DEF h
    <3>2. \A r \in Slots : call'[r] = IF r = s THEN h ELSE call[r]
      BY <1>2, <3>1 DEF Safe, CallTypes, Go
    <3>3. Exchanging' \subseteq Exchanging
      BY <3>1, <3>2 DEF Exchanging
    <3> QED BY <2>4, <3>1, <3>3
  <2>8. ASSUME NEW s \in Slots, Fails(s)
        PROVE  StatesUsedOnce'
    <3>1. SameSignIns
      BY <1>2, <2>8, FreeHandler, SlotSignsIn DEF Fails
    <3>2. Exchanging' \subseteq Exchanging
      BY <3>1 DEF SameSignIns, Exchanging
    <3> QED BY <2>4, <2>8, <3>2 DEF Fails
  <2> QED BY <1>2, <2>5, <2>6, <2>7, <2>8, Steps
<1> QED BY SafeInit, SafeStep, <1>1, <1>2, PTL DEF Spec
=============================================================================
