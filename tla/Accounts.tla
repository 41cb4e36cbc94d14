------------------------------ MODULE Accounts ------------------------------
(***************************************************************************)
(* Accounts: registration, the ways to sign in (auth.service.ts,           *)
(* oidc.service.ts) and the administration of users                        *)
(* (admin-users.service.ts), one action per database access or other wait  *)
(* of a handler.  What is decided on a row that was read is written later, *)
(* and the write checks nothing again.                                     *)
(*                                                                         *)
(* A user is an e-mail address in lower case, as the DTOs leave it.        *)
(***************************************************************************)
EXTENDS Roles, Integers, FiniteSets

CONSTANTS
    Seeded,         \* the accounts of the seed, all active
    Slots,          \* slots for handlers in progress
    Grants,         \* the sets of roles administrators assign
    MAX_FAILED_ATTEMPTS,
    Window,         \* LOCKOUT_WINDOW_MS
    MaxTime,        \* bound: the clock
    MaxFaults,      \* bound: handlers cut off by a failing call or a restart
    MaxLogins,      \* bound: sign-ins through the identity provider
    Operations,     \* what a behaviour is about: sets of handlers, one of them each
    Nobody, NoAccount

AccountStatus == {"PENDING_APPROVAL", "ACTIVE", "REJECTED"}

\* A row of User, with its UserRole rows.  SUSPENDED is never written.
Account == [status: AccountStatus, active: BOOLEAN, roles: SUBSET RoleName,
            password: BOOLEAN, sso: BOOLEAN]

ASSUME AccountAssumption ==
    /\ RolesOf \in [Users -> SUBSET RoleName]
    /\ Seeded \subseteq Users /\ Nobody \notin Users
    /\ \A u \in Seeded : RolesOf[u] # {}
    /\ \E u \in Seeded : "SYS_ADMIN" \in RolesOf[u]
    /\ Grants \subseteq SUBSET RoleName /\ {} \notin Grants
    /\ MAX_FAILED_ATTEMPTS \in Nat \ {0} /\ Window \in Nat /\ MaxTime \in Nat
    /\ MaxFaults \in Nat /\ MaxLogins \in Nat
    /\ NoAccount \notin Account
    /\ IsFiniteSet(Slots)

VARIABLES
    account,    \* the row of each user
    attempts,   \* failed attempts of each user, in the memory of the process
    states,     \* open states of the identity provider's sign-in
    started,    \* ghost: how many there have been
    session,    \* who has a token
    now,        \* the clock
    call,       \* what the handler in each slot has in hand
    told,       \* ghost: the last mail to each user about the account
    unaudited,  \* ghost: changes of each account without their audit row
    overlapped, \* ghost: two handlers of the administration overlapped
    faults,     \* ghost: handlers cut off
    about       \* the handlers of this behaviour

vars == <<account, attempts, states, started, session, now, call, told, unaudited,
          overlapped, faults, about>>

\* What only the handlers of the administration change, and what only sign-in does.
adminVars == <<account, told, unaudited, overlapped>>
signInVars == <<attempts, states, started, session, now>>

NoAttempts == [count |-> 0, start |-> 0]
NoRow == [status |-> "REJECTED", active |-> FALSE, roles |-> {}, password |-> FALSE, sso |-> FALSE]

\* The handler's actor, the user it is about, the roles it grants, the row it
\* has read.
Free == [pc |-> "free", op |-> "none", by |-> Nobody, who |-> Nobody, roles |-> {}, seen |-> NoRow]

CanBegin(s, op) == op \in about /\ call[s].pc = "free"
Go(s, h) == call' = [call EXCEPT ![s] = h]
Exists(u) == account[u] # NoAccount

-----------------------------------------------------------------------------
(* Requests of signed-in users.                                            *)

\* The guard reads the row of every request's user: his roles are those of the
\* row, not those of the token.
Validated(u) ==
    /\ u \in session /\ Exists(u)
    /\ account[u].active /\ account[u].status = "ACTIVE"

\* The guard of a route: any one of its roles.
Authorised(u, roles) == Validated(u) /\ account[u].roles \cap roles # {}

ADMIN_ROLES == {"IT_ADMIN", "SYS_ADMIN"}
IsSysAdmin(u) == "SYS_ADMIN" \in account[u].roles

-----------------------------------------------------------------------------
(* Registration and the administration of users.                           *)

AdminOps == {"register", "create", "approve", "reject", "assign", "deactivate"}

AdminBegins(s, op, a, u, roles, seen) ==
    /\ Go(s, [pc |-> op, op |-> op, by |-> a, who |-> u, roles |-> roles, seen |-> seen])
    /\ overlapped' = (overlapped \/ \E r \in Slots : call[r].op \in AdminOps)
    /\ UNCHANGED <<account, told, unaudited, faults, about, signInVars>>

\* The check for a known address; the password is hashed before the insert.
Register(s, u) ==
    /\ CanBegin(s, "register")
    /\ ~Exists(u)
    /\ AdminBegins(s, "register", Nobody, u, {}, NoRow)

\* Only a SYS_ADMIN grants SYS_ADMIN, by the roles he had when he asked.
MayGrant(a, roles) == "SYS_ADMIN" \in roles => IsSysAdmin(a)

CreateUser(s, a, u, roles) ==
    /\ CanBegin(s, "create") /\ Authorised(a, ADMIN_ROLES)
    /\ ~Exists(u) /\ MayGrant(a, roles)
    /\ AdminBegins(s, "create", a, u, roles, NoRow)

Approve(s, a, u, roles) ==
    /\ CanBegin(s, "approve") /\ Authorised(a, ADMIN_ROLES)
    /\ Exists(u) /\ account[u].status = "PENDING_APPROVAL"
    /\ AdminBegins(s, "approve", a, u, roles, account[u])

Reject(s, a, u) ==
    /\ CanBegin(s, "reject") /\ Authorised(a, ADMIN_ROLES)
    /\ Exists(u) /\ account[u].status = "PENDING_APPROVAL"
    /\ AdminBegins(s, "reject", a, u, {}, account[u])

\* Seeded fault: administrators may change themselves.
MayAssignAnyone(a, u, role) ==
    /\ MayGrant(a, {role})
    /\ IsSysAdmin(u) => IsSysAdmin(a)

\* Nobody changes himself, and only a SYS_ADMIN changes another.
MayAssign(a, u, role) ==
    /\ a # u
    /\ MayGrant(a, {role})
    /\ IsSysAdmin(u) => IsSysAdmin(a)

AssignRole(s, a, u, role) ==
    /\ CanBegin(s, "assign") /\ Authorised(a, ADMIN_ROLES)
    /\ Exists(u) /\ MayAssign(a, u, role)
    /\ AdminBegins(s, "assign", a, u, {role}, account[u])

Deactivate(s, a, u) ==
    /\ CanBegin(s, "deactivate") /\ Authorised(a, {"SYS_ADMIN"})
    /\ Exists(u) /\ a # u
    /\ AdminBegins(s, "deactivate", a, u, {}, account[u])

NewAccount(status, roles) ==
    [status |-> status, active |-> TRUE, roles |-> roles, password |-> TRUE, sso |-> FALSE]

\* Seeded fault: an assignment does not activate a pending account.
WrittenInactive(h) ==
    LET row == account[h.who] IN
    CASE h.op = "register"   -> NewAccount("PENDING_APPROVAL", {})
      [] h.op = "create"     -> NewAccount("ACTIVE", h.roles)
      [] h.op = "approve"    -> [row EXCEPT !.status = "ACTIVE"]
      [] h.op = "reject"     -> [row EXCEPT !.status = "REJECTED"]
      [] h.op = "assign"     -> [row EXCEPT !.roles = h.roles]
      [] h.op = "deactivate" -> [row EXCEPT !.active = FALSE]

\* What each handler writes, whatever the row has become since it was read:
\* approval and assignment replace the roles, an assignment activates an account
\* that was pending when it was read, a rejection leaves the roles.
Written(h) ==
    LET row == account[h.who] IN
    CASE h.op = "register"   -> NewAccount("PENDING_APPROVAL", {})
      [] h.op = "create"     -> NewAccount("ACTIVE", h.roles)
      [] h.op = "approve"    -> [row EXCEPT !.status = "ACTIVE", !.roles = h.roles]
      [] h.op = "reject"     -> [row EXCEPT !.status = "REJECTED"]
      [] h.op = "assign"     -> [row EXCEPT !.roles = h.roles,
             !.status = IF h.seen.status = "PENDING_APPROVAL" THEN "ACTIVE" ELSE row.status]
      [] h.op = "deactivate" -> [row EXCEPT !.active = FALSE]

\* The write, in one transaction; an insert fails if the address is taken.
Write(s) ==
    LET h == call[s] IN
    /\ h.pc \in AdminOps
    /\ IF h.op \in {"register", "create"} /\ Exists(h.who)
         THEN Go(s, Free) /\ UNCHANGED <<account, unaudited>>
         ELSE /\ account' = [account EXCEPT ![h.who] = Written(h)]
              /\ unaudited' = [unaudited EXCEPT ![h.who] =
                    IF h.op = "register" THEN unaudited[h.who] ELSE unaudited[h.who] + 1]
              /\ Go(s, [h EXCEPT !.pc = IF h.op = "register" THEN "tell" ELSE "audit"])
    /\ UNCHANGED <<told, overlapped, faults, about, signInVars>>

Audit(s) ==
    LET h == call[s] IN
    /\ h.pc = "audit"
    /\ unaudited' = [unaudited EXCEPT ![h.who] = unaudited[h.who] - 1]
    /\ Go(s, [h EXCEPT !.pc = "tell"])
    /\ UNCHANGED <<account, told, overlapped, faults, about, signInVars>>

\* The mail a handler sends, the last thing it does.
MailOf(h) ==
    CASE h.op = "register" -> "registered"
      [] h.op = "create"   -> "created"
      [] h.op = "approve" \/ (h.op = "assign" /\ h.seen.status = "PENDING_APPROVAL") -> "approved"
      [] h.op = "reject"   -> "rejected"
      [] OTHER             -> told[h.who]

Tell(s) ==
    LET h == call[s] IN
    /\ h.pc = "tell"
    /\ told' = [told EXCEPT ![h.who] = MailOf(h)]
    /\ Go(s, Free)
    /\ UNCHANGED <<account, unaudited, overlapped, faults, about, signInVars>>

-----------------------------------------------------------------------------
(* Signing in with a password.                                             *)

\* Seeded fault: the limit is checked one attempt late.
LockedLate(u) ==
    /\ now - attempts[u].start <= Window
    /\ attempts[u].count > MAX_FAILED_ATTEMPTS

\* enforceRateLimit refuses while the window of the failures lasts.
Locked(u) ==
    /\ now - attempts[u].start <= Window
    /\ attempts[u].count >= MAX_FAILED_ATTEMPTS

\* A record whose window is over is dropped.
Login(s, u) ==
    /\ CanBegin(s, "login")
    /\ ~Locked(u)
    /\ attempts' = IF attempts[u].count > 0 /\ now - attempts[u].start > Window
                       THEN [attempts EXCEPT ![u] = NoAttempts] ELSE attempts
    /\ Go(s, [Free EXCEPT !.pc = "find", !.op = "login", !.who = u])
    /\ UNCHANGED <<adminVars, states, started, session, now, faults, about>>

FindUser(s) ==
    LET h == call[s] IN
    /\ h.pc = "find"
    /\ Go(s, [h EXCEPT !.pc = "compare", !.seen = IF Exists(h.who) THEN account[h.who] ELSE NoRow])
    /\ UNCHANGED <<adminVars, signInVars, faults, about>>

\* recordFailure: one more in the window, or the first of a new one.
OneMore(u) ==
    IF attempts[u].count = 0 \/ now - attempts[u].start > Window
        THEN [count |-> 1, start |-> now]
        ELSE [attempts[u] EXCEPT !.count = attempts[u].count + 1]

\* No such user, no password, or the wrong one.
Fails(s) ==
    LET h == call[s] IN
    /\ h.pc = "compare"
    /\ attempts' = [attempts EXCEPT ![h.who] = OneMore(h.who)]
    /\ Go(s, Free)
    /\ UNCHANGED <<adminVars, states, started, session, now, faults, about>>

\* The right password: whether the account may sign in is decided on the row
\* read before the comparison, and a refusal leaves the failures as they are.
Succeeds(s) ==
    LET h == call[s]
        u == h.who
        fit == h.seen.status = "ACTIVE" /\ h.seen.active
    IN
    /\ h.pc = "compare" /\ h.seen.password
    /\ attempts' = IF fit THEN [attempts EXCEPT ![u] = NoAttempts] ELSE attempts
    /\ session' = IF fit THEN session \cup {u} ELSE session
    /\ Go(s, Free)
    /\ UNCHANGED <<adminVars, states, started, now, faults, about>>

-----------------------------------------------------------------------------
(* Signing in through the identity provider, or for development.           *)

SsoStart ==
    /\ "sso" \in about /\ started < MaxLogins
    /\ started' = started + 1
    /\ states' = states \cup {started + 1}
    /\ UNCHANGED <<adminVars, attempts, session, now, call, faults, about>>

SsoExpires(n) ==
    /\ n \in states
    /\ states' = states \ {n}
    /\ UNCHANGED <<adminVars, attempts, started, session, now, call, faults, about>>

\* Seeded fault: the state stays until it expires.
SsoCallbackAgain(s, n) ==
    /\ CanBegin(s, "sso") /\ n \in states
    /\ Go(s, [Free EXCEPT !.pc = "exchange", !.op = "sso"])
    /\ UNCHANGED <<adminVars, signInVars, faults, about>>

\* A state is good for one callback, however it ends.
SsoCallback(s, n) ==
    /\ CanBegin(s, "sso") /\ n \in states
    /\ states' = states \ {n}
    /\ Go(s, [Free EXCEPT !.pc = "exchange", !.op = "sso"])
    /\ UNCHANGED <<adminVars, attempts, started, session, now, faults, about>>

\* The provider names u, or refuses: only the user's status is looked at here.
SsoExchange(s, u) ==
    /\ call[s].pc = "exchange"
    /\ u # Nobody => Exists(u) /\ account[u].sso
    /\ session' = IF u # Nobody /\ account[u].active THEN session \cup {u} ELSE session
    /\ Go(s, Free)
    /\ UNCHANGED <<adminVars, attempts, states, started, now, faults, about>>

\* Only outside production.
DevLogin(u) ==
    /\ "dev" \in about
    /\ Exists(u) /\ account[u].active
    /\ session' = session \cup {u}
    /\ UNCHANGED <<adminVars, attempts, states, started, now, call, faults, about>>

\* A token runs out or is dropped by the client.
SessionEnds(u) ==
    /\ "dev" \in about
    /\ session' = session \ {u}
    /\ UNCHANGED <<adminVars, attempts, states, started, now, call, faults, about>>

-----------------------------------------------------------------------------

Tick ==
    /\ "login" \in about /\ now < MaxTime
    /\ now' = now + 1
    /\ UNCHANGED <<adminVars, attempts, states, started, session, call, faults, about>>

\* A call of the handler fails, and the handler with it.
Fail(s) ==
    /\ call[s].pc # "free" /\ faults < MaxFaults
    /\ faults' = faults + 1
    /\ Go(s, Free)
    /\ UNCHANGED <<adminVars, signInVars, about>>

\* The process starts again: what it kept in memory is gone.
Restart ==
    /\ faults < MaxFaults
    /\ faults' = faults + 1
    /\ call' = [s \in Slots |-> Free]
    /\ attempts' = [u \in Users |-> NoAttempts]
    /\ states' = {}
    /\ UNCHANGED <<adminVars, started, session, now, about>>

AdminStep(s) ==
    \/ \E u \in Users : Register(s, u)
    \/ \E a \in Users, u \in Users :
         \/ Reject(s, a, u) \/ Deactivate(s, a, u)
         \/ \E roles \in Grants : CreateUser(s, a, u, roles) \/ Approve(s, a, u, roles)
         \/ \E role \in UNION Grants : AssignRole(s, a, u, role)
    \/ Write(s) \/ Audit(s) \/ Tell(s)

SignInStep(s) ==
    \/ \E u \in Users : Login(s, u)
    \/ FindUser(s) \/ Fails(s) \/ Succeeds(s)
    \/ \E n \in states : SsoCallback(s, n)
    \/ \E u \in Users \cup {Nobody} : SsoExchange(s, u)

Init ==
    /\ account = [u \in Users |-> IF u \in Seeded
          THEN [status |-> "ACTIVE", active |-> TRUE, roles |-> RolesOf[u], password |-> TRUE, sso |-> TRUE]
          ELSE NoAccount]
    /\ attempts = [u \in Users |-> NoAttempts]
    /\ states = {} /\ started = 0
    /\ session = Seeded
    /\ now = 0
    /\ call = [s \in Slots |-> Free]
    /\ told = [u \in Users |-> "nothing"]
    /\ unaudited = [u \in Users |-> 0]
    /\ overlapped = FALSE /\ faults = 0
    /\ about \in Operations

Next ==
    \/ \E s \in Slots : AdminStep(s) \/ SignInStep(s) \/ Fail(s)
    \/ SsoStart \/ \E n \in states : SsoExpires(n)
    \/ \E u \in Users : DevLogin(u) \/ SessionEnds(u)
    \/ Tick \/ Restart

Spec == Init /\ [][Next]_vars

-----------------------------------------------------------------------------

Trying(u) == {s \in Slots : call[s].op = "login" /\ call[s].who = u}
Exchanging == {s \in Slots : call[s].op = "sso"}

\* Nobody gets more wrong attempts within a window than the limit and one for
\* every other login that had passed the check by then: the check comes before
\* the comparison and the count after it.
TriesBounded ==
    \A u \in Users :
        attempts[u].count + Cardinality(Trying(u)) <= MAX_FAILED_ATTEMPTS - 1 + Cardinality(Slots)

IsSettled(u) == \A s \in Slots : call[s].who # u

\* An active account has a role, however handlers overlap; and as long as none
\* do and none fails, the last mail about an account says what its status is and
\* every change of it has its audit row.
DecisionsStand ==
    \A u \in {v \in Users : Exists(v)} :
        /\ account[u].status = "ACTIVE" => account[u].roles # {}
        /\ ~overlapped /\ faults = 0 /\ IsSettled(u) =>
             /\ account[u].status = "PENDING_APPROVAL" => told[u] = "registered"
             /\ account[u].status = "REJECTED" => told[u] = "rejected"
             /\ account[u].status = "ACTIVE" /\ u \notin Seeded => told[u] \in {"created", "approved"}
             /\ unaudited[u] = 0

\* As long as no two administrators work at once there is always a system
\* administrator left who can sign in.  (Two can demote one another.)
SysAdminRemains ==
    ~overlapped =>
        \E u \in Users : Exists(u) /\ account[u].active /\ account[u].status = "ACTIVE" /\ IsSysAdmin(u)

\* A state of the identity provider is exchanged once.
StatesUsedOnce ==
    Cardinality(states) + Cardinality(Exchanging) <= started
=============================================================================
