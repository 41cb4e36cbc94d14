---------------------------- MODULE Chat_proofs -----------------------------
(***************************************************************************)
(* What the chat keeps however many calls are in progress, messages are    *)
(* sent and operations fail: a second ticket takes a fault, and so does a  *)
(* ticket that is not confirmed.  And what the assistant finds in the      *)
(* index of articles has been published.                                   *)
(***************************************************************************)
EXTENDS Chat, KnowledgeIndex, FiniteSetTheorems, TLAPS

PC == {"free", "session", "history", "save", "ask", "create", "link", "reply", "answer"}
Kind == UserText \cup {"mention", "plain", "created", "already created"}
Message == [kind: Kind, ticket: Nat]
Hand == [pc: PC, text: UserText, seen: Nat, prior: Seq(Message), answer: Message, made: Nat]

TypeOK ==
    /\ session \in Nat /\ messages \in Seq(Message) /\ tickets \in Nat
    /\ call \in [Calls -> Hand]
    /\ drawer \in [waits: Calls \cup {Waiting}, shows: Nat]
    /\ faults \in Nat /\ broken \in Nat

-----------------------------------------------------------------------------
(* How many tickets there can be.                                          *)

\* What a handler has seen of the session when it creates a ticket, and what it
\* has made when it links one.
Orderly(h) ==
    /\ h.pc = "create" => h.seen = 0
    /\ h.pc = "link" => h.made # 0

\* The handler may yet create a ticket, if the session has this one.
MayCreate(h, linked) ==
    \/ h.pc = "session" /\ linked = 0
    \/ h.pc \in {"history", "save", "ask", "create"} /\ h.seen = 0

\* Handlers that may, and the drawer has stopped waiting for.
Abandoned(C, waits, linked) == {c \in Calls : c # waits /\ MayCreate(C[c], linked)}

One(condition) == IF condition THEN 1 ELSE 0

\* The drawer waits for one that may, or that is about to link its ticket.
AwaitsOne(C, waits, linked) == waits # Waiting /\ MayCreate(C[waits], linked)
AwaitsLink(C, waits) == waits # Waiting /\ C[waits].pc = "link"

\* A ticket to come or made is paid for by a fault, but for the first: the
\* session has it, or the drawer is waiting for it.
Budgeted ==
    tickets + Cardinality(Abandoned(call, drawer.waits, session)) + One(AwaitsOne(call, drawer.waits, session))
        <= faults + broken
           + One(session # 0 \/ AwaitsOne(call, drawer.waits, session) \/ AwaitsLink(call, drawer.waits))

-----------------------------------------------------------------------------
(* Which tickets are confirmed.                                            *)

\* What a handler has made and seen is there.
Exists(h) ==
    /\ h.made <= tickets /\ h.seen <= tickets /\ h.answer.ticket = 0
    /\ h.made # 0 => h.pc \in {"link", "reply", "answer"}
    /\ h.pc = "answer" /\ h.made # 0 => Named(h.made)

Unconfirmed == {id \in 1..tickets : ~Named(id) /\ ~InTheMaking(id)}

Confirming ==
    /\ \A c \in Calls : Exists(call[c])
    /\ \A i \in DOMAIN messages : messages[i].ticket <= tickets
    /\ session <= tickets
    /\ Cardinality(Unconfirmed) <= faults

Safe ==
    /\ TypeOK
    /\ \A c \in Calls : Orderly(call[c])
    /\ Budgeted
    /\ Confirming

-----------------------------------------------------------------------------
(* Sets.                                                                   *)

\* The cardinality of a subset of a finite set.
LEMMA Smaller ==
    ASSUME NEW S, NEW T, IsFiniteSet(T), S \subseteq T
    PROVE  IsFiniteSet(S) /\ Cardinality(S) \in Nat /\ Cardinality(T) \in Nat
           /\ Cardinality(S) <= Cardinality(T)
  BY FS_Subset, FS_CardinalityType

\* Taking an element away or adding one.
LEMMA OneLess ==
    ASSUME NEW S, NEW x, IsFiniteSet(S), x \in S
    PROVE  Cardinality(S \ {x}) = Cardinality(S) - 1 /\ Cardinality(S) \in Nat
  BY FS_RemoveElement, FS_CardinalityType

LEMMA OneMore ==
    ASSUME NEW S, NEW x, NEW T, IsFiniteSet(S), T \subseteq S \cup {x}
    PROVE  IsFiniteSet(T) /\ Cardinality(T) <= Cardinality(S) + 1
           /\ Cardinality(T) \in Nat /\ Cardinality(S) \in Nat
<1>1. IsFiniteSet(S \cup {x}) /\ Cardinality(S \cup {x}) <= Cardinality(S) + 1
  <2>1. Cardinality(S) \in Nat
    BY FS_CardinalityType
  <2>2. /\ IsFiniteSet(S \cup {x})
        /\ Cardinality(S \cup {x}) = IF x \in S THEN Cardinality(S) ELSE Cardinality(S) + 1
    BY FS_AddElement
  <2> QED BY <2>1, <2>2
<1>2. QED BY <1>1, FS_CardinalityType, Smaller

-----------------------------------------------------------------------------
(* Types.                                                                  *)

LEMMA AnswerTypes ==
    ASSUME NEW answer \in Answers, NEW r \in answer.reply
    PROVE  r \in Message /\ r.ticket = 0
<1> USE DEF Message, Kind, Mention, Plain
<1>1. Mention \in Message /\ Plain \in Message /\ Mention.ticket = 0 /\ Plain.ticket = 0
  OBVIOUS
<1>2. answer.reply \subseteq {Mention, Plain}
  BY DEF Answers, Deflection, Unkeyed, Fallback, Modelled
<1> QED BY <1>1, <1>2

LEMMA FreeTypes == Free \in Hand
<1>1. Plain \in Message
  BY DEF Plain, Message, Kind
<1>2. <<>> \in Seq(Message)
  OBVIOUS
<1> QED BY <1>1, <1>2 DEF Free, Hand, PC, UserText


\* What a step of one handler leaves alone.
LEMMA HandTypes ==
    ASSUME TypeOK, NEW c \in Calls, NEW h \in Hand, Keep(c, h)
    PROVE  call' \in [Calls -> Hand] /\ call'[c] = h /\ \A d \in Calls : d # c => call'[d] = call[d]
  BY DEF TypeOK, Keep

LEMMA TypeStep ==
    ASSUME TypeOK, [ChatStep]_chatVars
    PROVE  TypeOK'
<1>1. CASE UNCHANGED chatVars
  BY <1>1 DEF chatVars, TypeOK
<1>2. ASSUME NEW c \in Calls, NEW text \in UserText, Send(c, text)
      PROVE  TypeOK'
  <2>1. [Free EXCEPT !.pc = "session", !.text = text] \in Hand
    BY FreeTypes DEF Hand, PC
  <2> QED BY <1>2, <2>1, HandTypes DEF Send, TypeOK
<1>3. ASSUME NEW c \in Calls, Receive(c) \/ CallFails(c)
      PROVE  TypeOK'
  <2>1. Keep(c, Free) /\ drawer' \in [waits: Calls \cup {Waiting}, shows: Nat]
    BY <1>3 DEF Receive, CallFails, TypeOK, Hand
  <2>2. faults' \in Nat /\ UNCHANGED <<session, messages, tickets, broken>>
    BY <1>3 DEF Receive, CallFails, TypeOK
  <2> QED BY <2>1, <2>2, HandTypes, FreeTypes DEF TypeOK
<1>4. CASE Break
  BY <1>4 DEF Break, TypeOK
<1>5. ASSUME NEW c \in Calls, AssertSession(c) \/ LoadHistory(c) \/ CreationFails(c)
      PROVE  TypeOK'
  <2>1. CASE AssertSession(c)
    <3>1. [call[c] EXCEPT !.pc = "history", !.seen = session] \in Hand
      BY DEF TypeOK, Hand, PC
    <3> QED BY <2>1, <3>1, HandTypes DEF AssertSession, TypeOK
  <2>2. CASE LoadHistory(c)
    <3>1. [call[c] EXCEPT !.pc = "save", !.prior = messages] \in Hand
      BY DEF TypeOK, Hand, PC
    <3> QED BY <2>2, <3>1, HandTypes DEF LoadHistory, TypeOK
  <2>3. CASE CreationFails(c)
    <3>1. [call[c] EXCEPT !.pc = "reply", !.made = 0] \in Hand
      BY DEF TypeOK, Hand, PC
    <3> QED BY <2>3, <3>1, HandTypes DEF CreationFails, TypeOK
  <2> QED BY <1>5, <2>1, <2>2, <2>3
<1>6. ASSUME NEW c \in Calls, SaveMessage(c)
      PROVE  TypeOK'
  <2>1. [call[c] EXCEPT !.pc = "ask"] \in Hand
    BY DEF TypeOK, Hand, PC
  <2>2. User(call[c].text) \in Message
    BY DEF TypeOK, Hand, User, Message, Kind
  <2> QED BY <1>6, <2>1, <2>2, HandTypes DEF SaveMessage, TypeOK
<1>7. ASSUME NEW c \in Calls, NEW answer \in Answers, AskAI(c, answer)
      PROVE  TypeOK'
  <2>1. PICK r \in answer.reply :
            Keep(c, [call[c] EXCEPT !.answer = r, !.prior = <<>>,
                                    !.pc = IF Creates(call[c], answer) THEN "create" ELSE "reply"])
    BY <1>7 DEF AskAI
  <2>2. [call[c] EXCEPT !.answer = r, !.prior = <<>>,
                        !.pc = IF Creates(call[c], answer) THEN "create" ELSE "reply"] \in Hand
    <3>1. r \in Message /\ <<>> \in Seq(Message)
      BY AnswerTypes
    <3> QED BY <3>1 DEF TypeOK, Hand, PC
  <2> QED BY <1>7, <2>1, <2>2, HandTypes DEF AskAI, TypeOK
<1>8. ASSUME NEW c \in Calls, CreateTicket(c) \/ LinkSession(c)
      PROVE  TypeOK'
  <2>1. CASE CreateTicket(c)
    <3>1. [call[c] EXCEPT !.pc = "link", !.made = tickets + 1] \in Hand
      <4>1. tickets + 1 \in Nat /\ call[c] \in Hand /\ "link" \in PC
        BY DEF TypeOK, PC
      <4> QED BY <4>1 DEF Hand
    <3> QED BY <2>1, <3>1, HandTypes DEF CreateTicket, TypeOK
  <2>2. CASE LinkSession(c)
    <3>1. [call[c] EXCEPT !.pc = "reply"] \in Hand /\ call[c].made \in Nat
      BY DEF TypeOK, Hand, PC
    <3> QED BY <2>2, <3>1, HandTypes DEF LinkSession, TypeOK
  <2> QED BY <1>8, <2>1, <2>2
<1>9. ASSUME NEW c \in Calls, SaveReply(c)
      PROVE  TypeOK'
  <2>1. [call[c] EXCEPT !.pc = "answer"] \in Hand
    BY DEF TypeOK, Hand, PC
  <2>2. ReplyContent(call[c]) \in Message
    BY DEF TypeOK, Hand, ReplyContent, Confirmed, Repeated, Message, Kind
  <2> QED BY <1>9, <2>1, <2>2, HandTypes DEF SaveReply, TypeOK
<1> QED BY <1>1, <1>2, <1>3, <1>4, <1>5, <1>6, <1>7, <1>8, <1>9 DEF ChatStep, Handler

-----------------------------------------------------------------------------
(* The tickets and the faults.                                             *)

\* Handlers the drawer has stopped waiting for are a finite set.
LEMMA AbandonedFinite ==
    ASSUME NEW C, NEW w, NEW l
    PROVE  IsFiniteSet(Abandoned(C, w, l)) /\ Cardinality(Abandoned(C, w, l)) \in Nat
<1>1. Abandoned(C, w, l) \subseteq Calls
  BY DEF Abandoned
<1> QED BY <1>1, CallsAssumption, Smaller

\* One step of the budget: fewer abandoned handlers, fewer awaited.
LEMMA StepKeepsBudget ==
    ASSUME TypeOK, Budgeted, NEW C, NEW w, NEW l \in Nat,
           NEW spent \in {0, 1}, NEW made \in {0, 1},
           \* Of the awaited handler and the session before the step and after.
           NEW more \in {-1, 0, 1},
           Cardinality(Abandoned(C, w, l)) <= Cardinality(Abandoned(call, drawer.waits, session)) + more,
           One(AwaitsOne(C, w, l)) + more + made
             + One(session # 0 \/ AwaitsOne(call, drawer.waits, session) \/ AwaitsLink(call, drawer.waits))
             <= One(AwaitsOne(call, drawer.waits, session)) + spent
                + One(l # 0 \/ AwaitsOne(C, w, l) \/ AwaitsLink(C, w))
    PROVE  tickets + made + Cardinality(Abandoned(C, w, l)) + One(AwaitsOne(C, w, l))
             <= faults + broken + spent + One(l # 0 \/ AwaitsOne(C, w, l) \/ AwaitsLink(C, w))
<1> DEFINE a == Cardinality(Abandoned(call, drawer.waits, session))
           b == Cardinality(Abandoned(C, w, l))
           p == One(AwaitsOne(call, drawer.waits, session))
           q == One(AwaitsOne(C, w, l))
           m == One(session # 0 \/ AwaitsOne(call, drawer.waits, session) \/ AwaitsLink(call, drawer.waits))
           n == One(l # 0 \/ AwaitsOne(C, w, l) \/ AwaitsLink(C, w))
<1>1. a \in Nat /\ b \in Nat
  BY AbandonedFinite
<1>2. p \in {0, 1} /\ q \in {0, 1} /\ m \in {0, 1} /\ n \in {0, 1}
  BY DEF One
<1>3. tickets \in Nat /\ faults \in Nat /\ broken \in Nat
  BY DEF TypeOK
<1>4. tickets + a + p <= faults + broken + m
  BY DEF Budgeted
<1>5. b <= a + more /\ q + more + made + m <= p + spent + n
  OBVIOUS
<1> HIDE DEF a, b, p, q, m, n
<1>6. tickets + made + b + q <= faults + broken + spent + n
  BY <1>1, <1>2, <1>3, <1>4, <1>5
<1> QED BY <1>6 DEF b, q, n

\* A handler that goes on towards its ticket or gives it up, the drawer waiting
\* as before.
LEMMA QuietStep ==
    ASSUME TypeOK, Budgeted, NEW c \in Calls, NEW h \in Hand, Keep(c, h),
           UNCHANGED <<session, tickets, broken>>, faults' \in {faults, faults + 1},
           drawer'.waits = drawer.waits,
           MayCreate(h, session) => MayCreate(call[c], session),
           h.pc # "link", call[c].pc = "link" => faults' = faults + 1
    PROVE  Budgeted'
<1>1. call'[c] = h /\ \A d \in Calls : d # c => call'[d] = call[d]
  BY HandTypes
<1>2. drawer.waits \in Calls \cup {Waiting}
  BY DEF TypeOK
<1>3. Abandoned(call', drawer.waits, session) \subseteq Abandoned(call, drawer.waits, session)
  BY <1>1 DEF Abandoned
<1>4. Cardinality(Abandoned(call', drawer.waits, session)) <= Cardinality(Abandoned(call, drawer.waits, session)) + 0
  BY <1>3, AbandonedFinite, Smaller
<1>5. AwaitsOne(call', drawer.waits, session) => AwaitsOne(call, drawer.waits, session)
  BY <1>1, <1>2 DEF AwaitsOne
<1>6. AwaitsLink(call, drawer.waits) => AwaitsLink(call', drawer.waits) \/ faults' = faults + 1
  BY <1>1, <1>2 DEF AwaitsLink
<1>7. PICK spent \in {0, 1} : faults' = faults + spent /\ (faults' = faults + 1 => spent = 1)
  BY DEF TypeOK
<1>8. One(AwaitsOne(call', drawer.waits, session)) + 0 + 0
        + One(session # 0 \/ AwaitsOne(call, drawer.waits, session) \/ AwaitsLink(call, drawer.waits))
        <= One(AwaitsOne(call, drawer.waits, session)) + spent
           + One(session # 0 \/ AwaitsOne(call', drawer.waits, session) \/ AwaitsLink(call', drawer.waits))
  BY <1>5, <1>6, <1>7 DEF One, TypeOK
<1>9. tickets + 0 + Cardinality(Abandoned(call', drawer.waits, session)) + One(AwaitsOne(call', drawer.waits, session))
        <= faults + broken + spent
           + One(session # 0 \/ AwaitsOne(call', drawer.waits, session) \/ AwaitsLink(call', drawer.waits))
  BY <1>4, <1>8, StepKeepsBudget DEF TypeOK
<1>10. tickets + 0 = tickets /\ faults + broken + spent = faults' + broken
  BY <1>7 DEF TypeOK
<1> QED BY <1>9, <1>10 DEF Budgeted

LEMMA BudgetQuiet ==
    ASSUME TypeOK, Budgeted, NEW c \in Calls,
           \/ AssertSession(c) \/ LoadHistory(c) \/ SaveMessage(c) \/ SaveReply(c) \/ CreationFails(c)
           \/ \E answer \in Answers : AskAI(c, answer)
    PROVE  Budgeted'
<1> DEFINE g == call[c]
<1>0. g \in Hand
  BY DEF TypeOK
<1>1. CASE AssertSession(c)
  <2> DEFINE h == [g EXCEPT !.pc = "history", !.seen = session]
  <2>1. h \in Hand /\ h.pc = "history" /\ h.seen = session /\ g.pc = "session"
    BY <1>0, <1>1 DEF AssertSession, Hand, PC, TypeOK
  <2>2. Keep(c, h) /\ UNCHANGED <<session, tickets, drawer, faults, broken>>
    BY <1>1 DEF AssertSession
  <2> HIDE DEF h
  <2>3. MayCreate(h, session) => MayCreate(g, session)
    BY <2>1 DEF MayCreate
  <2> QED BY <2>1, <2>2, <2>3, QuietStep
<1>2. CASE LoadHistory(c)
  <2> DEFINE h == [g EXCEPT !.pc = "save", !.prior = messages]
  <2>1. h \in Hand /\ h.pc = "save" /\ h.seen = g.seen /\ g.pc = "history"
    BY <1>0, <1>2 DEF LoadHistory, Hand, PC, TypeOK
  <2>2. Keep(c, h) /\ UNCHANGED <<session, tickets, drawer, faults, broken>>
    BY <1>2 DEF LoadHistory
  <2> HIDE DEF h
  <2>3. MayCreate(h, session) => MayCreate(g, session)
    BY <2>1 DEF MayCreate
  <2> QED BY <2>1, <2>2, <2>3, QuietStep
<1>3. CASE SaveMessage(c)
  <2> DEFINE h == [g EXCEPT !.pc = "ask"]
  <2>1. h \in Hand /\ h.pc = "ask" /\ h.seen = g.seen /\ g.pc = "save"
    BY <1>0, <1>3 DEF SaveMessage, Hand, PC, TypeOK
  <2>2. Keep(c, h) /\ UNCHANGED <<session, tickets, drawer, faults, broken>>
    BY <1>3 DEF SaveMessage
  <2> HIDE DEF h
  <2>3. MayCreate(h, session) => MayCreate(g, session)
    BY <2>1 DEF MayCreate
  <2> QED BY <2>1, <2>2, <2>3, QuietStep
<1>4. CASE SaveReply(c)
  <2> DEFINE h == [g EXCEPT !.pc = "answer"]
  <2>1. h \in Hand /\ h.pc = "answer" /\ g.pc = "reply"
    BY <1>0, <1>4 DEF SaveReply, Hand, PC, TypeOK
  <2>2. Keep(c, h) /\ UNCHANGED <<session, tickets, drawer, faults, broken>>
    BY <1>4 DEF SaveReply
  <2> HIDE DEF h
  <2>3. MayCreate(h, session) => MayCreate(g, session)
    BY <2>1 DEF MayCreate
  <2> QED BY <2>1, <2>2, <2>3, QuietStep
<1>5. CASE CreationFails(c)
  <2> DEFINE h == [g EXCEPT !.pc = "reply", !.made = 0]
  <2>1. h \in Hand /\ h.pc = "reply"
    BY <1>0, <1>5 DEF Hand, PC, TypeOK
  <2>2. Keep(c, h) /\ faults' = faults + 1 /\ UNCHANGED <<session, tickets, drawer, broken>>
    BY <1>5 DEF CreationFails
  <2> HIDE DEF h
  <2>3. MayCreate(h, session) => MayCreate(g, session)
    BY <2>1 DEF MayCreate
  <2> QED BY <2>1, <2>2, <2>3, QuietStep
<1>6. CASE \E answer \in Answers : AskAI(c, answer)
  <2>1. PICK answer \in Answers : AskAI(c, answer)
    BY <1>6
  <2>2. PICK r \in answer.reply :
            Keep(c, [g EXCEPT !.answer = r, !.prior = <<>>,
                              !.pc = IF Creates(g, answer) THEN "create" ELSE "reply"])
    BY <2>1 DEF AskAI
  <2> DEFINE h == [g EXCEPT !.answer = r, !.prior = <<>>,
                            !.pc = IF Creates(g, answer) THEN "create" ELSE "reply"]
  <2>3. r \in Message /\ <<>> \in Seq(Message)
    BY AnswerTypes
  <2>4. h \in Hand /\ h.pc \in {"create", "reply"} /\ h.seen = g.seen /\ g.pc = "ask"
    BY <1>0, <2>1, <2>3 DEF AskAI, Hand, PC
  <2>5. Keep(c, h) /\ UNCHANGED <<session, tickets, drawer, faults, broken>>
    BY <2>1, <2>2 DEF AskAI
  <2> HIDE DEF h
  <2>6. MayCreate(h, session) => MayCreate(g, session)
    BY <2>4 DEF MayCreate
  <2> QED BY <2>4, <2>5, <2>6, QuietStep
<1> QED BY <1>1, <1>2, <1>3, <1>4, <1>5, <1>6

LEMMA BudgetDrawer ==
    ASSUME TypeOK, Budgeted, NEW c \in Calls,
           \/ \E text \in UserText : Send(c, text)
           \/ Receive(c) \/ CallFails(c)
    PROVE  Budgeted'
<1> DEFINE w == drawer.waits
           v == drawer'.waits
           p == AwaitsOne(call, w, session)
           q == AwaitsOne(call', v, session)
<1>1. w \in Calls \cup {Waiting} /\ session \in Nat /\ faults \in Nat /\ tickets \in Nat /\ broken \in Nat
  BY DEF TypeOK
<1>2. CASE \E text \in UserText : Send(c, text)
  <2>1. PICK text \in UserText : Send(c, text)
    BY <1>2
  <2> DEFINE h == [Free EXCEPT !.pc = "session", !.text = text]
  <2>2. h \in Hand /\ h.pc = "session"
    BY FreeTypes DEF Hand, PC
  <2>3. Keep(c, h) /\ w = Waiting /\ v = c /\ call[c].pc = "free"
        /\ UNCHANGED <<session, tickets, faults, broken>>
    BY <2>1 DEF Send, TypeOK
  <2> HIDE DEF h
  <2>4. call'[c] = h /\ \A d \in Calls : d # c => call'[d] = call[d]
    BY <2>2, <2>3, HandTypes
  <2>5. Abandoned(call', v, session) \subseteq Abandoned(call, w, session)
    BY <2>3, <2>4, CallsAssumption DEF Abandoned
  <2>6. Cardinality(Abandoned(call', v, session)) <= Cardinality(Abandoned(call, w, session)) + 0
    BY <2>5, AbandonedFinite, Smaller
  <2>7. ~p /\ ~AwaitsLink(call, w) /\ (session = 0 <=> q)
    BY <2>2, <2>3, <2>4, CallsAssumption DEF AwaitsOne, AwaitsLink, MayCreate
  <2>8. One(q) + 0 + 0 + One(session # 0 \/ p \/ AwaitsLink(call, w))
          <= One(p) + 0 + One(session # 0 \/ q \/ AwaitsLink(call', v))
    BY <2>7 DEF One
  <2>9. tickets + 0 + Cardinality(Abandoned(call', v, session)) + One(q)
          <= faults + broken + 0 + One(session # 0 \/ q \/ AwaitsLink(call', v))
    BY <1>1, <2>6, <2>8, StepKeepsBudget
  <2> QED BY <1>1, <2>3, <2>9 DEF Budgeted
<1>3. CASE Receive(c)
  <2>1. Keep(c, Free) /\ call[c].pc = "answer" /\ UNCHANGED <<session, tickets, faults, broken>>
        /\ (IF w = c THEN v = Waiting ELSE v = w)
    BY <1>3 DEF Receive, TypeOK
  <2>2. call'[c] = Free /\ (\A d \in Calls : d # c => call'[d] = call[d]) /\ Free.pc = "free"
    BY <2>1, HandTypes, FreeTypes DEF Free
  <2>3. Abandoned(call', v, session) \subseteq Abandoned(call, w, session)
    BY <2>1, <2>2 DEF Abandoned, MayCreate
  <2>4. Cardinality(Abandoned(call', v, session)) <= Cardinality(Abandoned(call, w, session)) + 0
    BY <2>3, AbandonedFinite, Smaller
  <2>5. (p <=> q) /\ (AwaitsLink(call, w) <=> AwaitsLink(call', v))
    BY <1>1, <2>1, <2>2 DEF AwaitsOne, AwaitsLink, MayCreate
  <2>6. One(q) + 0 + 0 + One(session # 0 \/ p \/ AwaitsLink(call, w))
          <= One(p) + 0 + One(session # 0 \/ q \/ AwaitsLink(call', v))
    BY <2>5 DEF One
  <2>7. tickets + 0 + Cardinality(Abandoned(call', v, session)) + One(q)
          <= faults + broken + 0 + One(session # 0 \/ q \/ AwaitsLink(call', v))
    BY <1>1, <2>4, <2>6, StepKeepsBudget
  <2> QED BY <1>1, <2>1, <2>7 DEF Budgeted
<1>4. CASE CallFails(c)
  <2>1. Keep(c, Free) /\ UNCHANGED <<session, tickets, broken>> /\ faults' = faults + 1
        /\ (IF w = c THEN v = Waiting ELSE v = w) /\ call[c].pc # "link"
    BY <1>4 DEF CallFails, TypeOK
  <2>2. call'[c] = Free /\ (\A d \in Calls : d # c => call'[d] = call[d]) /\ Free.pc = "free"
    BY <2>1, HandTypes, FreeTypes DEF Free
  <2>3. Abandoned(call', v, session) \subseteq Abandoned(call, w, session)
    BY <2>1, <2>2 DEF Abandoned, MayCreate
  <2>4. Cardinality(Abandoned(call', v, session)) <= Cardinality(Abandoned(call, w, session)) + 0
    BY <2>3, AbandonedFinite, Smaller
  <2>5. (q => p) /\ (AwaitsLink(call, w) => AwaitsLink(call', v))
    BY <1>1, <2>1, <2>2 DEF AwaitsOne, AwaitsLink, MayCreate
  <2>6. One(q) + 0 + 0 + One(session # 0 \/ p \/ AwaitsLink(call, w))
          <= One(p) + 1 + One(session # 0 \/ q \/ AwaitsLink(call', v))
    BY <2>5 DEF One
  <2>7. tickets + 0 + Cardinality(Abandoned(call', v, session)) + One(q)
          <= faults + broken + 1 + One(session # 0 \/ q \/ AwaitsLink(call', v))
    BY <1>1, <2>4, <2>6, StepKeepsBudget
  <2>8. tickets + 0 = tickets /\ faults + broken + 1 = faults' + broken
    BY <1>1, <2>1
  <2> QED BY <2>1, <2>7, <2>8 DEF Budgeted
<1> QED BY <1>2, <1>3, <1>4

\* The connection breaks: the call that was waited for is abandoned.
LEMMA BudgetBreak ==
    ASSUME TypeOK, Budgeted, Break
    PROVE  Budgeted'
<1> DEFINE w == drawer.waits
           v == drawer'.waits
           p == AwaitsOne(call, w, session)
           q == AwaitsOne(call', v, session)
           A == Abandoned(call, w, session)
           B == Abandoned(call', v, session)
<1>1. session \in Nat /\ faults \in Nat /\ tickets \in Nat /\ broken \in Nat
  BY DEF TypeOK
<1>2. v = Waiting /\ w # Waiting /\ broken' = broken + 1 /\ UNCHANGED <<session, tickets, call, faults>>
  BY DEF Break, TypeOK
<1>3. ~q /\ ~AwaitsLink(call', v)
  BY <1>2 DEF AwaitsOne, AwaitsLink
<1>4. CASE p
  <2>1. B \subseteq A \cup {w}
    BY <1>2 DEF Abandoned
  <2>2. Cardinality(B) <= Cardinality(A) + 1
    BY <2>1, AbandonedFinite, OneMore
  <2>3. One(q) + 1 + 0 + One(session # 0 \/ p \/ AwaitsLink(call, w))
          <= One(p) + 1 + One(session # 0 \/ q \/ AwaitsLink(call', v))
    BY <1>3, <1>4 DEF One
  <2>4. tickets + 0 + Cardinality(B) + One(q)
          <= faults + broken + 1 + One(session # 0 \/ q \/ AwaitsLink(call', v))
    BY <1>1, <2>2, <2>3, StepKeepsBudget
  <2>5. tickets + 0 = tickets /\ faults + broken + 1 = faults + broken'
    BY <1>1, <1>2
  <2> QED BY <1>2, <2>4, <2>5 DEF Budgeted
<1>5. CASE ~p
  <2>1. B \subseteq A
    BY <1>2, <1>5 DEF Abandoned, AwaitsOne
  <2>2. Cardinality(B) <= Cardinality(A) + 0
    BY <2>1, AbandonedFinite, Smaller
  <2>3. One(q) + 0 + 0 + One(session # 0 \/ p \/ AwaitsLink(call, w))
          <= One(p) + 1 + One(session # 0 \/ q \/ AwaitsLink(call', v))
    BY <1>3, <1>5 DEF One
  <2>4. tickets + 0 + Cardinality(B) + One(q)
          <= faults + broken + 1 + One(session # 0 \/ q \/ AwaitsLink(call', v))
    BY <1>1, <2>2, <2>3, StepKeepsBudget
  <2>5. tickets + 0 = tickets /\ faults + broken + 1 = faults + broken'
    BY <1>1, <1>2
  <2> QED BY <1>2, <2>4, <2>5 DEF Budgeted
<1> QED BY <1>4, <1>5

\* A ticket is created by one that might.
LEMMA BudgetCreate ==
    ASSUME TypeOK, Budgeted, NEW c \in Calls, Orderly(call[c]), CreateTicket(c)
    PROVE  Budgeted'
<1> DEFINE w == drawer.waits
           p == AwaitsOne(call, w, session)
           q == AwaitsOne(call', w, session)
           A == Abandoned(call, w, session)
           B == Abandoned(call', w, session)
           h == [call[c] EXCEPT !.pc = "link", !.made = tickets + 1]
<1>1. session \in Nat /\ faults \in Nat /\ tickets \in Nat /\ broken \in Nat /\ w \in Calls \cup {Waiting}
  BY DEF TypeOK
<1>2. call[c].pc = "create" /\ Keep(c, h) /\ tickets' = tickets + 1 /\ UNCHANGED <<session, drawer, faults, broken>>
  BY DEF CreateTicket
<1>3. h \in Hand /\ h.pc = "link"
  <2>1. tickets + 1 \in Nat /\ call[c] \in Hand /\ "link" \in PC
    BY DEF TypeOK, PC
  <2> QED BY <2>1 DEF Hand
<1> HIDE DEF h
<1>4. call'[c] = h /\ \A d \in Calls : d # c => call'[d] = call[d]
  BY <1>2, <1>3, HandTypes
<1>5. MayCreate(call[c], session) /\ ~MayCreate(call'[c], session)
  BY <1>2, <1>3, <1>4 DEF MayCreate, Orderly
<1>6. CASE c = w
  <2>1. p /\ ~q /\ AwaitsLink(call', w)
    BY <1>3, <1>4, <1>5, <1>6, CallsAssumption DEF AwaitsOne, AwaitsLink
  <2>2. B \subseteq A
    BY <1>4, <1>5 DEF Abandoned
  <2>3. Cardinality(B) <= Cardinality(A) + 0
    BY <2>2, AbandonedFinite, Smaller
  <2>4. One(q) + 0 + 1 + One(session # 0 \/ p \/ AwaitsLink(call, w))
          <= One(p) + 0 + One(session # 0 \/ q \/ AwaitsLink(call', w))
    BY <2>1 DEF One
  <2>5. tickets + 1 + Cardinality(B) + One(q)
          <= faults + broken + 0 + One(session # 0 \/ q \/ AwaitsLink(call', w))
    BY <1>1, <2>3, <2>4, StepKeepsBudget
  <2>6. faults + broken + 0 = faults + broken
    BY <1>1
  <2> QED BY <1>2, <2>5, <2>6 DEF Budgeted
<1>7. CASE c # w
  <2>1. c \in A /\ B \subseteq A \ {c}
    BY <1>4, <1>5, <1>7 DEF Abandoned
  <2>2. Cardinality(B) <= Cardinality(A) + (-1)
    <3>1. IsFiniteSet(A) /\ Cardinality(A \ {c}) = Cardinality(A) - 1 /\ Cardinality(A) \in Nat
      BY <2>1, AbandonedFinite, OneLess
    <3>2. IsFiniteSet(A \ {c})
      BY <3>1, Smaller
    <3>3. Cardinality(B) <= Cardinality(A \ {c}) /\ Cardinality(B) \in Nat
      BY <2>1, <3>2, Smaller
    <3> HIDE DEF A, B
    <3> QED BY <3>1, <3>3
  <2>3. (p <=> q) /\ (AwaitsLink(call, w) <=> AwaitsLink(call', w))
    BY <1>1, <1>4, <1>7 DEF AwaitsOne, AwaitsLink
  <2>4. One(q) + (-1) + 1 + One(session # 0 \/ p \/ AwaitsLink(call, w))
          <= One(p) + 0 + One(session # 0 \/ q \/ AwaitsLink(call', w))
    BY <2>3 DEF One
  <2>5. tickets + 1 + Cardinality(B) + One(q)
          <= faults + broken + 0 + One(session # 0 \/ q \/ AwaitsLink(call', w))
    BY <1>1, <2>2, <2>4, StepKeepsBudget
  <2>6. faults + broken + 0 = faults + broken
    BY <1>1
  <2> QED BY <1>2, <2>5, <2>6 DEF Budgeted
<1> QED BY <1>6, <1>7

\* Once the session has its ticket no new handler may create one.
LEMMA BudgetLink ==
    ASSUME TypeOK, Budgeted, NEW c \in Calls, Orderly(call[c]), LinkSession(c)
    PROVE  Budgeted'
<1> DEFINE w == drawer.waits
           l == call[c].made
           p == AwaitsOne(call, w, session)
           q == AwaitsOne(call', w, l)
           A == Abandoned(call, w, session)
           B == Abandoned(call', w, l)
           h == [call[c] EXCEPT !.pc = "reply"]
<1>1. session \in Nat /\ faults \in Nat /\ tickets \in Nat /\ broken \in Nat
      /\ w \in Calls \cup {Waiting} /\ call[c] \in Hand /\ l \in Nat
  BY DEF TypeOK, Hand
<1>2. call[c].pc = "link" /\ Keep(c, h) /\ session' = l /\ UNCHANGED <<tickets, drawer, faults, broken>>
  BY DEF LinkSession
<1>3. h \in Hand /\ h.pc = "reply" /\ l # 0
  BY <1>1, <1>2 DEF Hand, PC, Orderly
<1> HIDE DEF h, l
<1>4. call'[c] = h /\ \A d \in Calls : d # c => call'[d] = call[d]
  BY <1>2, <1>3, HandTypes
<1>5. \A d \in Calls : MayCreate(call'[d], l) => MayCreate(call[d], session)
  BY <1>3, <1>4 DEF MayCreate
<1>6. B \subseteq A /\ (q => p)
  BY <1>1, <1>5 DEF Abandoned, AwaitsOne
<1>7. Cardinality(B) <= Cardinality(A) + 0
  BY <1>6, AbandonedFinite, Smaller
<1>8. One(q) + 0 + 0 + One(session # 0 \/ p \/ AwaitsLink(call, w))
        <= One(p) + 0 + One(l # 0 \/ q \/ AwaitsLink(call', w))
  BY <1>3, <1>6 DEF One
<1>9. tickets + 0 + Cardinality(B) + One(q)
        <= faults + broken + 0 + One(l # 0 \/ q \/ AwaitsLink(call', w))
  BY <1>1, <1>7, <1>8, StepKeepsBudget
<1>10. tickets + 0 = tickets /\ faults + broken + 0 = faults + broken
  BY <1>1
<1> QED BY <1>2, <1>9, <1>10 DEF Budgeted

LEMMA OrderlyStep ==
    ASSUME TypeOK, \A c \in Calls : Orderly(call[c]), [ChatStep]_chatVars
    PROVE  (\A c \in Calls : Orderly(call[c]))'
<1>1. CASE UNCHANGED chatVars
  BY <1>1 DEF chatVars
<1>2. ASSUME NEW c \in Calls, NEW h \in Hand, Keep(c, h), Orderly(h)
      PROVE  (\A d \in Calls : Orderly(call[d]))'
  BY <1>2, HandTypes
<1>3. ASSUME NEW c \in Calls,
             (\E text \in UserText : Send(c, text)) \/ Receive(c) \/ CallFails(c)
      PROVE  (\A d \in Calls : Orderly(call[d]))'
  <2>1. CASE Receive(c) \/ CallFails(c)
    <3>1. Keep(c, Free) /\ Orderly(Free)
      BY <2>1 DEF Receive, CallFails, Orderly, Free
    <3> QED BY <3>1, <1>2, FreeTypes
  <2>2. ASSUME NEW text \in UserText, Send(c, text)
        PROVE  (\A d \in Calls : Orderly(call[d]))'
    <3> DEFINE h == [Free EXCEPT !.pc = "session", !.text = text]
    <3>1. h \in Hand /\ h.pc = "session"
      BY FreeTypes DEF Hand, PC
    <3>2. Keep(c, h)
      BY <2>2 DEF Send
    <3> HIDE DEF h
    <3> QED BY <3>1, <3>2, <1>2 DEF Orderly
  <2> QED BY <1>3, <2>1, <2>2
<1>4. CASE Break
  BY <1>4 DEF Break
<1>5. ASSUME NEW c \in Calls, Handler(c) \/ CreationFails(c)
      PROVE  (\A d \in Calls : Orderly(call[d]))'
  <2> DEFINE g == call[c]
  <2>0. g \in Hand /\ session \in Nat /\ tickets \in Nat /\ messages \in Seq(Message)
    BY DEF TypeOK
  <2>1. ASSUME NEW h \in Hand, Keep(c, h), h.pc \in {"history", "save", "ask", "reply", "answer"}
        PROVE  (\A d \in Calls : Orderly(call[d]))'
    BY <2>1, <1>2 DEF Orderly
  <2>2. CASE AssertSession(c)
    <3>1. [g EXCEPT !.pc = "history", !.seen = session] \in Hand
      BY <2>0 DEF Hand, PC
    <3> QED BY <3>1, <2>0, <2>1, <2>2 DEF AssertSession, Hand
  <2>3. CASE LoadHistory(c)
    <3>1. [g EXCEPT !.pc = "save", !.prior = messages] \in Hand
      BY <2>0 DEF Hand, PC
    <3> QED BY <3>1, <2>0, <2>1, <2>3 DEF LoadHistory, Hand
  <2>4. CASE SaveMessage(c) \/ LinkSession(c) \/ SaveReply(c)
    <3>1. PICK to \in {"ask", "reply", "answer"} : Keep(c, [g EXCEPT !.pc = to])
      BY <2>4 DEF SaveMessage, LinkSession, SaveReply
    <3>2. [g EXCEPT !.pc = to] \in Hand /\ [g EXCEPT !.pc = to].pc = to
      BY <2>0 DEF Hand, PC
    <3> QED BY <3>1, <3>2, <2>1
  <2>5. CASE CreationFails(c)
    <3>1. [g EXCEPT !.pc = "reply", !.made = 0] \in Hand /\ [g EXCEPT !.pc = "reply", !.made = 0].pc = "reply"
      BY <2>0 DEF Hand, PC
    <3> QED BY <3>1, <2>1, <2>5 DEF CreationFails
  <2>6. CASE CreateTicket(c)
    <3> DEFINE h == [g EXCEPT !.pc = "link", !.made = tickets + 1]
    <3>1. tickets + 1 \in Nat /\ tickets + 1 # 0 /\ "link" \in PC
      BY <2>0 DEF PC
    <3>2. h \in Hand /\ h.pc = "link" /\ h.made # 0
      BY <3>1, <2>0 DEF Hand
    <3>3. Keep(c, h)
      BY <2>6 DEF CreateTicket
    <3> HIDE DEF h
    <3> QED BY <3>2, <3>3, <1>2 DEF Orderly
  <2>7. CASE \E answer \in Answers : AskAI(c, answer)
    <3>1. PICK answer \in Answers : AskAI(c, answer)
      BY <2>7
    <3>2. PICK r \in answer.reply :
              Keep(c, [g EXCEPT !.answer = r, !.prior = <<>>,
                                !.pc = IF Creates(g, answer) THEN "create" ELSE "reply"])
      BY <3>1 DEF AskAI
    <3> DEFINE h == [g EXCEPT !.answer = r, !.prior = <<>>,
                              !.pc = IF Creates(g, answer) THEN "create" ELSE "reply"]
    <3>3. r \in Message /\ <<>> \in Seq(Message)
      BY AnswerTypes
    <3>4. h \in Hand /\ h.seen = g.seen /\ h.pc = IF Creates(g, answer) THEN "create" ELSE "reply"
      BY <2>0, <3>3 DEF Hand, PC
    <3>5. Keep(c, h)
      BY <3>2
    <3>6. Creates(g, answer) => g.seen = 0
      BY DEF Creates
    <3> HIDE DEF h
    <3> QED BY <3>4, <3>5, <3>6, <1>2 DEF Orderly
  <2> QED BY <1>5, <2>2, <2>3, <2>4, <2>5, <2>6, <2>7 DEF Handler
<1> QED BY <1>1, <1>3, <1>4, <1>5 DEF ChatStep

LEMMA BudgetStep ==
    ASSUME TypeOK, \A c \in Calls : Orderly(call[c]), Budgeted, [ChatStep]_chatVars
    PROVE  Budgeted'
<1>1. CASE UNCHANGED chatVars
  BY <1>1 DEF chatVars, Budgeted
<1>2. CASE ChatStep
  BY <1>2, BudgetQuiet, BudgetDrawer, BudgetBreak, BudgetCreate, BudgetLink DEF ChatStep, Handler
<1> QED BY <1>1, <1>2

-----------------------------------------------------------------------------
(* The tickets and their confirmations.                                    *)

\* A step of one handler: tickets, messages and faults only grow, a ticket that
\* is no longer in the making is named or costs a fault.
LEMMA StepKeepsConfirming ==
    ASSUME TypeOK, TypeOK', Confirming, NEW c \in Calls, NEW h \in Hand, Keep(c, h),
           tickets' \in {tickets, tickets + 1}, faults' \in {faults, faults + 1},
           messages' = messages \/ \E m \in Message : m.ticket <= tickets /\ messages' = Append(messages, m),
           session' \in {session, call[c].made},
           Exists(call[c])',
           tickets' = tickets + 1 => h.made = tickets + 1,
           call[c].made \in {0, h.made} \/ Named(call[c].made) \/ faults' = faults + 1
    PROVE  Confirming'
<1>1. call'[c] = h /\ \A d \in Calls : d # c => call'[d] = call[d]
  BY HandTypes
<1>2. /\ tickets \in Nat /\ faults \in Nat /\ messages \in Seq(Message) /\ messages' \in Seq(Message)
      /\ \A d \in Calls : call[d].made \in Nat /\ call[d].seen \in Nat
      /\ session \in Nat
  BY DEF TypeOK, Hand
<1>3. \A i \in DOMAIN messages : i \in DOMAIN messages' /\ messages'[i] = messages[i]
  BY <1>2
<1>4. \A id : Named(id) => Named(id)'
  BY <1>3 DEF Named
<1>5. \A d \in Calls : Exists(call[d])'
  <2>1. ASSUME NEW d \in Calls, d # c
        PROVE  Exists(call[d])'
    <3>1. Exists(call[d]) /\ call'[d] = call[d]
      BY <1>1, <2>1 DEF Confirming
    <3>2. tickets <= tickets'
      BY <1>2
    <3> QED BY <3>1, <3>2, <1>2, <1>4 DEF Exists
  <2> QED BY <2>1
<1>6. \A i \in DOMAIN messages' : messages'[i].ticket <= tickets'
  <2>1. \A i \in DOMAIN messages : messages[i].ticket <= tickets /\ messages[i].ticket \in Nat
    <3>1. \A i \in DOMAIN messages : messages[i] \in Message
      BY <1>2
    <3> QED BY <3>1 DEF Confirming, Message
  <2>2. CASE messages' = messages
    BY <1>2, <2>1, <2>2
  <2>3. ASSUME NEW m \in Message, m.ticket <= tickets, messages' = Append(messages, m)
        PROVE  \A i \in DOMAIN messages' : messages'[i].ticket <= tickets'
    <3>1. m.ticket \in Nat
      BY DEF Message
    <3>2. \A i \in DOMAIN messages' : i \in DOMAIN messages \/ messages'[i] = m
      BY <1>2, <2>3
    <3>3. \A i \in DOMAIN messages' : messages'[i].ticket <= tickets /\ messages'[i].ticket \in Nat
      BY <3>1, <3>2, <2>1, <2>3, <1>3
    <3> QED BY <3>3, <1>2
  <2> QED BY <2>2, <2>3
<1>7. session' <= tickets'
  <2>1. session <= tickets /\ call[c].made <= tickets
    BY DEF Confirming, Exists
  <2> QED BY <2>1, <1>2
<1>8. Cardinality(Unconfirmed') <= faults'
  <2>1. \A id \in Unconfirmed' : id \in Unconfirmed \/ (id = call[c].made /\ faults' = faults + 1)
    <3>1. ASSUME NEW id \in Unconfirmed'
          PROVE  id \in Unconfirmed \/ (id = call[c].made /\ faults' = faults + 1)
      <4>1. id \in 1..tickets' /\ ~Named(id)' /\ ~InTheMaking(id)'
        BY <3>1 DEF Unconfirmed
      <4>2. id # h.made /\ \A d \in Calls : d # c => id # call[d].made
        BY <4>1, <1>1 DEF InTheMaking
      <4>3. id \in 1..tickets
        BY <4>1, <4>2, <1>2
      <4>4. ~Named(id)
        BY <4>1, <1>4
      <4>5. CASE id = call[c].made
        <5>1. id # 0
          BY <4>1
        <5> QED BY <4>2, <4>4, <4>5, <5>1
      <4>6. CASE id # call[c].made
        BY <4>2, <4>3, <4>4, <4>6 DEF Unconfirmed, InTheMaking
      <4> QED BY <4>5, <4>6
    <3> QED BY <3>1
  <2>2. IsFiniteSet(Unconfirmed) /\ Cardinality(Unconfirmed) \in Nat /\ Cardinality(Unconfirmed) <= faults
    <3>1. IsFiniteSet(1..tickets)
      BY <1>2, FS_Interval
    <3>2. Unconfirmed \subseteq 1..tickets
      BY DEF Unconfirmed
    <3> QED BY <3>1, <3>2, Smaller DEF Confirming
  <2>3. CASE faults' = faults + 1
    <3>1. Unconfirmed' \subseteq Unconfirmed \cup {call[c].made}
      BY <2>1
    <3> DEFINE U == Unconfirmed'
    <3>2. Cardinality(U) <= Cardinality(Unconfirmed) + 1 /\ Cardinality(U) \in Nat
      BY <3>1, <2>2, OneMore
    <3> HIDE DEF U
    <3>3. Cardinality(U) <= faults'
      BY <3>2, <2>2, <2>3, <1>2
    <3> QED BY <3>3 DEF U
  <2>4. CASE faults' # faults + 1
    <3>1. Unconfirmed' \subseteq Unconfirmed
      BY <2>1, <2>4
    <3> DEFINE U == Unconfirmed'
    <3>2. Cardinality(U) <= Cardinality(Unconfirmed) /\ Cardinality(U) \in Nat
      BY <3>1, <2>2, Smaller
    <3> HIDE DEF U
    <3>3. Cardinality(U) <= faults'
      BY <3>2, <2>2, <2>4, <1>2
    <3> QED BY <3>3 DEF U
  <2> QED BY <2>3, <2>4
<1> QED BY <1>5, <1>6, <1>7, <1>8 DEF Confirming

\* What the next action needs to know of a handler.
LEMMA HandKnows ==
    ASSUME TypeOK, Confirming, NEW c \in Calls
    PROVE  /\ call[c] \in Hand /\ Exists(call[c]) /\ call[c].made \in Nat /\ call[c].seen \in Nat
           /\ session \in Nat /\ tickets \in Nat /\ session <= tickets
  BY DEF TypeOK, Hand, Confirming

LEMMA ConfirmQuiet ==
    ASSUME TypeOK, TypeOK', Confirming, NEW c \in Calls,
           (\E text \in UserText : Send(c, text)) \/ Receive(c) \/ AssertSession(c)
             \/ LoadHistory(c) \/ CallFails(c)
    PROVE  Confirming'
<1> DEFINE g == call[c]
<1>0. /\ g \in Hand /\ Exists(g) /\ g.made \in Nat /\ g.seen \in Nat
      /\ session \in Nat /\ tickets \in Nat /\ session <= tickets /\ messages \in Seq(Message)
      /\ faults \in Nat
  BY HandKnows DEF TypeOK
<1>1. ASSUME NEW h \in Hand, Keep(c, h), UNCHANGED <<session, messages, tickets>>,
             faults' \in {faults, faults + 1}, h.made = 0, h.answer.ticket = 0,
             h.seen <= tickets, g.made = 0 \/ Named(g.made) \/ faults' = faults + 1
      PROVE  Confirming'
  <2>1. call'[c] = h
    BY <1>1, HandTypes
  <2>2. Exists(call[c])'
    BY <1>0, <1>1, <2>1 DEF Exists
  <2> QED BY <1>0, <1>1, <2>2, StepKeepsConfirming
<1>2. /\ Free.made = 0 /\ Free.answer.ticket = 0 /\ Free.seen = 0 /\ Free \in Hand
  BY FreeTypes DEF Free, Plain
<1>3. CASE Receive(c) \/ CallFails(c)
  <2>1. Keep(c, Free) /\ UNCHANGED <<session, messages, tickets>> /\ faults' \in {faults, faults + 1}
    BY <1>3 DEF Receive, CallFails
  <2>2. g.made = 0 \/ Named(g.made) \/ faults' = faults + 1
    BY <1>0, <1>3 DEF Receive, CallFails, Exists
  <2> QED BY <1>0, <1>1, <1>2, <2>1, <2>2
<1>4. ASSUME NEW text \in UserText, Send(c, text)
      PROVE  Confirming'
  <2> DEFINE h == [Free EXCEPT !.pc = "session", !.text = text]
  <2>1. h \in Hand /\ h.made = 0 /\ h.answer.ticket = 0 /\ h.seen = 0
    BY <1>2 DEF Hand, PC
  <2>2. Keep(c, h) /\ UNCHANGED <<session, messages, tickets, faults>> /\ g.pc = "free"
    BY <1>4 DEF Send
  <2> HIDE DEF h
  <2>3. g.made = 0
    BY <2>2, <1>0 DEF Exists
  <2> QED BY <2>1, <2>2, <2>3, <1>0, <1>1
<1>5. CASE AssertSession(c)
  <2> DEFINE h == [g EXCEPT !.pc = "history", !.seen = session]
  <2>1. h \in Hand /\ h.made = g.made /\ h.answer = g.answer /\ h.seen = session
    BY <1>0 DEF Hand, PC
  <2>2. Keep(c, h) /\ UNCHANGED <<session, messages, tickets, faults>> /\ g.pc = "session"
    BY <1>5 DEF AssertSession
  <2> HIDE DEF h
  <2>3. g.made = 0 /\ g.answer.ticket = 0
    BY <2>2, <1>0 DEF Exists
  <2> QED BY <2>1, <2>2, <2>3, <1>0, <1>1
<1>6. CASE LoadHistory(c)
  <2> DEFINE h == [g EXCEPT !.pc = "save", !.prior = messages]
  <2>1. h \in Hand /\ h.made = g.made /\ h.answer = g.answer /\ h.seen = g.seen
    BY <1>0 DEF Hand, PC
  <2>2. Keep(c, h) /\ UNCHANGED <<session, messages, tickets, faults>> /\ g.pc = "history"
    BY <1>6 DEF LoadHistory
  <2> HIDE DEF h
  <2>3. g.made = 0 /\ g.answer.ticket = 0 /\ g.seen <= tickets
    BY <2>2, <1>0 DEF Exists
  <2> QED BY <2>1, <2>2, <2>3, <1>0, <1>1
<1> QED BY <1>3, <1>4, <1>5, <1>6

LEMMA ConfirmHandler ==
    ASSUME TypeOK, TypeOK', Confirming, NEW c \in Calls,
           \/ SaveMessage(c) \/ CreateTicket(c) \/ LinkSession(c) \/ CreationFails(c) \/ SaveReply(c)
           \/ \E answer \in Answers : AskAI(c, answer)
    PROVE  Confirming'
<1> DEFINE g == call[c]
<1>0. /\ g \in Hand /\ Exists(g) /\ g.made \in Nat /\ g.seen \in Nat
      /\ session \in Nat /\ tickets \in Nat /\ session <= tickets /\ messages \in Seq(Message)
      /\ faults \in Nat
  BY HandKnows DEF TypeOK
<1>1. CASE SaveMessage(c)
  <2> DEFINE h == [g EXCEPT !.pc = "ask"]
             m == User(g.text)
  <2>1. h \in Hand /\ h.made = g.made /\ h.answer = g.answer /\ h.seen = g.seen /\ m \in Message /\ m.ticket = 0
    BY <1>0 DEF Hand, PC, User, Message, Kind
  <2>2. Keep(c, h) /\ UNCHANGED <<session, tickets, faults>> /\ g.pc = "save" /\ messages' = Append(messages, m)
    BY <1>1 DEF SaveMessage
  <2> HIDE DEF h, m
  <2>3. call'[c] = h /\ g.made = 0 /\ g.answer.ticket = 0 /\ g.seen <= tickets
    BY <1>0, <2>1, <2>2, HandTypes DEF Exists
  <2>4. Exists(call[c])'
    BY <1>0, <2>1, <2>2, <2>3 DEF Exists
  <2> QED BY <1>0, <2>1, <2>2, <2>3, <2>4, StepKeepsConfirming
<1>2. CASE CreateTicket(c)
  <2> DEFINE h == [g EXCEPT !.pc = "link", !.made = tickets + 1]
  <2>1. tickets + 1 \in Nat /\ tickets <= tickets + 1 /\ "link" \in PC
    BY <1>0 DEF PC
  <2>2. h \in Hand /\ h.made = tickets + 1 /\ h.answer = g.answer /\ h.seen = g.seen /\ h.pc = "link"
    BY <1>0, <2>1 DEF Hand
  <2>3. Keep(c, h) /\ UNCHANGED <<session, messages, faults>> /\ g.pc = "create" /\ tickets' = tickets + 1
    BY <1>2 DEF CreateTicket
  <2> HIDE DEF h
  <2>4. call'[c] = h /\ g.made = 0 /\ g.answer.ticket = 0 /\ g.seen <= tickets
    BY <1>0, <2>2, <2>3, HandTypes DEF Exists
  <2>5. Exists(call[c])'
    BY <1>0, <2>2, <2>3, <2>4 DEF Exists
  <2> QED BY <1>0, <2>2, <2>3, <2>4, <2>5, StepKeepsConfirming
<1>3. CASE LinkSession(c)
  <2> DEFINE h == [g EXCEPT !.pc = "reply"]
  <2>1. h \in Hand /\ h.made = g.made /\ h.answer = g.answer /\ h.seen = g.seen /\ h.pc = "reply"
    BY <1>0 DEF Hand, PC
  <2>2. Keep(c, h) /\ UNCHANGED <<messages, tickets, faults>> /\ session' = g.made
    BY <1>3 DEF LinkSession
  <2> HIDE DEF h
  <2>3. call'[c] = h /\ g.made <= tickets /\ g.answer.ticket = 0 /\ g.seen <= tickets
    BY <1>0, <2>1, <2>2, HandTypes DEF Exists
  <2>4. Exists(call[c])'
    BY <1>0, <2>1, <2>2, <2>3 DEF Exists
  <2> QED BY <1>0, <2>1, <2>2, <2>3, <2>4, StepKeepsConfirming
<1>4. CASE CreationFails(c)
  <2> DEFINE h == [g EXCEPT !.pc = "reply", !.made = 0]
  <2>1. h \in Hand /\ h.made = 0 /\ h.answer = g.answer /\ h.seen = g.seen /\ h.pc = "reply"
    BY <1>0 DEF Hand, PC
  <2>2. Keep(c, h) /\ UNCHANGED <<session, messages, tickets>> /\ faults' = faults + 1
    BY <1>4 DEF CreationFails
  <2> HIDE DEF h
  <2>3. call'[c] = h /\ g.answer.ticket = 0 /\ g.seen <= tickets
    BY <1>0, <2>1, <2>2, HandTypes DEF Exists
  <2>4. Exists(call[c])'
    BY <1>0, <2>1, <2>2, <2>3 DEF Exists
  <2> QED BY <1>0, <2>1, <2>2, <2>3, <2>4, StepKeepsConfirming
<1>5. CASE SaveReply(c)
  <2> DEFINE h == [g EXCEPT !.pc = "answer"]
             m == ReplyContent(g)
  <2>1. h \in Hand /\ h.made = g.made /\ h.answer = g.answer /\ h.seen = g.seen /\ h.pc = "answer"
    BY <1>0 DEF Hand, PC
  <2>2. Keep(c, h) /\ UNCHANGED <<session, tickets, faults>> /\ messages' = Append(messages, m)
    BY <1>5 DEF SaveReply
  <2>3. g.made <= tickets /\ g.answer.ticket = 0 /\ g.seen <= tickets
    BY <1>0 DEF Exists
  <2>4. m \in Message /\ m.ticket <= tickets /\ (g.made # 0 => m.kind = "created" /\ m.ticket = g.made)
    BY <1>0, <2>3 DEF Hand, ReplyContent, Confirmed, Repeated, Message, Kind
  <2> HIDE DEF h, m
  <2>5. call'[c] = h
    BY <2>1, <2>2, HandTypes
  <2>6. g.made # 0 => Named(g.made)'
    <3>1. Len(messages) + 1 \in DOMAIN messages' /\ messages'[Len(messages) + 1] = m
      BY <1>0, <2>2, <2>4
    <3> QED BY <2>1, <2>4, <2>5, <3>1 DEF Named
  <2>7. Exists(call[c])'
    BY <1>0, <2>1, <2>2, <2>3, <2>5, <2>6 DEF Exists
  <2> QED BY <1>0, <2>1, <2>2, <2>4, <2>7, StepKeepsConfirming
<1>6. CASE \E answer \in Answers : AskAI(c, answer)
  <2>1. PICK answer \in Answers : AskAI(c, answer)
    BY <1>6
  <2>2. PICK r \in answer.reply :
            Keep(c, [g EXCEPT !.answer = r, !.prior = <<>>,
                              !.pc = IF Creates(g, answer) THEN "create" ELSE "reply"])
    BY <2>1 DEF AskAI
  <2> DEFINE h == [g EXCEPT !.answer = r, !.prior = <<>>,
                            !.pc = IF Creates(g, answer) THEN "create" ELSE "reply"]
  <2>3. r \in Message /\ r.ticket = 0 /\ <<>> \in Seq(Message)
    BY AnswerTypes
  <2>4. h \in Hand /\ h.made = g.made /\ h.answer = r /\ h.seen = g.seen
    BY <1>0, <2>3 DEF Hand, PC
  <2>5. Keep(c, h) /\ UNCHANGED <<session, messages, tickets, faults>> /\ g.pc = "ask"
    BY <2>1, <2>2 DEF AskAI
  <2> HIDE DEF h
  <2>6. call'[c] = h /\ g.made = 0 /\ g.seen <= tickets
    BY <1>0, <2>4, <2>5, HandTypes DEF Exists
  <2>7. Exists(call[c])'
    BY <1>0, <2>3, <2>4, <2>5, <2>6 DEF Exists
  <2> QED BY <1>0, <2>4, <2>5, <2>6, <2>7, StepKeepsConfirming
<1> QED BY <1>1, <1>2, <1>3, <1>4, <1>5, <1>6

LEMMA ConfirmStep ==
    ASSUME TypeOK, TypeOK', Confirming, [ChatStep]_chatVars
    PROVE  Confirming'
<1>1. CASE UNCHANGED chatVars
  BY <1>1 DEF chatVars, Confirming, Exists, Unconfirmed, Named, InTheMaking
<1>2. CASE Break
  BY <1>2 DEF Break, Confirming, Exists, Unconfirmed, Named, InTheMaking
<1>3. CASE ChatStep /\ ~Break
  BY <1>3, ConfirmQuiet, ConfirmHandler DEF ChatStep, Handler
<1> QED BY <1>1, <1>2, <1>3

-----------------------------------------------------------------------------

LEMMA SafeInit ==
    ASSUME ChatInit
    PROVE  Safe
<1>1. TypeOK
  BY FreeTypes DEF ChatInit, TypeOK
<1>2. \A c \in Calls : call[c] = Free
  BY DEF ChatInit
<1>3. Free.pc = "free" /\ Free.made = 0 /\ Free.seen = 0 /\ Free.answer.ticket = 0
  BY DEF Free, Plain
<1>4. \A c \in Calls : Orderly(call[c])
  BY <1>2, <1>3 DEF Orderly
<1>5. Budgeted
  <2>1. Abandoned(call, drawer.waits, session) = {}
    BY <1>2, <1>3 DEF Abandoned, MayCreate
  <2>2. ~AwaitsOne(call, drawer.waits, session) /\ ~AwaitsLink(call, drawer.waits)
    BY DEF AwaitsOne, AwaitsLink, ChatInit
  <2> QED BY <2>1, <2>2, FS_EmptySet DEF Budgeted, One, ChatInit
<1>6. Confirming
  <2>1. Unconfirmed = {}
    BY DEF Unconfirmed, ChatInit
  <2>2. \A c \in Calls : Exists(call[c])
    BY <1>2, <1>3 DEF Exists, ChatInit
  <2> QED BY <2>1, <2>2, FS_EmptySet DEF Confirming, ChatInit
<1> QED BY <1>1, <1>4, <1>5, <1>6 DEF Safe

LEMMA SafeStep ==
    ASSUME Safe, [ChatStep]_chatVars
    PROVE  Safe'
<1>1. TypeOK'
  BY TypeStep DEF Safe
<1>2. (\A c \in Calls : Orderly(call[c]))'
  BY OrderlyStep DEF Safe
<1>3. Budgeted'
  BY BudgetStep DEF Safe
<1>4. Confirming'
  BY <1>1, ConfirmStep DEF Safe
<1> QED BY <1>1, <1>2, <1>3, <1>4 DEF Safe

LEMMA SafeAlways == ChatSpec => []Safe
  BY SafeInit, SafeStep, PTL DEF ChatSpec

LEMMA SafeMeansOneTicket ==
    ASSUME Safe
    PROVE  SecondTicketNeedsFault
<1> DEFINE A == Cardinality(Abandoned(call, drawer.waits, session))
           w == One(AwaitsOne(call, drawer.waits, session))
           b == One(session # 0 \/ AwaitsOne(call, drawer.waits, session) \/ AwaitsLink(call, drawer.waits))
<1>1. A \in Nat /\ w \in {0, 1} /\ b \in {0, 1}
  BY AbandonedFinite DEF One
<1>2. tickets \in Nat /\ faults \in Nat /\ broken \in Nat
  BY DEF Safe, TypeOK
<1>3. tickets + A + w <= faults + broken + b
  BY DEF Safe, Budgeted
<1> HIDE DEF A, w, b
<1> QED BY <1>1, <1>2, <1>3 DEF SecondTicketNeedsFault

LEMMA SafeMeansConfirmed ==
    ASSUME Safe
    PROVE  ConfirmedOrFailed
<1>1. Cardinality(Unconfirmed) <= faults
  BY DEF Safe, Confirming
<1>2. \A i \in DOMAIN messages : messages[i].ticket \in 0..tickets
  <2>1. \A i \in DOMAIN messages : messages[i] \in Message
    BY DEF Safe, TypeOK
  <2> QED BY <2>1 DEF Safe, TypeOK, Confirming, Message
<1>3. session # 0 => \E id \in 1..tickets : session = id
  BY DEF Safe, TypeOK, Confirming
<1> QED BY <1>1, <1>2, <1>3 DEF ConfirmedOrFailed, Unconfirmed

\* Any number of calls in progress, messages and failures: a second ticket of a
\* session takes a failure or a broken connection (chat.service.ts:93, :187).
THEOREM OneTicketPerSession == ChatSpec => []SecondTicketNeedsFault
  BY SafeAlways, SafeMeansOneTicket, PTL

\* Every ticket of the chat is confirmed in it, about to be, or lost to a
\* failure, and what is confirmed is there (:119-128).
THEOREM TicketsConfirmed == ChatSpec => []ConfirmedOrFailed
  BY SafeAlways, SafeMeansConfirmed, PTL

-----------------------------------------------------------------------------
(* The index of articles.                                                  *)

\* The assistant quotes no draft and no text that an article never had, however
\* tasks overlap: a task that was slow writes what was published when it read
\* (main.py:63-107).
QuotedWasPublished == index # 0 => article.status # "DRAFT" /\ index \in 1..article.version

\* What a task holds was read from an article that was published.
WasPublished(text) == article.status # "DRAFT" /\ text \in 1..article.version

IndexInv ==
    /\ article \in [status : ArticleStatus, version : Nat \ {0}]
    /\ index \in Nat /\ (index # 0 => WasPublished(index))
    /\ task \in [AllTasks -> Nat \cup {Unread, Resting}]
    /\ \A k \in AllTasks : task[k] \in {Unread, Resting} \/ WasPublished(task[k])

\* Starting tasks or ending them changes nothing of what others hold.
LEMMA TasksRest ==
    ASSUME IndexInv, UNCHANGED <<article, index>>, NEW k \in AllTasks, NEW rests \in {Unread, Resting},
           task' = [task EXCEPT ![k] = rests]
    PROVE  IndexInv'
  BY DEF IndexInv, WasPublished

\* An article that is changed keeps what has been published of it.
LEMMA ArticleGrows ==
    ASSUME IndexInv, UNCHANGED index, task' = task \/ \E k \in AllTasks : task' = [task EXCEPT ![k] = Unread],
           article' \in [status : ArticleStatus, version : Nat \ {0}], article'.version >= article.version,
           article'.status = "DRAFT" => article.status = "DRAFT"
    PROVE  IndexInv'
  <1>1. \A text : WasPublished(text) => WasPublished(text)'
    BY DEF IndexInv, WasPublished
  <1>2. task' \in [AllTasks -> Nat \cup {Unread, Resting}]
    BY DEF IndexInv
  <1>3. \A k \in AllTasks : task'[k] \in {task[k], Unread}
    BY DEF IndexInv
  <1> QED BY <1>1, <1>2, <1>3 DEF IndexInv, WasPublished

LEMMA IndexKept ==
    ASSUME IndexInv, [IndexStep]_indexVars
    PROVE  IndexInv'
  <1>0. /\ article \in [status : ArticleStatus, version : Nat \ {0}] /\ index \in Nat
        /\ task \in [AllTasks -> Nat \cup {Unread, Resting}]
    BY DEF IndexInv
  <1>1. Call => task' = task \/ \E k \in AllTasks : task' = [task EXCEPT ![k] = Unread]
    BY DEF Call, AllTasks
  <1>2. ASSUME NEW e \in Editors, Update(e)
        PROVE  IndexInv'
    BY <1>0, <1>1, <1>2, ArticleGrows DEF Update
  <1>3. ASSUME NEW e \in Editors, Publish(e)
        PROVE  IndexInv'
    BY <1>0, <1>1, <1>3, ArticleGrows DEF Publish, ArticleStatus
  <1>4. CASE Archive
    BY <1>0, <1>4, ArticleGrows DEF Archive, ArticleStatus
  <1>5. CASE Schedule
    BY <1>5, TasksRest DEF Schedule, AllTasks
  <1>6. ASSUME NEW k \in AllTasks, Fetch(k)
        PROVE  IndexInv'
    <2>1. CASE Published = Nothing
      BY <1>6, <2>1, TasksRest DEF Fetch
    <2>2. CASE Published # Nothing
      <3>1. WasPublished(Published) /\ Published \in Nat
        BY <1>0, <2>2 DEF Published, WasPublished
      <3>2. UNCHANGED <<article, index>> /\ task' = [task EXCEPT ![k] = Published]
        BY <1>6, <2>2 DEF Fetch
      <3> HIDE DEF Published
      <3>3. Published' = Published
        BY <3>2 DEF Published
      <3> QED BY <3>1, <3>2, <3>3 DEF IndexInv, WasPublished
    <2> QED BY <2>1, <2>2
  <1>7. ASSUME NEW k \in AllTasks, Upsert(k)
        PROVE  IndexInv'
    <2>1. task[k] > 0 /\ index' = task[k] /\ task' = [task EXCEPT ![k] = Resting] /\ UNCHANGED article
      BY <1>7 DEF Upsert, Upserted, Nothing
    <2>2. WasPublished(task[k]) /\ task[k] \in Nat
      BY <2>1 DEF IndexInv, Unread, Resting
    <2> QED BY <1>0, <2>1, <2>2 DEF IndexInv, WasPublished
  <1>8. ASSUME NEW k \in AllTasks, TaskFails(k)
        PROVE  IndexInv'
    BY <1>8, TasksRest DEF TaskFails
  <1>9. CASE UNCHANGED <<article, index, task>>
    BY <1>9 DEF IndexInv, WasPublished
  <1>10. ASSUME NEW e \in Editors, WriteFails(e) \/ \E op \in {"update", "publish"} : Read(e, op)
         PROVE  UNCHANGED <<article, index, task>>
    BY <1>10 DEF WriteFails, Read
  <1>11. CASE UNCHANGED indexVars
    BY <1>9, <1>11 DEF indexVars
  <1> QED BY <1>2, <1>3, <1>4, <1>5, <1>6, <1>7, <1>8, <1>9, <1>10, <1>11 DEF IndexStep, TaskStep

\* Any number of tasks, edits and failures.
THEOREM OnlyPublishedQuoted == IndexSpec => []QuotedWasPublished
  <1>1. IndexInit => IndexInv
    BY DEF IndexInit, IndexInv, ArticleStatus
  <1>2. IndexInv /\ [IndexStep]_indexVars => IndexInv'
    BY IndexKept
  <1>3. IndexInv => QuotedWasPublished
    BY DEF IndexInv, WasPublished, QuotedWasPublished
  <1> QED BY <1>1, <1>2, <1>3, PTL DEF IndexSpec
=============================================================================
