-------------------------------- MODULE Chat --------------------------------
(***************************************************************************)
(* One chat session: the drawer in the browser (ChatDrawer.tsx), the       *)
(* handler of a message (chat.service.ts), one action per database access  *)
(* or call, and the answers of the AI service (ai-adapter.service.ts,      *)
(* apps/ai-service/main.py).  The drawer waits for each answer, but a      *)
(* connection may break while the handler goes on.                         *)
(***************************************************************************)
EXTENDS Integers, Sequences, FiniteSets

CONSTANTS
    Calls,          \* slots for handlers in progress
    Waiting,        \* the drawer waits for no call
    MaxMessages,    \* bound: messages of the user
    MaxFaults       \* bound: operations that fail

ASSUME CallsAssumption == IsFiniteSet(Calls) /\ Waiting \notin Calls

VARIABLES
    session,    \* the ticket the session is linked to, 0 for none
    messages,   \* the stored messages
    tickets,    \* how many tickets were created from the chat
    call,       \* the handler in each slot
    drawer,     \* the call it waits for, and the ticket it shows
    faults,     \* ghost: failed operations ...
    broken      \* ghost: ... and broken connections

chatVars == <<session, messages, tickets, call, drawer, faults, broken>>

\* What a message says, as far as the handler looks at it: a user asks for a
\* ticket, says what asks for one together with the text before it, agrees, or
\* does none of these; the assistant mentions a ticket (and may mean to create
\* one) or does not, or confirms a ticket.
UserText == {"ask", "completes", "agree", "issue"}
Mention == [kind |-> "mention", ticket |-> 0]
Plain == [kind |-> "plain", ticket |-> 0]
Confirmed(id) == [kind |-> "created", ticket |-> id]
Repeated(id) == [kind |-> "already created", ticket |-> id]

User(text) == [kind |-> text, ticket |-> 0]
IsUser(m) == m.kind \in UserText

Free == [pc |-> "free", text |-> "issue", seen |-> 0, prior |-> <<>>, answer |-> Plain, made |-> 0]

Keep(c, h) == call' = [call EXCEPT ![c] = h]

-----------------------------------------------------------------------------
(* The AI service: a reply, and perhaps a draft of a ticket.               *)

\* An article that matches well is quoted, and nothing is drafted; without a key
\* for the model the user is told to submit a ticket; the adapter's fallback
\* mentions none.
Deflection == [reply |-> {Mention, Plain}, draft |-> FALSE]
Unkeyed == [reply |-> {Mention}, draft |-> FALSE]
Fallback == [reply |-> {Plain}, draft |-> FALSE]

\* Everything else is drafted, the model's errors included.
Modelled == [reply |-> {Mention, Plain}, draft |-> TRUE]

Answers == {Deflection, Unkeyed, Fallback, Modelled}

-----------------------------------------------------------------------------
(* The drawer.                                                             *)

\* The first message opens the session; sending is closed while one is on its way.
Send(c, text) ==
    /\ drawer.waits = Waiting /\ call[c].pc = "free"
    /\ Len(SelectSeq(messages, IsUser)) + Cardinality({d \in Calls : call[d].pc # "free"}) < MaxMessages
    /\ Keep(c, [Free EXCEPT !.pc = "session", !.text = text])
    /\ drawer' = [drawer EXCEPT !.waits = c]
    /\ UNCHANGED <<session, messages, tickets, faults, broken>>

\* The answer comes: the drawer shows a ticket that was created for it.
Receive(c) ==
    /\ call[c].pc = "answer"
    /\ Keep(c, Free)
    /\ drawer' = IF drawer.waits # c THEN drawer
                 ELSE [waits |-> Waiting,
                       shows |-> IF call[c].made # 0 THEN call[c].made ELSE drawer.shows]
    /\ UNCHANGED <<session, messages, tickets, faults, broken>>

\* The connection breaks: the drawer says so and is open again.
Break ==
    /\ drawer.waits # Waiting
    /\ drawer' = [drawer EXCEPT !.waits = Waiting]
    /\ broken' = broken + 1
    /\ UNCHANGED <<session, messages, tickets, call, faults>>

-----------------------------------------------------------------------------
(* The handler.                                                            *)

AssertSession(c) ==
    /\ call[c].pc = "session"
    /\ Keep(c, [call[c] EXCEPT !.pc = "history", !.seen = session])
    /\ UNCHANGED <<session, messages, tickets, drawer, faults, broken>>

LoadHistory(c) ==
    /\ call[c].pc = "history"
    /\ Keep(c, [call[c] EXCEPT !.pc = "save", !.prior = messages])
    /\ UNCHANGED <<session, messages, tickets, drawer, faults, broken>>

SaveMessage(c) ==
    /\ call[c].pc = "save"
    /\ messages' = Append(messages, User(call[c].text))
    /\ Keep(c, [call[c] EXCEPT !.pc = "ask"])
    /\ UNCHANGED <<session, tickets, drawer, faults, broken>>

\* The user has asked at some time: the words are looked for in all texts of the
\* user joined, so that two that follow one another may ask where neither does.
AskedForTicket(h) ==
    LET said == Append(SelectSeq(h.prior, IsUser), User(h.text)) IN
    \E i \in DOMAIN said : said[i].kind = "ask" \/ (said[i].kind = "completes" /\ i > 1)

\* The assistant's last message; a confirmation mentions the ticket too.
Offered(h) ==
    LET said == SelectSeq(h.prior, LAMBDA m : ~IsUser(m)) IN
    said # <<>> /\ said[Len(said)] # Plain

\* Seeded fault: a ticket is created whether the session has one or not.
CreatesAgain(h, answer) == answer.draft /\ (AskedForTicket(h) \/ (Offered(h) /\ h.text = "agree"))

Creates(h, answer) ==
    h.seen = 0 /\ answer.draft /\ (AskedForTicket(h) \/ (Offered(h) /\ h.text = "agree"))

AskAI(c, answer) ==
    /\ call[c].pc = "ask"
    /\ \E r \in answer.reply :
          Keep(c, [call[c] EXCEPT !.answer = r, !.prior = <<>>,
                                  !.pc = IF Creates(call[c], answer) THEN "create" ELSE "reply"])
    /\ UNCHANGED <<session, messages, tickets, drawer, faults, broken>>

\* createTicketFromDraft: the ticket first ...
CreateTicket(c) ==
    /\ call[c].pc = "create"
    /\ tickets' = tickets + 1
    /\ Keep(c, [call[c] EXCEPT !.pc = "link", !.made = tickets + 1])
    /\ UNCHANGED <<session, messages, drawer, faults, broken>>

\* ... then the link to it.
LinkSession(c) ==
    /\ call[c].pc = "link"
    /\ session' = call[c].made
    /\ Keep(c, [call[c] EXCEPT !.pc = "reply"])
    /\ UNCHANGED <<messages, tickets, drawer, faults, broken>>

\* An error in either is caught: the ticket may be there, the handler has none.
CreationFails(c) ==
    /\ call[c].pc \in {"create", "link"}
    /\ Keep(c, [call[c] EXCEPT !.pc = "reply", !.made = 0])
    /\ faults' = faults + 1
    /\ UNCHANGED <<session, messages, tickets, drawer, broken>>

\* Seeded fault: the assistant's own words, whatever was created.
WordsOf(h) == h.answer

ReplyContent(h) ==
    IF h.made # 0 THEN Confirmed(h.made)
    ELSE IF h.seen # 0 /\ h.text \in {"ask", "agree"} THEN Repeated(h.seen)
    ELSE h.answer

SaveReply(c) ==
    /\ call[c].pc = "reply"
    /\ messages' = Append(messages, ReplyContent(call[c]))
    /\ Keep(c, [call[c] EXCEPT !.pc = "answer"])
    /\ UNCHANGED <<session, tickets, drawer, faults, broken>>

\* Any other error is the request's; the drawer opens again.
CallFails(c) ==
    /\ call[c].pc \in {"session", "history", "save", "reply"}
    /\ Keep(c, Free)
    /\ drawer' = IF drawer.waits = c THEN [drawer EXCEPT !.waits = Waiting] ELSE drawer
    /\ faults' = faults + 1
    /\ UNCHANGED <<session, messages, tickets, broken>>

-----------------------------------------------------------------------------

Handler(c) ==
    \/ AssertSession(c) \/ LoadHistory(c) \/ SaveMessage(c)
    \/ \E answer \in Answers : AskAI(c, answer)
    \/ CreateTicket(c) \/ LinkSession(c) \/ SaveReply(c)

ChatStep ==
    \/ \E c \in Calls : \/ \E text \in UserText : Send(c, text)
                        \/ Receive(c) \/ Handler(c)
                        \/ faults + broken < MaxFaults /\ (CreationFails(c) \/ CallFails(c))
    \/ faults + broken < MaxFaults /\ Break

ChatInit ==
    /\ session = 0 /\ messages = <<>> /\ tickets = 0
    /\ call = [c \in Calls |-> Free]
    /\ drawer = [waits |-> Waiting, shows |-> 0]
    /\ faults = 0 /\ broken = 0

ChatSpec == ChatInit /\ [][ChatStep]_chatVars

-----------------------------------------------------------------------------
(* Properties.                                                             *)

\* A second ticket takes a failure or a broken connection (chat.service.ts:93
\* and :187): the session is read before the AI service is asked, and linked
\* after the ticket is there, but the drawer sends one message at a time.
SecondTicketNeedsFault == tickets <= 1 + faults + broken

Named(id) == \E i \in DOMAIN messages : messages[i].kind = "created" /\ messages[i].ticket = id
InTheMaking(id) == \E c \in Calls : call[c].made = id

\* A ticket the chat never confirms is one whose handler failed, and what it
\* confirms is there (:119-128).
ConfirmedOrFailed ==
    /\ Cardinality({id \in 1..tickets : ~Named(id) /\ ~InTheMaking(id)}) <= faults
    /\ \A i \in DOMAIN messages : messages[i].ticket \in 0..tickets
    /\ session # 0 => \E id \in 1..tickets : session = id
=============================================================================
