------------------------------ MODULE Screens -------------------------------
(***************************************************************************)
(* What a page of the web client is made of: the queries it shows, the     *)
(* buttons that call the server and the links to other pages, each with    *)
(* the condition on roles and shown status under which the page renders    *)
(* it.  Layout, texts, sorting and the lists that fill the selection       *)
(* fields are left out; a button that needs such a list is shown to those  *)
(* who may read it.                                                        *)
(***************************************************************************)
EXTENDS Endpoints, SequencesExt

\* The role sets a condition of the client names.
Everybody == SUBSET RoleName
With(roles) == {r \in Everybody : r \cap roles # {}}
EmployeesOnly == SUBSET {"EMPLOYEE"}

Never == 0      \* a query that is not repeated by the clock
Stay == "stay"  \* a button that does not leave the page
NoKey == "none"
AnyStatus == UNION {StatusesOf[kind] : kind \in DOMAIN StatusesOf}

\* A query: its key in the cache, where it reads, the statuses it asks for or
\* its page keeps, and the seconds after which it is repeated.
Query(key, source, want, every) ==
    [key |-> key, source |-> source, want |-> want, asked |-> FALSE, every |-> every,
     viewers |-> Everybody]

\* A query that names the status it wants to the server.
AskedQuery(key, source, want, every) ==
    [Query(key, source, want, every) EXCEPT !.asked = TRUE]

\* A button on the row that key shows in one of the statuses from: its calls,
\* one after the other, the keys it invalidates when they have succeeded, where
\* it leads then, and the ties that hide it.
Button(calls, key, from, refreshes) ==
    [calls |-> calls, key |-> key, from |-> from, refreshes |-> refreshes, goes |-> Stay,
     viewers |-> Everybody, unless |-> {}]

ButtonTo(calls, key, from, refreshes, goes) ==
    [Button(calls, key, from, refreshes) EXCEPT !.goes = goes]

\* A form that creates a row.
Form(call, refreshes, goes) == ButtonTo(<<call>>, NoKey, {Absent}, refreshes, goes)

Link(path) == [path |-> path, key |-> NoKey, from |-> AnyStatus, viewers |-> Everybody]
RowLink(path, key, from) == [Link(path) EXCEPT !.key = key, !.from = from]

Part(queries, buttons, links) == [queries |-> queries, buttons |-> buttons, links |-> links]

\* A part that is rendered for these role sets only.
For(viewers, part) ==
    LET limited(set) == {[x EXCEPT !.viewers = @ \cap viewers] : x \in set} IN
    Part(limited(part.queries), limited(part.buttons), limited(part.links))

Nothing == Part({}, {}, {})
Together(p, q) == Part(p.queries \cup q.queries, p.buttons \cup q.buttons, p.links \cup q.links)
Page(parts) == FoldSeq(Together, Nothing, parts)
=============================================================================
