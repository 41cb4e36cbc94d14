--------------------------- MODULE KnowledgeIndex ---------------------------
(***************************************************************************)
(* One article of the knowledge base (kb.service.ts) and the copy of it    *)
(* the AI service searches (sync_kb of apps/ai-service/main.py): a task in *)
(* the service's event loop reads the published rows, awaits, and upserts  *)
(* what it has read.  A task is started by a publication or an edit, if    *)
(* the call gets through, and every ten minutes by the scheduler, which    *)
(* does not overlap its own.  Publications and edits read the article and  *)
(* write it in a statement of its own, and overlap one another.            *)
(***************************************************************************)
EXTENDS Integers

CONSTANTS
    Tasks,          \* tasks started by calls ...
    Scheduled,      \* ... and the scheduler's own
    Editors,        \* slots for requests that publish or edit
    MaxVersion      \* bound: edits of the article

VARIABLES
    article,    \* its status, and the version of its text
    index,      \* the version in the index, 0 for none
    task,       \* what each task has read, or that it has not, or rests
    request     \* what the request in each slot will write, and the status it has read

indexVars == <<article, index, task, request>>

Nothing == 0                \* a task has found no published article
Unread == -1
Resting == -2

ArticleStatus == {"DRAFT", "PUBLISHED", "ARCHIVED"}

AllTasks == Tasks \cup {Scheduled}

NoRequest == [op |-> "none", read |-> "DRAFT"]

ASSUME IndexAssumption == Scheduled \notin Tasks /\ MaxVersion \in Nat \ {0}

-----------------------------------------------------------------------------

\* syncKb: a task more, or none when the call does not get through.
Call == \/ UNCHANGED task
        \/ \E k \in Tasks : task[k] = Resting /\ task' = [task EXCEPT ![k] = Unread]

\* Both look the article up first; publish refuses what is no draft by then.
Read(e, op) ==
    /\ request[e] = NoRequest
    /\ op = "publish" => article.status = "DRAFT"
    /\ request' = [request EXCEPT ![e] = [op |-> op, read |-> article.status]]
    /\ UNCHANGED <<article, index, task>>

\* update: the text changes in any status; the index hears of it if the article
\* was published when it was read.
Update(e) ==
    /\ request[e].op = "update" /\ article.version < MaxVersion
    /\ article' = [article EXCEPT !.version = @ + 1]
    /\ IF request[e].read = "PUBLISHED" THEN Call ELSE UNCHANGED task
    /\ request' = [request EXCEPT ![e] = NoRequest]
    /\ UNCHANGED index

Publish(e) ==
    /\ request[e].op = "publish"
    /\ article' = [article EXCEPT !.status = "PUBLISHED"]
    /\ Call
    /\ request' = [request EXCEPT ![e] = NoRequest]
    /\ UNCHANGED index

\* The write fails, and with it the request.
WriteFails(e) ==
    /\ request[e] # NoRequest
    /\ request' = [request EXCEPT ![e] = NoRequest]
    /\ UNCHANGED <<article, index, task>>

\* archive tells the index nothing, and no task takes an article out of it.
Archive ==
    /\ article' = [article EXCEPT !.status = "ARCHIVED"]
    /\ UNCHANGED <<index, task, request>>

Schedule ==
    /\ task[Scheduled] = Resting
    /\ task' = [task EXCEPT ![Scheduled] = Unread]
    /\ UNCHANGED <<article, index, request>>

Published == IF article.status = "PUBLISHED" THEN article.version ELSE Nothing

\* Without published rows the task returns.
Fetch(k) ==
    /\ task[k] = Unread
    /\ task' = [task EXCEPT ![k] = IF Published = Nothing THEN Resting ELSE Published]
    /\ UNCHANGED <<article, index, request>>

\* Seeded fault: an article that is in the index is not written again.
AddedOnly(version) == IF index = 0 THEN version ELSE index

Upserted(version) == version

Upsert(k) ==
    /\ task[k] > Nothing
    /\ index' = Upserted(task[k])
    /\ task' = [task EXCEPT ![k] = Resting]
    /\ UNCHANGED <<article, request>>

\* Errors of a task are logged; a service that restarts syncs first.
TaskFails(k) ==
    /\ task[k] # Resting
    /\ task' = [task EXCEPT ![k] = Resting]
    /\ UNCHANGED <<article, index, request>>

TaskStep(k) == Fetch(k) \/ Upsert(k)

IndexStep ==
    \/ \E e \in Editors : \/ \E op \in {"update", "publish"} : Read(e, op)
                          \/ Update(e) \/ Publish(e) \/ WriteFails(e)
    \/ Archive \/ Schedule
    \/ \E k \in AllTasks : TaskStep(k) \/ TaskFails(k)

IndexInit ==
    /\ article = [status |-> "DRAFT", version |-> 1]
    /\ index = 0
    /\ task = [k \in AllTasks |-> Resting]
    /\ request = [e \in Editors |-> NoRequest]

IndexSpec == IndexInit /\ [][IndexStep]_indexVars
=============================================================================
