------------------------------- MODULE MCChat -------------------------------
(***************************************************************************)
(* The chat and the index of articles for TLC, each in behaviours of its   *)
(* own: the one affects the other only by what an answer quotes, which     *)
(* Chat leaves open.                                                       *)
(***************************************************************************)
EXTENDS Chat, KnowledgeIndex, TLC

CONSTANTS c1, c2

VARIABLE about

vars == <<chatVars, indexVars, about>>

Init == about \in {"chat", "articles"} /\ ChatInit /\ IndexInit

Next ==
    \/ about = "chat" /\ ChatStep /\ UNCHANGED <<indexVars, about>>
    \/ about = "articles" /\ IndexStep /\ UNCHANGED <<chatVars, about>>

\* Tasks go on by themselves, the scheduler starts one again and again, and a
\* task does not fail every time.
InArticles(A) == about = "articles" /\ A /\ UNCHANGED <<chatVars, about>>

Fairness ==
    /\ WF_vars(InArticles(Schedule))
    /\ \A k \in AllTasks : SF_vars(InArticles(Fetch(k))) /\ SF_vars(InArticles(Upsert(k)))

Spec == Init /\ [][Next]_vars /\ Fairness

\* The index ends up with the text of a published article, although tasks that
\* overlap can put an older text back (main.py:63-107), and an edit that read the
\* draft starts none when its publication comes before the write (kb.service.ts:214).
IndexSettles == <>[](article.status = "PUBLISHED" => index = article.version)

CallsAlike == Permutations(Calls)
=============================================================================
