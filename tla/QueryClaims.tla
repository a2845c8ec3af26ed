----------------------------- MODULE QueryClaims -----------------------------
(***************************************************************************)
(* What a comment of the query path claims and the code does not keep.     *)
(***************************************************************************)
EXTENDS QueryStream

\* "First check whether the database already has an answer of this turn (the worker
\* finished before SSE subscribed)" (src/src/api/routes.py:278): a saved turn that is
\* replayed to a client is the answer to its own question.  But 'done' is published
\* before the turn is saved, so the next question may get the same index.
ReplayIsOwn ==
    \A q \in Questions :
        reader[q].end = "done" /\ ~Seen(q) =>
            \A i \in DOMAIN reader[q].view : IsOf(reader[q].view[i], q)
=============================================================================
