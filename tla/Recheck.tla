------------------------------- MODULE Recheck -------------------------------
(***************************************************************************)
(* What the last check of a search promises, whatever the number of        *)
(* requests it takes.  Documents are asked about; meanwhile permissions    *)
(* change.  The answer has only documents that were permitted at some      *)
(* moment since the question, and it has every document that could be      *)
(* found permitted at each of those moments.                               *)
(***************************************************************************)
VARIABLES
    phase,    \* "idle", "asked" or "answered"
    asked,    \* the documents of the question
    ever,     \* those permitted at some moment since the question
    always,   \* those that every moment since would have found permitted
    answer    \* the documents of the answer

recheckVars == <<phase, asked, ever, always, answer>>

Init ==
    /\ phase = "idle" /\ answer = {}
    /\ asked = {} /\ ever = {} /\ always = {}

\* About any documents.
Ask ==
    /\ phase = "idle" /\ phase' = "asked"
    /\ ever' \subseteq asked' /\ always' \subseteq ever'
    /\ answer' = {}

Change ==
    /\ phase = "asked"
    /\ ever \subseteq ever' /\ ever' \subseteq asked
    /\ always' \subseteq always
    /\ UNCHANGED <<phase, asked, answer>>

Answer ==
    /\ phase = "asked" /\ phase' = "answered"
    /\ always \subseteq answer' /\ answer' \subseteq ever
    /\ UNCHANGED <<asked, ever, always>>

Forget ==
    /\ phase = "answered" /\ phase' = "idle"
    /\ asked' = {} /\ ever' = {} /\ always' = {} /\ answer' = {}

Next == Ask \/ Change \/ Answer \/ Forget
Spec == Init /\ [][Next]_recheckVars
=============================================================================
