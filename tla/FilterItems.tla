----------------------------- MODULE FilterItems -----------------------------
(***************************************************************************)
(* The re-check of search results by the permission service, batch by      *)
(* batch.  A batch that gets no answer is refused as a whole.  Grants are  *)
(* made and withdrawn at any moment, the service comes and goes.  What the *)
(* service grants is a document through a knowledge base; what it answers  *)
(* is a list of documents.                                                 *)
(***************************************************************************)
EXTENDS Integers, FiniteSets

CONSTANTS
    Documents, KBs,
    Granted,       \* what the user may retrieve at first, document by knowledge base
    BatchSize      \* 200 items in one request

ASSUME FilterAssumption ==
    /\ Granted \subseteq Documents \X KBs
    /\ BatchSize \in Nat \ {0}

VARIABLES
    granted,       \* external: what the user may retrieve, document by knowledge base
    up,            \* external: the permission service answers
    step,          \* "idle", "asked" or "answered"
    question,      \* the items of the call
    todo,          \* the items not sent yet
    kept,          \* the items allowed so far
    ever,          \* history: items of the call granted at some moment since it began
    always         \* history: items that every moment since would have found granted

filterVars == <<granted, up, step, question, todo, kept, ever, always>>

Items == Documents \X KBs
DocsOf(items) == {i[1] : i \in items}

FilterInit ==
    /\ granted = Granted /\ up = TRUE
    /\ step = "idle" /\ kept = {} /\ todo = {}
    /\ question = {} /\ ever = {} /\ always = {}

FilterTypeOK ==
    /\ granted \subseteq Items /\ up \in BOOLEAN
    /\ step \in {"idle", "asked", "answered"}
    /\ question \subseteq Items /\ todo \subseteq question /\ kept \subseteq question
    /\ ever \subseteq question /\ always \subseteq ever

Ask(items) ==
    /\ step = "idle" /\ step' = "asked"
    /\ question' = items /\ todo' = items /\ kept' = {}
    /\ ever' = items \cap granted
    /\ always' = IF up THEN items \cap granted ELSE {}
    /\ UNCHANGED <<granted, up>>

Batches ==
    {batch \in SUBSET todo :
        /\ Cardinality(batch) <= BatchSize
        /\ Cardinality(batch) < BatchSize => batch = todo}

\* The service answers with the documents it allows.
Allowed(batch) == DocsOf(batch \cap granted)

AllowedItems(batch) == {i \in batch : i[1] \in Allowed(batch)}

\* Mutation: a batch without an answer is let through.
FilterBatchOpen ==
    /\ step = "asked" /\ todo # {}
    /\ \E batch \in Batches :
         /\ todo' = todo \ batch
         /\ kept' = kept \cup (IF up THEN AllowedItems(batch) ELSE batch)
    /\ UNCHANGED <<granted, up, step, question, ever, always>>

\* A refused batch is one that found no service.
FilterBatch ==
    /\ step = "asked" /\ todo # {}
    /\ \E batch \in Batches :
         /\ todo' = todo \ batch
         /\ kept' = kept \cup (IF up THEN AllowedItems(batch) ELSE {})
    /\ UNCHANGED <<granted, up, step, question, ever, always>>

FilterAnswers ==
    /\ step = "asked" /\ todo = {}
    /\ step' = "answered"
    /\ UNCHANGED <<granted, up, question, todo, kept, ever, always>>

\* The caller has used the answer.
Forget ==
    /\ step # "asked" /\ step' = "idle"
    /\ question' = {} /\ todo' = {} /\ kept' = {} /\ ever' = {} /\ always' = {}
    /\ UNCHANGED <<granted, up>>

\* A grant is made or withdrawn.
ChangeGrant(i) ==
    /\ granted' = IF i \in granted THEN granted \ {i} ELSE granted \cup {i}
    /\ IF step = "asked"
       THEN /\ ever' = ever \cup (question \cap granted')
            /\ always' = always \cap granted'
       ELSE UNCHANGED <<ever, always>>
    /\ UNCHANGED <<up, step, question, todo, kept>>

ServiceGoes ==
    /\ up /\ up' = FALSE
    /\ always' = IF step = "asked" THEN {} ELSE always
    /\ UNCHANGED <<granted, step, question, todo, kept, ever>>

ServiceReturns ==
    /\ ~up /\ up' = TRUE
    /\ UNCHANGED <<granted, step, question, todo, kept, ever, always>>

\* What the re-check promises, over documents.
Promise == INSTANCE Recheck WITH
    phase <- step, asked <- DocsOf(question),
    answer <- IF step = "answered" THEN DocsOf(kept) ELSE {},
    ever <- DocsOf(ever), always <- DocsOf(always)
=============================================================================
