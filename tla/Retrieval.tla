------------------------------ MODULE Retrieval ------------------------------
(***************************************************************************)
(* One retrieval of the answer worker: prefilter, embedding of the query,  *)
(* search of each knowledge base with reranking and merging of neighbours, *)
(* repeated searches when little was found, the re-check of FilterItems,   *)
(* the threshold on scores and the cut.  Rows of the vector store appear,  *)
(* disappear and are stamped while it runs.                                *)
(***************************************************************************)
EXTENDS FilterItems, SequencesExt, FiniteSetsExt

CONSTANTS
    Rows,          \* records [id, doc, kb, index, text, head]: rows the store may hold
    Stampings,     \* what the store may hold of a row
    Stored,        \* the store at first, a function from Rows to Stampings
    Principals,    \* the user's, as pairs of a type and a name
    Settings,      \* records [strict, mode, minScore]: the settings of a search
    Requested,     \* the knowledge bases of the question, a sequence
    Oversampled,   \* int(top_k * oversample_factor), hits of one search
    TopK,          \* documents of the result, and of a reranking
    MinResults,    \* fewer than that are searched for again
    MaxRounds,     \* refetch_max_rounds
    Window,        \* neighbours on each side of a hit
    MaxTotal,      \* chunks of a merged document
    MaxRestamps,   \* bound: changes of the store,
    MaxChanges     \* and of the store, the grants and the service together

Modes == {"hybrid", "vector_only", "keyword_only"}

ASSUME RetrievalAssumption ==
    /\ {Oversampled, TopK, MinResults, MaxRounds} \subseteq Nat
    /\ {Window, MaxTotal, MaxRestamps, MaxChanges} \subseteq Nat
    /\ MaxTotal > 2 * Window + 1
    /\ Settings \subseteq [strict : BOOLEAN, mode : Modes, minScore : BOOLEAN] /\ Settings # {}
    /\ IsFiniteSet(Rows) /\ Stored \in [Rows -> Stampings]
    /\ \A r \in Rows : r.doc \in Documents /\ r.kb \in KBs
    /\ Requested \in Seq(KBs)

VARIABLES
    store,         \* what the vector store holds of each row
    call,          \* the retrieval
    passed,        \* history: rows that passed the filter at some moment of the call
    restamps, changes   \* for the bounds

vars == <<filterVars, store, call, passed, restamps, changes>>

Absent == [here |-> FALSE, retrievable |-> FALSE, version |-> 0, allow |-> {}, deny |-> {}]

Idle ==
    [pc |-> "idle", status |-> "none", set |-> CHOOSE set \in Settings : TRUE,
     kbs |-> << >>, todo |-> << >>, found |-> << >>, docs |-> << >>, round |-> 0]

Init ==
    /\ FilterInit
    /\ store = Stored
    /\ call = Idle
    /\ passed = {}
    /\ restamps = 0 /\ changes = 0

Scores == {"low", "high", "none"}

\* A result: the row of its hit, its texts in their order, the score of the reranking.
Results == [row : Rows, texts : Seq({r.text : r \in Rows}), score : Scores]

TypeOK ==
    /\ FilterTypeOK
    /\ store \in [Rows -> Stampings \cup {Absent}]
    /\ call.pc \in {"idle", "prefilter", "embed", "search", "rank", "merge", "recheck", "done"}
    /\ call.status \in {"none", "ok", "error", "suspended", "empty_candidates", "empty_results"}
    /\ call.set \in Settings
    /\ \A kb \in ToSet(call.todo) : kb \in ToSet(call.kbs)
    /\ ToSet(call.found) \subseteq Results /\ ToSet(call.docs) \subseteq Results
    /\ call.round \in 0 .. MaxRounds
    /\ passed \subseteq Rows
    /\ restamps \in 0 .. MaxRestamps /\ changes \in 0 .. MaxChanges

-----------------------------------------------------------------------------
(* The search, with the filter of six conditions *)

\* A principal also matches a stamp for all of its type.
Expanded == Principals \cup {<<p[1], "*">> : p \in Principals}

Passes(r, kb) ==
    /\ store[r].here
    /\ r.kb = kb
    /\ store[r].retrievable
    /\ store[r].version > 0
    /\ store[r].allow \cap Expanded # {}
    /\ store[r].deny \cap Expanded = {}

Cut(s, n) == SubSeq(s, 1, Min({n, Len(s)}))

\* The elements of a sequence that are in a set, in their order.
Those(s, set) ==
    FoldLeft(LAMBDA those, x : IF x \in set THEN Append(those, x) ELSE those, << >>, s)

Hit(r) == [row |-> r, texts |-> <<r.text>>, score |-> "none"]

\* Mutation: a repeated search looks at all rows of the knowledge base.
SearchResultsRelaxed(kb) ==
    LET rows == {r \in Rows : r.kb = kb /\ store[r].here /\ (call.round = 0 => Passes(r, kb))}
    IN  UNION {{[i \in 1 .. n |-> Hit(s[i])] : s \in Injection(1 .. n, rows)} :
                  n \in 0 .. Oversampled}

\* An approximate search finds any of the rows, in any order.
SearchResults(kb) ==
    LET rows == {r \in Rows : Passes(r, kb)}
    IN  UNION {{[i \in 1 .. n |-> Hit(s[i])] : s \in Injection(1 .. n, rows)} :
                  n \in 0 .. Oversampled}

\* The ranker reads texts and gives back texts: of rows with one text the last is kept.
DocOfText(found, text) ==
    found[Max({i \in DOMAIN found : found[i].texts = text})]

\* Any order of the texts with scores that do not rise; they are told apart only when there
\* is a threshold.  The cut to TopK comes before equal texts are dropped.
Rankings(found) ==
    LET texts == {found[i].texts : i \in DOMAIN found}
        equal == Len(found) - Cardinality(texts)
        lengths == Min({TopK, Len(found)}) - equal .. Min({TopK, Cardinality(texts)})
        orders == UNION {Injection(1 .. n, texts) : n \in lengths}
    IN  {[i \in DOMAIN o |->
            [DocOfText(found, o[i]) EXCEPT !.score = IF i <= high THEN "high" ELSE "low"]] :
         o \in orders, high \in IF call.set.minScore THEN 0 .. Len(found) ELSE {Len(found)}}

-----------------------------------------------------------------------------
(* The merging of neighbours *)

\* Mutation: the neighbours are all rows of the document's knowledge bases.
ArrangementsByBase(d) ==
    LET bases == {r.kb : r \in {r \in Rows : r.doc = d}}
        rows == {r \in Rows : r.kb \in bases /\ store[r].here}
    IN  {s \in Injection(1 .. Cardinality(rows), rows) :
            \A i, j \in DOMAIN s : i < j => s[i].index <= s[j].index}

\* The rows of a document in the store, whatever their knowledge base, in the order of
\* their index.
Arrangements(d) ==
    LET rows == {r \in Rows : r.doc = d /\ store[r].here}
    IN  {s \in Injection(1 .. Cardinality(rows), rows) :
            \A i, j \in DOMAIN s : i < j => s[i].index <= s[j].index}

\* The row that a hit is taken for: the same id or the same beginning.
Located(rows, hit) ==
    {i \in DOMAIN rows : rows[i].id = hit.row.id \/ rows[i].head = hit.row.head}

\* The neighbours of the first row with that row's index.
WindowAround(rows, i) ==
    LET p == Min({j \in DOMAIN rows : rows[j].index = rows[i].index})
    IN  SubSeq(rows, Max({1, p - Window}), Min({Len(rows), p + Window}))

NewTexts(window, seen) ==
    FoldLeft(LAMBDA texts, r : IF r.text \in seen \cup ToSet(texts) THEN texts
                               ELSE Append(texts, r.text),
             << >>, window)

\* Mutation: the hit is expected to be in its window.
PartsOfWindow(window, seen, text) == NewTexts(window, seen)

\* The hit's own text is part of what is merged, in the window or before it.
Parts(window, seen, text) ==
    LET texts == NewTexts(window, seen)
    IN  IF text \in ToSet(texts) THEN texts ELSE <<text>> \o texts

Contents(docs) == {docs[i].texts : i \in DOMAIN docs}

MergeHit(siblings, merged, hit) ==
    LET rows == siblings[hit.row.doc]
        text == hit.texts[1]
        at == Located(rows, hit)
        parts == Parts(WindowAround(rows, Min(at)), merged.seen, text)
    IN  CASE text \in merged.seen -> merged
          [] text \notin merged.seen /\ at = {} ->
               IF hit.texts \in Contents(merged.docs) THEN merged
               ELSE [merged EXCEPT !.docs = Append(@, hit)]
          [] OTHER ->
               [docs |-> Append(merged.docs,
                           [hit EXCEPT !.texts = Cut(parts, MaxTotal)]),
                seen |-> merged.seen \cup ToSet(parts)]

\* Document by document, in the order of the best hit of each.
ByDocument(found) ==
    FoldLeft(LAMBDA s, hit : IF hit \in ToSet(s) THEN s
                             ELSE s \o Those(found, {d \in ToSet(found) : d.row.doc = hit.row.doc}),
             << >>, found)

Merged(siblings, found) ==
    FoldLeft(LAMBDA m, hit : MergeHit(siblings, m, hit), [docs |-> << >>, seen |-> {}],
             ByDocument(found)).docs

\* A result without a score, one that was found alone for instance, passes the threshold.
ScoreFilter(docs) ==
    IF call.set.minScore THEN Those(docs, {d \in ToSet(docs) : d.score # "low"}) ELSE docs

\* What a search adds to the result: everything at first, texts not there yet when it is
\* repeated.
Collected(docs, more, round) ==
    IF round = 0 THEN docs \o more
    ELSE FoldLeft(LAMBDA all, d : IF d.texts \in Contents(all) THEN all ELSE Append(all, d),
                  docs, more)

Ends(status, docs) == [call EXCEPT !.pc = "done", !.status = status, !.docs = docs]

\* The search of the knowledge base at the head is over; a repeated one stops when enough
\* is found.
AfterSearch(more) ==
    LET docs == Collected(call.docs, more, call.round)
        stop == call.round > 0 /\ Len(docs) >= MinResults
    IN  [call EXCEPT !.pc = "search", !.docs = docs, !.found = << >>,
                     !.todo = IF stop THEN << >> ELSE Tail(call.todo)]

Result(docs) == Ends("ok", Cut(ScoreFilter(docs), TopK))

-----------------------------------------------------------------------------
(* The steps of the call *)

Local(pc) == call.pc = pc /\ UNCHANGED <<filterVars, store, passed, restamps, changes>>

\* The token of the task is read; a token that has expired ends the call.
Retrieve ==
    /\ call.pc \in {"idle", "done"}
    /\ Forget
    /\ UNCHANGED <<store, restamps, changes>>
    /\ passed' = {r \in Rows : Passes(r, r.kb)}
    /\ \E set \in Settings : call' = [Idle EXCEPT !.pc = "prefilter", !.set = set]

TokenExpired ==
    /\ Local("prefilter")
    /\ call' = Ends("error", << >>)

\* The credential in it is verified again.
CredentialRefused ==
    /\ Local("prefilter")
    /\ call' = Ends("error", << >>)

\* No answer of the service counts as a suspended user.
Suspended ==
    /\ Local("prefilter")
    /\ call' = Ends("suspended", << >>)

\* Only knowledge bases that the service names are searched.
Prefilter ==
    /\ Local("prefilter") /\ up
    /\ \E allowed \in SUBSET KBs :
         LET kbs == Those(Requested, allowed)
         IN  call' = IF kbs = << >> THEN Ends("empty_candidates", << >>)
                     ELSE [call EXCEPT !.pc = "embed", !.kbs = kbs, !.todo = kbs]

EmbedQuery ==
    /\ Local("embed")
    /\ \/ call' = [call EXCEPT !.pc = "search"]
       \/ call' = Ends("error", << >>)

\* A search that fails finds nothing.
Search(mode) ==
    /\ Local("search") /\ call.todo # << >>
    /\ call.set.mode = mode

\* Dense vectors alone: nothing is reranked or merged.
SearchDense ==
    /\ Search("vector_only")
    /\ \E found \in SearchResults(Head(call.todo)) : call' = AfterSearch(found)

\* One result is neither reranked nor merged.
RankUnlessFew(found) ==
    IF Len(found) > 1 THEN [call EXCEPT !.pc = "rank", !.found = found] ELSE AfterSearch(found)

SearchSparse ==
    /\ Search("keyword_only")
    /\ \E found \in SearchResults(Head(call.todo)) : call' = RankUnlessFew(found)

SearchHybrid ==
    /\ Search("hybrid")
    /\ \E found \in SearchResults(Head(call.todo)) : call' = RankUnlessFew(found)

\* A failure of the ranker is the failure of the whole pipeline.
Rank ==
    /\ Local("rank")
    /\ \/ \E ranked \in Rankings(call.found) :
            call' = [call EXCEPT !.pc = "merge", !.found = ranked]
       \/ call' = AfterSearch(<< >>)

\* The store is read a second time; when that fails the hits stay as they are.
Merge ==
    /\ Local("merge")
    /\ \/ call' = AfterSearch(call.found)
       \/ /\ Len(call.found) > 1
          /\ \E siblings \in [Documents -> UNION {Arrangements(d) : d \in Documents}] :
               /\ \A d \in Documents : siblings[d] \in Arrangements(d)
               /\ call' = AfterSearch(Merged(siblings, call.found))

SearchedAll(pc) == Local(pc) /\ call.todo = << >>

FoundNothing ==
    /\ SearchedAll("search") /\ call.docs = << >>
    /\ call' = Ends("empty_results", << >>)

\* Mutation: one round more.
FewFoundAgain == Len(call.docs) < MinResults /\ call.round <= MaxRounds

FewFound == Len(call.docs) < MinResults /\ call.round < MaxRounds

\* Mutation: the rounds are not counted.
SearchAgainUncounted ==
    /\ SearchedAll("search") /\ call.docs # << >> /\ FewFound
    /\ call' = [call EXCEPT !.todo = call.kbs]

SearchAgain ==
    /\ SearchedAll("search") /\ call.docs # << >> /\ FewFound
    /\ call' = [call EXCEPT !.round = @ + 1, !.todo = call.kbs]

Return ==
    /\ SearchedAll("search") /\ call.docs # << >> /\ ~FewFound
    /\ ~call.set.strict
    /\ call' = Result(call.docs)

\* The re-check of what was found, document by knowledge base.
BeginRecheck ==
    /\ call.pc = "search" /\ call.todo = << >> /\ call.docs # << >> /\ ~FewFound
    /\ call.set.strict
    /\ Ask({<<d.row.doc, d.row.kb>> : d \in ToSet(call.docs)})
    /\ call' = [call EXCEPT !.pc = "recheck"]
    /\ UNCHANGED <<store, passed, restamps, changes>>

CheckBatch == FilterBatch /\ UNCHANGED <<store, call, passed, restamps, changes>>

\* Mutation: an answer without documents is taken for no answer.
RecheckedOrAll(docs) ==
    IF kept = {} THEN docs ELSE Those(docs, {d \in ToSet(docs) : d.row.doc \in DocsOf(kept)})

Rechecked(docs) == Those(docs, {d \in ToSet(docs) : d.row.doc \in DocsOf(kept)})

FinishRecheck ==
    /\ FilterAnswers
    /\ call' = Result(Rechecked(call.docs))
    /\ UNCHANGED <<store, passed, restamps, changes>>

-----------------------------------------------------------------------------
(* The world around the call *)

Changes(event) == event /\ changes < MaxChanges /\ changes' = changes + 1 /\ UNCHANGED call

Restamp(r, s) ==
    /\ restamps < MaxRestamps /\ restamps' = restamps + 1
    /\ store' = [store EXCEPT ![r] = s]
    /\ passed' = passed \cup {q \in Rows : Passes(q, q.kb)'}
    /\ UNCHANGED filterVars

Work ==
    \/ TokenExpired \/ CredentialRefused \/ Suspended \/ Prefilter \/ EmbedQuery
    \/ SearchDense \/ SearchSparse \/ SearchHybrid \/ Rank \/ Merge
    \/ FoundNothing \/ SearchAgain \/ Return
    \/ BeginRecheck \/ CheckBatch \/ FinishRecheck

World ==
    \/ \E r \in Rows, s \in Stampings \cup {Absent} : s # store[r] /\ Changes(Restamp(r, s))
    \/ \E i \in Items : Changes(ChangeGrant(i) /\ UNCHANGED <<store, passed, restamps>>)
    \/ Changes(ServiceGoes /\ UNCHANGED <<store, passed, restamps>>)
    \/ ServiceReturns /\ UNCHANGED <<store, call, passed, restamps, changes>>

Next == Retrieve \/ Work \/ World

\* The worker that runs the call goes on: each request has a timeout.  The loss of the
\* worker is a matter of QueryStream.
Spec == Init /\ [][Next]_vars /\ WF_vars(Work)

-----------------------------------------------------------------------------
(* Properties *)

Shown == IF call.status = "ok" THEN ToSet(call.docs) ELSE {}

\* A result of a strict search is a document that the service granted at some moment after
\* the last search, whatever the stamps say and however many requests the re-check took.
StrictShown == call.set.strict => \A d \in Shown : d.row.doc \in DocsOf(ever)

\* Merging neighbours by document keeps the documents apart: each text of a result is one
\* of its document, though the window is read anew, without the filter, and a hit may be
\* taken for another row.
OneDocument ==
    \A d \in ToSet(call.docs) : \A text \in ToSet(d.texts) :
        \E r \in Rows : r.doc = d.row.doc /\ r.text = text

\* No result is the hit of a row that failed the filter throughout the call, repeated
\* searches included.
FilterHeld ==
    \A d \in ToSet(call.docs) : d.row \in passed

\* What was ranked is not lost by merging: the text of a hit is part of some result, also
\* when its row has gone from the store or another row begins like it.
MergeKeepsHits ==
    [][call.pc = "merge" /\ call'.pc # "merge" =>
         \A hit \in ToSet(call.found) :
             \E d \in ToSet(call'.docs) : hit.texts[1] \in ToSet(d.texts)]_vars

\* The re-check keeps its promise.
RecheckPromise == Promise!Spec

\* A search ends, with a result or without one.
RetrievalEnds == call.pc = "prefilter" ~> call.pc = "done"

=============================================================================
