---------------------------- MODULE MCRetrieval ----------------------------
(***************************************************************************)
(* A store of two documents for the runs of Retrieval.  The first document *)
(* has two rows in one knowledge base, which begin alike, and a row with   *)
(* the text of the first in another; the second document shares the first  *)
(* knowledge base with it.                                                 *)
(***************************************************************************)
EXTENDS Retrieval

Row(id, doc, kb, index, text, head) ==
    [id |-> id, doc |-> doc, kb |-> kb, index |-> index, text |-> text, head |-> head]

MCRows ==
    {Row(1, "report", "kb1", 0, "intro", "title"),
     Row(2, "report", "kb1", 1, "end", "title"),
     Row(3, "memo", "kb1", 0, "memo", "memo"),
     Row(4, "report", "kb2", 0, "intro", "title")}

MCPrincipals == {<<"user", "u">>, <<"role", "reader">>}

Stamping(retrievable, version, allow, deny) ==
    [here |-> TRUE, retrievable |-> retrievable, version |-> version,
     allow |-> allow, deny |-> deny]

Everybody == {<<"user", "*">>}
Visible == Stamping(TRUE, 1, {<<"role", "reader">>}, {})
Refused == Stamping(TRUE, 2, Everybody, Everybody)

\* For the user's role, for everybody but refused to everybody, new and not stamped, hidden.
MCStampings == {Visible, Refused, Stamping(TRUE, 0, {}, {}), Stamping(FALSE, 1, Everybody, {})}

\* The copy in the second knowledge base is refused.
MCStored == [r \in MCRows |-> IF r.id = 4 THEN Refused ELSE Visible]

MCGranted == {<<"report", "kb1">>, <<"report", "kb2">>, <<"memo", "kb1">>}

\* Strict searches with and without merging, and one with a threshold.
MCSettings ==
    {[strict |-> TRUE, mode |-> "hybrid", minScore |-> FALSE],
     [strict |-> TRUE, mode |-> "vector_only", minScore |-> FALSE],
     [strict |-> FALSE, mode |-> "keyword_only", minScore |-> TRUE]}

MCRequested == <<"kb1", "kb2">>
=============================================================================
