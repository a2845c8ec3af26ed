----------------------------- MODULE MCSettings -----------------------------
(***************************************************************************)
(* Values for the check of ModelSettings: two rerankers of which one is    *)
(* the default, the former name of the type, which requests may use as     *)
(* well, settings of a tenant and none yet of its knowledge base.          *)
(***************************************************************************)
EXTENDS ModelSettings

CONSTANTS m1, m2, k1, tenant, absent

MCTypes == {"reranker", "rerank"}

MCFirstModels ==
    {[id |-> m1, type |-> "reranker", default |-> TRUE],
     [id |-> m2, type |-> "reranker", default |-> FALSE]}

MCFirstSettings == [s \in Scopes |-> IF s = tenant THEN m2 ELSE absent]
=============================================================================
