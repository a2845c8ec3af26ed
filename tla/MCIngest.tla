------------------------------ MODULE MCIngest ------------------------------
(***************************************************************************)
(* IngestSystem for TLC.                                                   *)
(***************************************************************************)
EXTENDS IngestSystem, TLC

RequestSymmetry == Permutations(Requests)

(***************************************************************************)
(* The state that one upload leaves when nothing else happens: the first   *)
(* mount is ingested and stamped.  Runs that start here spend their calls  *)
(* on what may happen to a document that is already in place.              *)
(***************************************************************************)
IndexedInit ==
    LET g == [mount |-> 1, config |-> 1]
    IN  /\ mount = 1 /\ minted = 1 /\ linked = TRUE
        /\ config = 1
        /\ status = [m \in Mounts |-> IF m = 1 THEN "completed" ELSE "none"]
        /\ epoch = [m \in Mounts |-> IF m = 1 THEN 1 ELSE 0]
        /\ outbox = <<[kind |-> "DocumentMounted", mount |-> 1, state |-> "sent"]>>
        /\ job = [j \in Jobs |-> IF j = 1 THEN JobDone ELSE NoJob]
        /\ chunks = {g} /\ stamped = {g} /\ revived = {} /\ twice = {}
        /\ stampQueue = 0
        /\ faults = 0
        /\ RequestsInit /\ RelayInit /\ SweepInit /\ StamperInit

IndexedSpec == IndexedInit /\ [][Next]_vars

IndexedFairSpec == IndexedSpec /\ Fairness
=============================================================================
