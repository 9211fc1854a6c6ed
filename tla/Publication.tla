---------------------------- MODULE Publication ----------------------------
(***************************************************************************)
(* What the ingestion lifecycle promises, with no runs, processes or       *)
(* crashes in sight: a document's versions are published one by one, none  *)
(* twice, none taken back, and the current version is the latest one.      *)
(***************************************************************************)
CONSTANTS Docs, Versions, None

VARIABLES
    published,     \* the versions of each document that have been published
    current        \* the latest of them, None before the first

vars == <<published, current>>

Init ==
    /\ published = [d \in Docs |-> {}]
    /\ current = [d \in Docs |-> None]

Publish(d, v) ==
    /\ v \notin published[d]
    /\ published' = [published EXCEPT ![d] = @ \union {v}]
    /\ current' = [current EXCEPT ![d] = v]

Next == \E d \in Docs, v \in Versions : Publish(d, v)

Spec == Init /\ [][Next]_vars
=============================================================================
