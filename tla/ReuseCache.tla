---------------------------- MODULE ReuseCache ----------------------------
(***************************************************************************)
(* What the content ledger promises to the rest of the system, with no     *)
(* claims, leases or clocks in sight: a cache from content to its tagging  *)
(* result that is written at most once per key, and batches that answer    *)
(* their callers with what the cache holds.                                *)
(***************************************************************************)
CONSTANTS Keys, Results, Processors, None

VARIABLES
    cache,         \* the result of each key, None while there is none
    answer         \* what each processor is handing to its caller, by key

vars == <<cache, answer>>

NoAnswer == [k \in Keys |-> None]

Init ==
    /\ cache = NoAnswer
    /\ answer = [p \in Processors |-> NoAnswer]

\* A key without a result gets one.
Write ==
    \E k \in Keys, r \in Results :
        /\ cache[k] = None
        /\ cache' = [cache EXCEPT ![k] = r]

\* A processor answers for a set of keys, all of them cached by then.
Answer(p) ==
    /\ answer[p] = NoAnswer
    /\ Write \/ UNCHANGED cache
    /\ \E S \in SUBSET Keys :
        /\ \A k \in S : cache'[k] # None
        /\ answer' = [answer EXCEPT ![p] =
                        [k \in Keys |-> IF k \in S THEN cache'[k] ELSE None]]

Forget(p) ==
    /\ answer' = [answer EXCEPT ![p] = NoAnswer]
    /\ UNCHANGED cache

Next ==
    \/ Write /\ UNCHANGED answer
    \/ \E p \in Processors : Answer(p) \/ Forget(p)

Spec == Init /\ [][Next]_vars
=============================================================================
