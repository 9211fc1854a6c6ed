--------------------------------- MODULE Lists ---------------------------------
(***************************************************************************)
(* What the code does to lists: the comprehensions with a condition, the   *)
(* calls of sorted, and the first occurrences that a dict keeps. SelectSeq *)
(* and SortSeq would do for the first two, but nothing is known of them in *)
(* a proof: these are defined by operators of which something is.          *)
(***************************************************************************)
EXTENDS Integers, FiniteSets, SequencesExt

\* The elements of a sequence that are in a set, in their order.
Among(s, S) == FoldLeft(LAMBDA acc, x : IF x \in S THEN Append(acc, x) ELSE acc, <<>>, s)

\* The elements of a set, each behind those that come before it.
InOrder(S, Before(_, _)) ==
    [i \in 1..Cardinality(S) |->
        CHOOSE x \in S : Cardinality({y \in S : Before(y, x)}) = i - 1]

\* The first occurrences in a sequence, at most limit of them.
FirstOnes(s, limit) ==
    FoldLeft(LAMBDA acc, x : IF Contains(acc, x) \/ Len(acc) >= limit THEN acc ELSE Append(acc, x),
             <<>>, s)
Distinct(s) == FirstOnes(s, Len(s))
================================================================================
