-------------------------- MODULE MCContentLedger --------------------------
(* Instances of ContentLedger for TLC.                                     *)
EXTENDS ContentLedger, TLC

CONSTANTS k1, k2, r1, r2, p1, p2, t1, t2, t3, t4, t5

KeysOne == {k1}
KeysTwo == {k1, k2}
ResultsTwo == {r1, r2}
ProcessorsTwo == {p1, p2}
TokensFive == {t1, t2, t3, t4, t5}

\* Two chunks with different or repeated contents, and single chunks.
BatchesPair == {<<k1, k2>>, <<k1, k1>>}
BatchesRepeat == {<<k1>>, <<k1, k1>>}

Symmetry == Permutations(TokensFive) \union Permutations(ProcessorsTwo)
=============================================================================
