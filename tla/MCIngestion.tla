---------------------------- MODULE MCIngestion ----------------------------
(* Instances of Ingestion for TLC.                                         *)
EXTENDS Ingestion, TLC

CONSTANTS r1, p1, p2

VersionsTwo == {1, 2}
ResultsOne == {r1}
ProcessesOne == {p1}
ProcessesTwo == {p1, p2}

Symmetry == Permutations(Results) \union Permutations(Processes)
=============================================================================
