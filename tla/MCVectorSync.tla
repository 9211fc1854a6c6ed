---------------------------- MODULE MCVectorSync ----------------------------
(* Instances of VectorSync for TLC.                                        *)
EXTENDS VectorSync, TLC

CONSTANTS run1, run2, c1, x, y, w1, w2

RunsTwo == {run1, run2}
RecordsOne == {c1}
ValuesTwo == {x, y}
WorkersTwo == {w1, w2}

Upsert(run, r, v) == [run |-> run, record |-> r, op |-> "upsert", value |-> v]
Delete(run, r) == [run |-> run, record |-> r, op |-> "delete", value |-> x]

\* The first version writes a chunk twice, with different contents; the second
\* deletes it.
EventsVersions == {Upsert(run1, c1, x), Upsert(run1, c1, y), Delete(run2, c1)}

Symmetry == Permutations(WorkersTwo)
=============================================================================
