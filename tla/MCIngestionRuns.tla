-------------------------- MODULE MCIngestionRuns --------------------------
(* Instances of IngestionRuns for TLC.                                     *)
EXTENDS IngestionRuns

CONSTANTS d1, v1, v2, p1, p2

DocsOne == {d1}
VersionsTwo == {v1, v2}
ProcessesTwo == {p1, p2}
=============================================================================
