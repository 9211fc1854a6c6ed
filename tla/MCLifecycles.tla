----------------------------- MODULE MCLifecycles -----------------------------
(***************************************************************************)
(* The two protocols of an ingestion that must come to an end whatever     *)
(* crashes, one at a time: the runs of a document (IngestionRuns) and the  *)
(* claims on a content (ContentLedger), each under its own fairness.       *)
(***************************************************************************)
EXTENDS IngestionRuns, Sequences

CONSTANTS d1, v1, v2, p1, p2, k1, r1, t1, t2, t3

DocsOne == {d1}
VersionsTwo == {v1, v2}
ProcessesTwo == {p1, p2}

VARIABLES part, ledger, claims, batch, at, readAge, slot, run

\* One content, single chunks: what can end a claim does not depend on the others.
L == INSTANCE ContentLedger WITH
        Keys <- {k1}, Results <- {r1}, Processors <- Processes, Batches <- {<<k1>>},
        Tokens <- {t1, t2, t3}, Timeout <- 1, MaxHop <- 1, CanCancel <- TRUE,
        pc <- claims

claimVars == <<ledger, claims, batch, at, readAge, slot, run>>
suiteVars == <<part, vars, claimVars>>

SuiteInit == part \in {"runs", "claims"} /\ Init /\ L!Init

RunsStep(A) == part = "runs" /\ A /\ UNCHANGED <<part, claimVars>>
ClaimsStep(A) == part = "claims" /\ A /\ UNCHANGED <<part, vars>>

SuiteNext == RunsStep(Next) \/ ClaimsStep(L!Next)

\* IngestionRuns!Fairness and ContentLedger!Fairness. The parts exclude each other, so
\* that a condition on a step of one can be shared with a condition of the other.
SuiteSpec ==
    /\ SuiteInit /\ [][SuiteNext]_suiteVars
    /\ WF_suiteVars(RunsStep(CalmDown))
    /\ SF_suiteVars(ClaimsStep(L!Tick))
    /\ \A p \in Processes :
        /\ WF_suiteVars(RunsStep(Step(p)) \/ ClaimsStep(L!Work(p)))
        /\ WF_suiteVars(ClaimsStep(L!Restart(p)))
        /\ SF_suiteVars(RunsStep(Begin(p, <<d1, v1>>)) \/ ClaimsStep(L!ReadClock(p)))
        /\ SF_suiteVars(RunsStep(Begin(p, <<d1, v2>>)) \/ ClaimsStep(L!RunReserve(p)))
        /\ SF_suiteVars(ClaimsStep(L!Begin(p, <<k1>>)))

\* ContentLedger!ClaimsEnd: every claim ends, that of a dead processor by time-out.
ClaimsEnd == L!ClaimsEnd
===============================================================================
