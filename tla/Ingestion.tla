----------------------------- MODULE Ingestion -----------------------------
(***************************************************************************)
(* The checkpointed ingestion of one document: ingest_document             *)
(* (ingestion/services.py) around the workflow that takes the document     *)
(* chunk by chunk (IngestDocument in ingestion/use_cases.py) and commits   *)
(* rows and vector events together (ingestion/transaction.py).             *)
(*                                                                         *)
(* It composes what other modules model in detail.  Synchronisation is     *)
(* VectorSync, step by step.  The content ledger appears as the write-once *)
(* cache ReuseCache says it is.  The lifecycle is one action per method,   *)
(* as IngestionRuns shows that with one call per run nothing comes between *)
(* the read and the write of a method.                                     *)
(*                                                                         *)
(* A chunk is a version and a position, since chunk identifiers contain    *)
(* the version.  Versions are numbered in the order in which they appear.  *)
(***************************************************************************)
EXTENDS Naturals, FiniteSets

CONSTANTS
    Versions,      \* the versions of the document
    Size,          \* the number of chunks of each version
    Results,       \* tagging results a provider may return
    Processes,     \* processes that call ingest_document
    Limit,         \* sync_limit
    Returns,       \* whether an older version may be ingested after a newer one
    CanCrash,      \* whether a process may be killed
    None           \* NULL

ASSUME VersionsAssumption == Versions \subseteq Nat
ASSUME SizeAssumption == Size \in Nat \ {0}
ASSUME LimitAssumption == Limit \in Nat \ {0}
ASSUME NoneAssumption == None \notin Versions /\ None \notin Results /\ None # "empty"

Positions == 1..Size
Chunks == Versions \X Positions
ChunksOf(v) == {v} \X Positions
Version(c) == c[1]

\* A deletion has the empty object for its payload.
Upsert(v, c, r) == [run |-> v, record |-> c, op |-> "upsert", value |-> r]
Delete(v, c) == [run |-> v, record |-> c, op |-> "delete", value |-> "empty"]

\* A run writes the chunks of its version and deletes those of others.
Events ==
    {Upsert(Version(c), c, r) : c \in Chunks, r \in Results}
        \union {Delete(v, c) : v \in Versions, c \in Chunks}

VARIABLES
    status,        \* ingestion_runs.status of each version's run
    active,        \* documents.active_version
    cached,        \* the result the content ledger holds for each chunk
    rows,          \* source chunks, paragraphs and relations of each chunk
    outbox, chroma, index,                        \* see VectorSync
    spc, scope, mode, todo, event, tally,         \* the synchroniser of each call
    calm,          \* whether the environment has stopped producing faults
    pc,            \* where each call is
    job,           \* the version it ingests
    previous,      \* previous_source_versions
    at,            \* the chunk it works on
    got,           \* the results it has for its chunks
    claimed,       \* whether it holds the claim of the chunk it works on
    stale          \* the records its reconciliation found to be stale

lifecycle == <<status, active>>
relational == <<cached, rows>>
sync == <<spc, scope, mode, todo, event, tally>>
stores == <<outbox, chroma, index>>
call == <<job, previous, at, got, claimed, stale>>
vars == <<lifecycle, relational, stores, sync, calm, pc, call>>

Sync == INSTANCE VectorSync WITH
    Runs <- Versions, Records <- Chunks, Values <- Results \union {"empty"},
    Workers <- Processes, Overlap <- TRUE, pc <- spc

Blank == [n \in Positions |-> None]

Init ==
    /\ status = [v \in Versions |-> "absent"]
    /\ active = None
    /\ cached = [c \in Chunks |-> None]
    /\ rows = [c \in Chunks |-> None]
    /\ Sync!Init
    /\ pc = [p \in Processes |-> "idle"]
    /\ job = [p \in Processes |-> None]
    /\ previous = [p \in Processes |-> {}]
    /\ at = [p \in Processes |-> 1]
    /\ got = [p \in Processes |-> Blank]
    /\ claimed = [p \in Processes |-> FALSE]
    /\ stale = [p \in Processes |-> {}]

Goto(p, label) == pc' = [pc EXCEPT ![p] = label]

\* The call is over; what it knew is gone.
Leave(p) ==
    /\ Goto(p, "idle")
    /\ job' = [job EXCEPT ![p] = None]
    /\ previous' = [previous EXCEPT ![p] = {}]
    /\ at' = [at EXCEPT ![p] = 1]
    /\ got' = [got EXCEPT ![p] = Blank]
    /\ claimed' = [claimed EXCEPT ![p] = FALSE]
    /\ stale' = [stale EXCEPT ![p] = {}]

\* The call goes on to label, or is over.
Resume(p, label) ==
    IF label = "idle" THEN Leave(p) ELSE Goto(p, label) /\ UNCHANGED call

Chunk(p) == <<job[p], at[p]>>

-----------------------------------------------------------------------------
(* ingest_document up to its workflow.                                     *)

IsActive(v) == status[v] \in {"processing", "tagged"}
Free(v) == \A w \in Versions \ {v} : ~IsActive(w)

\* In order: nobody is or was at a newer version, and every call for an older
\* one has its answer from start_or_resume.
InOrder(v) ==
    /\ \A w \in Versions : w > v => status[w] = "absent"
    /\ \A q \in Processes : pc[q] # "idle" => job[q] <= v /\ pc[q] # "start"

\* A caller hands version v in; the version published at that time is read
\* before the run is started.
Begin(p, v) ==
    /\ pc[p] = "idle"
    /\ \A q \in Processes : job[q] # v
    /\ Returns \/ InOrder(v)
    /\ Goto(p, "start")
    /\ job' = [job EXCEPT ![p] = v]
    /\ previous' = [previous EXCEPT ![p] = {active} \ {None, v}]
    /\ UNCHANGED <<lifecycle, relational, stores, sync, calm, at, got, claimed, stale>>

\* start_or_resume.  A run that is ready is handed back like one at work.
Start(p) ==
    LET v == job[p]
    IN  /\ pc[p] = "start"
        /\ \/ /\ IsActive(v) \/ status[v] = "ready"
              /\ Resume(p, "prepare")
              /\ UNCHANGED status
           \/ /\ status[v] \in {"absent", "failed"} /\ Free(v)
              /\ status' = [status EXCEPT ![v] = "processing"]
              /\ Resume(p, "prepare")
           \/ /\ status[v] \in {"absent", "failed"} /\ ~Free(v)
              /\ Leave(p)
              /\ UNCHANGED status
        /\ UNCHANGED <<active, relational, stores, sync, calm>>

-----------------------------------------------------------------------------
(* One chunk: tagged, embedded, committed, completed and synchronised.     *)

\* The content is known, or it is claimed and tagged.
Prepare(p) ==
    LET c == Chunk(p)
        reused == cached[c] # None
    IN  /\ pc[p] = "prepare"
        /\ \E r \in (IF reused THEN {cached[c]} ELSE Results) :
            got' = [got EXCEPT ![p][at[p]] = r]
        /\ claimed' = [claimed EXCEPT ![p] = ~reused]
        /\ Goto(p, "commit")
        /\ UNCHANGED <<lifecycle, relational, stores, sync, calm, job, previous, at, stale>>

\* Somebody else's claim is in flight: the document is reported incomplete.
Skip(p) ==
    /\ ~calm
    /\ pc[p] = "prepare"
    /\ cached[Chunk(p)] = None
    /\ Goto(p, "fail")
    /\ UNCHANGED <<lifecycle, relational, stores, sync, calm, call>>

\* Fault: the event is left to the document's transaction.
CommitRowsOnly(p) ==
    /\ pc[p] = "commit"
    /\ rows' = [rows EXCEPT ![Chunk(p)] = got[p][at[p]]]
    /\ Goto(p, "complete")
    /\ UNCHANGED <<lifecycle, cached, stores, sync, calm, call>>

\* commit_checkpoint: the chunk's rows and its event in one transaction.
Commit(p) ==
    LET r == got[p][at[p]]
    IN  /\ pc[p] = "commit"
        /\ rows' = [rows EXCEPT ![Chunk(p)] = r]
        /\ Sync!Enqueue({Upsert(job[p], Chunk(p), r)})
        /\ Goto(p, "complete")
        /\ UNCHANGED <<lifecycle, cached, chroma, index, sync, calm, call>>

\* The result becomes reusable, unless somebody else's has in the meantime: then
\* the claim is lost, and complete() raises after the rows have been committed.
Complete(p) ==
    LET c == Chunk(p)
    IN  /\ pc[p] = "complete"
        /\ \/ /\ claimed[p] /\ cached[c] = None
              /\ cached' = [cached EXCEPT ![c] = got[p][at[p]]]
              /\ Goto(p, "checkpoint")
           \/ /\ claimed[p] /\ cached[c] # None
              /\ Goto(p, "fail")
              /\ UNCHANGED cached
           \/ /\ ~claimed[p]
              /\ Goto(p, "checkpoint")
              /\ UNCHANGED cached
        /\ UNCHANGED <<lifecycle, rows, stores, sync, calm, call>>

\* sync_pending is entered for the events of this run.
Enter(p, m) ==
    /\ spc' = [spc EXCEPT ![p] = "list"]
    /\ scope' = [scope EXCEPT ![p] = job[p]]
    /\ mode' = [mode EXCEPT ![p] = m]
    /\ UNCHANGED <<lifecycle, relational, stores, todo, event, tally, calm, call>>

Checkpoint(p) == pc[p] = "checkpoint" /\ Goto(p, "draining") /\ Enter(p, "checkpoint")

\* The checkpoint is done: on to the next chunk, or to the document.
Drained(p) ==
    /\ pc[p] = "draining"
    /\ spc[p] = "drained"
    /\ Sync!Return(p)
    /\ IF at[p] < Size
          THEN Goto(p, "prepare") /\ at' = [at EXCEPT ![p] = @ + 1]
          ELSE Goto(p, "plan") /\ UNCHANGED at
    /\ UNCHANGED <<lifecycle, relational, job, previous, got, claimed, stale>>

\* Fault: the exception of the checkpoint is swallowed.
GoOnUndrained(p) ==
    /\ pc[p] = "draining"
    /\ spc[p] \in {"failed", "left"}
    /\ Sync!Return(p)
    /\ IF at[p] < Size
          THEN Goto(p, "prepare") /\ at' = [at EXCEPT ![p] = @ + 1]
          ELSE Goto(p, "plan") /\ UNCHANGED at
    /\ UNCHANGED <<lifecycle, relational, job, previous, got, claimed, stale>>

\* An event failed, or no progress was made: the checkpoint raises.
NotDrained(p) ==
    /\ pc[p] = "draining"
    /\ spc[p] \in {"failed", "left"}
    /\ Sync!Return(p)
    /\ Goto(p, "fail")
    /\ UNCHANGED <<lifecycle, relational, call>>

-----------------------------------------------------------------------------
(* The document, once all its chunks are through.                          *)

\* Fault: only the chunks of the version published before are reconciled.
PlanPrevious(p) ==
    /\ pc[p] = "plan"
    /\ stale' = [stale EXCEPT ![p] =
                    {c \in Chunks : index[c] # None /\ Version(c) \in previous[p]}]
    /\ Goto(p, "document")
    /\ UNCHANGED <<lifecycle, relational, stores, sync, calm,
                   job, previous, at, got, claimed>>

\* plan_reconciliation: the chunks the index state knows of and this version
\* does not contain.
Plan(p) ==
    /\ pc[p] = "plan"
    /\ stale' = [stale EXCEPT ![p] =
                    {c \in Chunks : index[c] # None /\ Version(c) # job[p]}]
    /\ Goto(p, "document")
    /\ UNCHANGED <<lifecycle, relational, stores, sync, calm,
                   job, previous, at, got, claimed>>

\* The rows once the document is committed: those of this version as its call
\* has them, those of the previous version gone.
Committed(p) ==
    [c \in Chunks |->
        IF Version(c) = job[p] THEN got[p][c[2]]
        ELSE IF Version(c) \in previous[p] THEN None
        ELSE rows[c]]

\* Fault: the stale vectors are found, but their deletion is not scheduled.
DocumentOnlyRows(p) ==
    /\ pc[p] = "document"
    /\ {Version(c) : c \in stale[p]} \subseteq previous[p]
    /\ rows' = Committed(p)
    /\ Goto(p, "tag")
    /\ UNCHANGED <<lifecycle, cached, stores, sync, calm, call>>

\* commit_document, one transaction for the rows and for the deletion of the
\* stale vectors, all of which have to be the previous version's.
Document(p) ==
    /\ pc[p] = "document"
    /\ {Version(c) : c \in stale[p]} \subseteq previous[p]
    /\ rows' = Committed(p)
    /\ Sync!Enqueue({Delete(job[p], c) : c \in stale[p]})
    /\ Goto(p, "tag")
    /\ UNCHANGED <<lifecycle, cached, chroma, index, sync, calm, call>>

\* "delete events must target the new or previous source version": the document
\* is refused.
DocumentRefused(p) ==
    /\ pc[p] = "document"
    /\ ~({Version(c) : c \in stale[p]} \subseteq previous[p])
    /\ Goto(p, "fail")
    /\ UNCHANGED <<lifecycle, relational, stores, sync, calm, call>>

\* mark_tagged_pending_vector_sync; a run that was ready already is refused, and
\* nothing handles the exception.
MarkTagged(p) ==
    LET v == job[p]
    IN  /\ pc[p] = "tag"
        /\ \/ /\ IsActive(v)
              /\ status' = [status EXCEPT ![v] = "tagged"]
              /\ Resume(p, "final")
           \/ /\ ~IsActive(v)
              /\ Leave(p)
              /\ UNCHANGED status
        /\ UNCHANGED <<active, relational, stores, sync, calm>>

Final(p) == pc[p] = "final" /\ Goto(p, "syncing") /\ Enter(p, "final")

\* What the last synchronisation makes of the run: it may become ready, it has
\* failed, or it stays as it is until somebody comes back for it.
Synced(p) ==
    LET next == CASE spc[p] = "drained" -> "ready"
                  [] spc[p] = "failed" -> "fail"
                  [] spc[p] = "left" -> "idle"
    IN  /\ pc[p] = "syncing"
        /\ spc[p] \in {"drained", "failed", "left"}
        /\ Sync!Return(p)
        /\ Resume(p, next)
        /\ UNCHANGED <<lifecycle, relational>>

\* mark_ready: what MarkTagged left is still so, as there is one call per run.
MarkReady(p) ==
    LET v == job[p]
    IN  /\ pc[p] = "ready"
        /\ status[v] = "tagged"
        /\ status' = [status EXCEPT ![v] = "ready"]
        /\ active' = v
        /\ Resume(p, "done")
        /\ UNCHANGED <<relational, stores, sync, calm>>

\* mark_failed: an active run fails, any other is left as it is.
MarkFailed(p) ==
    /\ pc[p] = "fail"
    /\ status' = IF IsActive(job[p]) THEN [status EXCEPT ![job[p]] = "failed"] ELSE status
    /\ Leave(p)
    /\ UNCHANGED <<active, relational, stores, sync, calm>>

\* The caller has its report of an indexed document.
Return(p) ==
    /\ pc[p] = "done"
    /\ Leave(p)
    /\ UNCHANGED <<lifecycle, relational, stores, sync, calm>>

-----------------------------------------------------------------------------
(* The environment.                                                        *)

\* A provider, the ledger, the store, the reconciliation or, once the document
\* has been committed, its publication raises.  The service answers with
\* mark_failed, except around the lifecycle methods themselves.
Raise(p) ==
    /\ ~calm
    /\ \/ /\ pc[p] \in {"prepare", "commit", "complete", "plan", "document", "tag", "ready"}
          /\ Resume(p, "fail")
       \/ /\ pc[p] \in {"start", "tag", "fail"}
          /\ Leave(p)
    /\ UNCHANGED <<lifecycle, relational, stores, sync, calm>>

\* The process is killed or the call cancelled.
Crash(p) ==
    /\ pc[p] # "idle"
    /\ CanCrash /\ ~calm
    /\ Leave(p)
    /\ \/ Sync!Crash(p)
       \/ spc[p] = "idle" /\ UNCHANGED <<stores, sync, calm>>
    /\ UNCHANGED <<lifecycle, relational>>

\* The same content, in another document, is tagged and completed.
Foreign(c, r) ==
    /\ ~calm
    /\ cached[c] = None
    /\ cached' = [cached EXCEPT ![c] = r]
    /\ UNCHANGED <<lifecycle, rows, stores, sync, calm, pc, call>>

\* A step of the synchroniser inside a call.
Synchronise(p) ==
    /\ \/ Sync!List(p) \/ Sync!Record(p) \/ Sync!Count(p)
       \/ Sync!MarkSucceeded(p) \/ Sync!MarkFailed(p)
       \/ \E e \in todo[p] : Sync!Apply(p, e)
    /\ UNCHANGED <<lifecycle, relational, pc, call>>

SyncFails(p) ==
    /\ \/ \E e \in todo[p] : Sync!ApplyFails(p, e)
       \/ Sync!RecordFails(p) \/ Sync!Raise(p)
    /\ UNCHANGED <<lifecycle, relational, pc, call>>

CalmDown ==
    /\ Sync!CalmDown
    /\ UNCHANGED <<lifecycle, relational, pc, call>>

Step(p) ==
    \/ Start(p)
    \/ Prepare(p) \/ Commit(p) \/ Complete(p)
    \/ Checkpoint(p) \/ Synchronise(p) \/ Drained(p) \/ NotDrained(p)
    \/ Plan(p) \/ Document(p) \/ DocumentRefused(p)
    \/ MarkTagged(p) \/ Final(p) \/ Synced(p) \/ MarkReady(p) \/ MarkFailed(p)
    \/ Return(p)

Next ==
    \/ \E p \in Processes :
        \/ \E v \in Versions : Begin(p, v)
        \/ Step(p)
        \/ Skip(p) \/ SyncFails(p) \/ Raise(p) \/ Crash(p)
    \/ \E c \in Chunks, r \in Results : Foreign(c, r)
    \/ CalmDown

Spec == Init /\ [][Next]_vars

\* Calls run on, callers come back with every version, the faults stop some day.
Fairness ==
    /\ WF_vars(CalmDown)
    /\ \A p \in Processes :
        /\ WF_vars(Step(p))
        /\ \A v \in Versions : SF_vars(Begin(p, v))

FairSpec == Spec /\ Fairness

-----------------------------------------------------------------------------
(* Properties.                                                             *)

Labels == {"idle", "start", "prepare", "commit", "complete", "checkpoint",
           "draining", "plan", "document", "tag", "final", "syncing", "ready",
           "fail", "done"}

\* Every variable has its type, and the synchroniser of a call is at work on the
\* call's own run exactly while the call waits for it.
TypeOK ==
    /\ status \in [Versions -> {"absent", "processing", "tagged", "ready", "failed"}]
    /\ active \in Versions \union {None}
    /\ cached \in [Chunks -> Results \union {None}]
    /\ rows \in [Chunks -> Results \union {None}]
    /\ Sync!TypeOK
    /\ pc \in [Processes -> Labels]
    /\ job \in [Processes -> Versions \union {None}]
    /\ previous \in [Processes -> SUBSET Versions]
    /\ at \in [Processes -> Positions]
    /\ got \in [Processes -> [Positions -> Results \union {None}]]
    /\ claimed \in [Processes -> BOOLEAN]
    /\ stale \in [Processes -> SUBSET Chunks]
    /\ \A p \in Processes :
        /\ (job[p] = None) <=> (pc[p] = "idle")
        /\ (spc[p] # "idle") <=> (pc[p] \in {"draining", "syncing"})
        /\ scope[p] = IF spc[p] = "idle" THEN None ELSE job[p]

HasRows(v) == \A c \in ChunksOf(v) : rows[c] # None
HasVectors(v) == \A c \in ChunksOf(v) : chroma[c] # None

Reports(p) == pc[p] # "done" /\ pc'[p] = "done"

\* A call that reports an indexed document has all of it in both stores by then
\* ("status=completed: chunk da tag, embed, persist SQLite/content cache va sync
\* vector Chroma thanh cong.", README.md), whatever calls before it left behind.
ReportedIsComplete ==
    [][\A p \in Processes : Reports(p) => (HasRows(job[p]) /\ HasVectors(job[p]))']_vars

\* A chunk whose checkpoint is done has its rows and its vector ("status=completed:
\* chunk da tag, embed, persist SQLite/content cache va sync vector Chroma thanh
\* cong.", README.md).
CheckpointIsSynced ==
    [][\A p \in Processes :
        pc[p] = "draining" /\ pc'[p] \in {"prepare", "plan"} =>
            rows[Chunk(p)] # None /\ chroma[Chunk(p)] # None]_vars

\* Once a version has been published there is always one that can be read in
\* full: the next one is complete in both stores before the rows and vectors of
\* the last are taken away.
AlwaysReadable == active # None => \E v \in Versions : HasRows(v) /\ HasVectors(v)

\* A vector without rows is on its way out: its deletion is committed together
\* with that of its rows, and cannot get lost.
NoDanglingVectors ==
    \A c \in Chunks : chroma[c] # None /\ rows[c] = None =>
        \E v \in Versions : outbox[Delete(v, c)] \in {"pending", "failed"}

\* When the published version is the newest there is, nothing but its chunks is
\* believed to be in Chroma: what earlier runs left, failed ones included, has
\* been cleaned up.
PublishedAlone ==
    active # None /\ (\A w \in Versions : w > active => status[w] = "absent") =>
        \A c \in Chunks : Version(c) # active => index[c] = None

\* The newest version is published in the end, whatever happened on the way.
NewestIsPublished ==
    \A v \in Versions : status[v] = "processing" ~>
        status[v] = "ready" \/ \E w \in Versions : w > v /\ status[w] # "absent"
=============================================================================
