--------------------------- MODULE IngestionRuns ---------------------------
(***************************************************************************)
(* The lifecycle of documents and their ingestion runs                     *)
(* (ingestion/state.py) under the calls that drive it                      *)
(* (DocumentIngestionService in ingestion/services.py).                    *)
(*                                                                         *)
(* A run ingests one version of one document; its identifier is made of    *)
(* the document's name and the version's hash, so the pair stands for it.  *)
(* What the workflow and the vector synchronisation answer is left open    *)
(* here: any outcome the service distinguishes.                            *)
(*                                                                         *)
(* A lifecycle method reads the run in autocommit mode, decides, and only  *)
(* then opens a write transaction (the implicit BEGIN of Python's sqlite3  *)
(* comes with the first UPDATE or INSERT).  Other processes may write in   *)
(* between, so each method is two steps.  The several reads of             *)
(* start_or_resume are one step: whatever they miss of each other, the     *)
(* constraints on the tables refuse at the write.                          *)
(***************************************************************************)
EXTENDS Naturals

CONSTANTS
    Docs, Versions,
    Processes,     \* processes that call ingest_document
    Shared,        \* whether two calls may be at work on the same run at once
    CanCrash,      \* whether a process may be killed
    None           \* NULL

Runs == Docs \X Versions

ASSUME SharedAssumption == Shared \in BOOLEAN
ASSUME NoneAssumption == None \notin Versions

VARIABLES
    status,        \* ingestion_runs.status, "absent" where there is no row
    shown,         \* documents.ingestion_status, "absent" where there is no row
    active,        \* documents.active_version
    pc,            \* where each call is
    job,           \* the run it was asked for, <<>> before the first
    seen,          \* the run's status its pending transaction has read
    calm           \* whether the environment has stopped producing faults

vars == <<status, shown, active, pc, job, seen, calm>>

Active == {"processing", "tagged"}
IsActive(r) == status[r] \in Active
Doc(r) == r[1]

Version(r) == r[2]

\* Fault: the transition table lets a ready run be worked on again.
AllowedFromReady(s, t) ==
    \/ s \in {"processing", "ready"} /\ t \in {"tagged", "failed"}
    \/ s = "tagged" /\ t \in {"ready", "failed"}
    \/ s = "failed" /\ t = "processing"

\* _is_allowed_transition
Allowed(s, t) ==
    \/ s = "processing" /\ t \in {"tagged", "failed"}
    \/ s = "tagged" /\ t \in {"ready", "failed"}
    \/ s = "failed" /\ t = "processing"

Init ==
    /\ status = [r \in Runs |-> "absent"]
    /\ shown = [d \in Docs |-> "absent"]
    /\ active = [d \in Docs |-> None]
    /\ pc = [p \in Processes |-> "idle"]
    /\ job = [p \in Processes |-> <<>>]
    /\ seen = [p \in Processes |-> "absent"]
    /\ calm = FALSE

Goto(p, label) == pc' = [pc EXCEPT ![p] = label]

store == <<status, shown, active>>

\* A call makes its way without touching the store.
Move(p, from, label) ==
    /\ pc[p] = from
    /\ Goto(p, label)
    /\ UNCHANGED <<store, job, seen, calm>>

\* Fault: neither a query nor an index keeps the active runs apart.
AlwaysFree(r) == TRUE

\* idx_ingestion_runs_one_active_document lets r become active.
Free(r) == \A o \in Runs : o # r /\ Doc(o) = Doc(r) => ~IsActive(o)

-----------------------------------------------------------------------------
(* ingest_document                                                         *)

\* A caller asks for run r to be ingested.
Begin(p, r) ==
    /\ pc[p] = "idle"
    /\ Shared \/ \A q \in Processes : pc[q] = "idle" \/ job[q] # r
    /\ Goto(p, "start")
    /\ job' = [job EXCEPT ![p] = r]
    /\ UNCHANGED <<store, seen, calm>>

\* Fault: an active run is refused even to the call that comes back for it.
StartReadRefusing(p) ==
    LET r == job[p]
    IN  /\ pc[p] = "start"
        /\ seen' = [seen EXCEPT ![p] = status[r]]
        /\ \/ status[r] = "ready" /\ Goto(p, "workflow")
           \/ status[r] = "failed" /\ Goto(p, "startWrite")
           \/ status[r] = "absent" /\ Free(r) /\ Goto(p, "startWrite")
           \/ status[r] \in Active \union {"absent"} /\ ~Free(r) /\ Goto(p, "idle")
           \/ IsActive(r) /\ Goto(p, "idle")
        /\ UNCHANGED <<store, job, calm>>

\* start_or_resume reads: a run at work or ready is handed back unchanged, a
\* failed or a new one is to be written, a new one only beside no active run.
StartRead(p) ==
    LET r == job[p]
    IN  /\ pc[p] = "start"
        /\ seen' = [seen EXCEPT ![p] = status[r]]
        /\ \/ status[r] \in Active \union {"ready"} /\ Goto(p, "workflow")
           \/ status[r] = "failed" /\ Goto(p, "startWrite")
           \/ status[r] = "absent" /\ Free(r) /\ Goto(p, "startWrite")
           \/ status[r] = "absent" /\ ~Free(r) /\ Goto(p, "idle")
        /\ UNCHANGED <<store, job, calm>>

\* start_or_resume writes.  The unique index refuses a second active run, the
\* primary key a second row for the run.
StartWrite(p) ==
    LET r == job[p]
        accepted == Free(r) /\ (seen[p] = "absent" => status[r] = "absent")
    IN  /\ pc[p] = "startWrite"
        /\ \/ /\ accepted
              /\ status' = [status EXCEPT ![r] = "processing"]
              /\ shown' = [shown EXCEPT ![Doc(r)] = "processing"]
              /\ Goto(p, "workflow")
           \/ /\ ~accepted
              /\ Goto(p, "idle")
              /\ UNCHANGED <<status, shown>>
        /\ UNCHANGED <<active, job, seen, calm>>

\* The workflow reports an indexed document, reports that it is not, or raises.
Workflow(p) ==
    \/ Move(p, "workflow", "tag")
    \/ Move(p, "workflow", "fail")

\* sync_pending and pending_count: every event synchronised, some left over, a
\* failed one, or an exception.
Sync(p) ==
    \/ Move(p, "sync", "ready")
    \/ ~calm /\ Move(p, "sync", "idle")
    \/ Move(p, "sync", "failSync")
    \/ Move(p, "sync", "fail")

-----------------------------------------------------------------------------
(* mark_tagged_pending_vector_sync, mark_ready and mark_failed             *)

Marks == {"tag", "ready", "failSync", "fail"}
Target(m) == CASE m = "tag" -> "tagged"
               [] m = "ready" -> "ready"
               [] OTHER -> "failed"
WriteOf(m) == CASE m = "tag" -> "tagWrite"
                [] m = "ready" -> "readyWrite"
                [] m = "failSync" -> "failSyncWrite"
                [] OTHER -> "failWrite"

\* Where the call goes on once m is done.
After(m) == CASE m = "tag" -> "sync"
              [] m = "ready" -> "done"
              [] OTHER -> "idle"

\* Fault: an exception of mark_ready is swallowed.
RaisedSwallowed(m) == CASE m = "ready" -> "done"
                        [] m = "failSync" -> "fail"
                        [] OTHER -> "idle"

\* Where an exception of m takes the call: inside the vector_sync block it is
\* answered by mark_failed, elsewhere it ends the call.
Raised(m) == IF m \in {"ready", "failSync"} THEN "fail" ELSE "idle"

\* _transition reads the run and decides.
MarkRead(p, m) ==
    LET s == status[job[p]]
    IN  /\ pc[p] = m
        /\ seen' = [seen EXCEPT ![p] = s]
        /\ \/ s = Target(m) /\ Goto(p, After(m))
           \/ s # Target(m) /\ Allowed(s, Target(m)) /\ Goto(p, WriteOf(m))
           \/ s # Target(m) /\ ~Allowed(s, Target(m)) /\ Goto(p, Raised(m))
        /\ UNCHANGED <<store, job, calm>>

\* _transition writes, whatever the run's status has become by now; only an
\* active status has to pass the unique index.
MarkWrite(p, m) ==
    LET r == job[p]
        t == Target(m)
        accepted == t \in Active => Free(r)
    IN  /\ pc[p] = WriteOf(m)
        /\ \/ /\ accepted
              /\ status' = [status EXCEPT ![r] = t]
              /\ shown' = [shown EXCEPT ![Doc(r)] = t]
              /\ active' = IF t = "ready"
                              THEN [active EXCEPT ![Doc(r)] = Version(r)] ELSE active
              /\ Goto(p, After(m))
           \/ /\ ~accepted
              /\ Goto(p, Raised(m))
              /\ UNCHANGED store
        /\ UNCHANGED <<job, seen, calm>>

\* The store refuses a transaction ("database is locked", disk errors).
StoreError(p) ==
    /\ ~calm
    /\ \/ \E from \in {"start", "startWrite"} : Move(p, from, "idle")
       \/ \E m \in Marks : \E from \in {m, WriteOf(m)} : Move(p, from, Raised(m))

\* The caller has its report of an indexed document.
Return(p) == Move(p, "done", "idle")

\* The process is killed or the call cancelled: no handler runs.
Crash(p) ==
    /\ CanCrash /\ ~calm
    /\ pc[p] # "idle"
    /\ Goto(p, "idle")
    /\ UNCHANGED <<store, job, seen, calm>>

\* From now on: no store errors, no crashes, no events left over.
CalmDown ==
    /\ ~calm
    /\ calm' = TRUE
    /\ UNCHANGED <<store, pc, job, seen>>

Step(p) ==
    \/ StartRead(p) \/ StartWrite(p)
    \/ Workflow(p) \/ Sync(p)
    \/ \E m \in Marks : MarkRead(p, m) \/ MarkWrite(p, m)
    \/ Return(p)

Next ==
    \/ \E p \in Processes :
        \/ \E r \in Runs : Begin(p, r)
        \/ Step(p)
        \/ StoreError(p)
        \/ Crash(p)
    \/ CalmDown

Spec == Init /\ [][Next]_vars

\* Calls run on, callers come back with every run, and the faults stop some day.
Fairness ==
    /\ WF_vars(CalmDown)
    /\ \A p \in Processes :
        /\ WF_vars(Step(p))
        /\ \A r \in Runs : SF_vars(Begin(p, r))

FairSpec == Spec /\ Fairness

-----------------------------------------------------------------------------
(* Properties.                                                             *)

Statuses == {"absent", "processing", "tagged", "ready", "failed"}
Labels == {"idle", "start", "startWrite", "workflow", "sync", "done"}
              \union Marks \union {WriteOf(m) : m \in Marks}

\* Every variable has its type; a call that is under way has a run.
TypeOK ==
    /\ status \in [Runs -> Statuses]
    /\ shown \in [Docs -> Statuses]
    /\ active \in [Docs -> Versions \union {None}]
    /\ pc \in [Processes -> Labels]
    /\ job \in [Processes -> Runs \union {<<>>}]
    /\ seen \in [Processes -> Statuses]
    /\ calm \in BOOLEAN
    /\ \A p \in Processes : pc[p] # "idle" => job[p] \in Runs

\* A document has at most one active run, though every call decides on a read
\* that may be out of date when it writes.
OneActiveRun ==
    \A r, o \in Runs : Doc(r) = Doc(o) /\ IsActive(r) /\ IsActive(o) => r = o

\* A document shows the state of its active run, and an active state only as
\* long as it has one.
ActiveIsShown ==
    \A r \in Runs :
        /\ IsActive(r) => shown[Doc(r)] = status[r]
        /\ shown[Doc(r)] \in Active =>
             \E o \in Runs : Doc(o) = Doc(r) /\ status[o] = shown[Doc(r)]

\* A document has one active run, and shares its state ("Lifecycle states shared by a
\* document and its active ingestion run.", ingestion/state.py).
ShownIsCurrent == OneActiveRun /\ ActiveIsShown

\* A call that reports an indexed document has made its run ready.
ReportedIsReady ==
    \A p \in Processes : pc[p] = "done" => status[job[p]] = "ready"

\* A ready run stays ready ("IngestionStatus.READY: set()", ingestion/state.py).
ReadyIsFinal ==
    [][\A r \in Runs : status[r] = "ready" => status'[r] = "ready"]_vars

\* No run stays active forever: one whose process died is picked up again.
RunsEnd == \A r \in Runs : IsActive(r) ~> ~IsActive(r)

-----------------------------------------------------------------------------
(* What the lifecycle promises to readers of a document's active version.  *)

Published == [d \in Docs |-> {v \in Versions : status[<<d, v>>] = "ready"}]

Publication == INSTANCE Publication WITH
    current <- active,
    published <- Published

\* The lifecycle publishes versions one at a time, each at most once, and the
\* active version is always the one published last.
ImplementsPublication == Publication!Spec
=============================================================================
