-------------------------- MODULE IngestionProofs --------------------------
(***************************************************************************)
(* Theorems about the checkpointed ingestion of a document, for any        *)
(* versions, any number of chunks, any results, processes and limit.       *)
(* Apart from types they assume ~Returns: no version is handed in again    *)
(* after a newer one.                                                      *)
(***************************************************************************)
EXTENDS Ingestion, TLAPS

\* The theorems about the outbox hold of the synchroniser inside a call.
SyncProofs == INSTANCE VectorSyncProofs WITH
    Runs <- Versions, Records <- Chunks, Values <- Results \union {"empty"},
    Workers <- Processes, Overlap <- TRUE, pc <- spc

\* A chunk is a version and a position.
LEMMA ChunkIs ==
    ASSUME NEW c \in Chunks
    PROVE  /\ Version(c) \in Versions /\ c[2] \in Positions
           /\ c = <<Version(c), c[2]>>
           /\ c \in ChunksOf(Version(c))
  BY DEF Chunks, ChunksOf, Version

LEMMA ChunksOfIs ==
    ASSUME NEW v \in Versions
    PROVE  /\ ChunksOf(v) \subseteq Chunks
           /\ \A c \in ChunksOf(v) : Version(c) = v
           /\ \A c \in Chunks : Version(c) = v => c \in ChunksOf(v)
           /\ \A n \in Positions : <<v, n>> \in ChunksOf(v)
  BY DEF Chunks, ChunksOf, Version

LEMMA UpsertIs ==
    ASSUME NEW v \in Versions, NEW c \in ChunksOf(v), NEW r \in Results
    PROVE  /\ Upsert(v, c, r) \in Events
           /\ Upsert(v, c, r).run = v /\ Upsert(v, c, r).record = c
           /\ Upsert(v, c, r).op = "upsert" /\ Upsert(v, c, r).value = r
  BY ChunksOfIs DEF Events, Upsert

LEMMA DeleteIs ==
    ASSUME NEW v \in Versions, NEW c \in Chunks
    PROVE  /\ Delete(v, c) \in Events
           /\ Delete(v, c).run = v /\ Delete(v, c).record = c
           /\ Delete(v, c).op = "delete" /\ Delete(v, c).value = "empty"
  BY DEF Events, Delete

\* Versions are numbers, and no version is None.
LEMMA Numbered ==
    ASSUME NEW v \in Versions, NEW w \in Versions
    PROVE  /\ v \in Nat /\ w \in Nat /\ v # None
           /\ v > w \/ w > v \/ v = w
           /\ v <= v /\ ~(v > v) /\ ~(v < v)
  BY VersionsAssumption, NoneAssumption

\* An event writes a chunk of its own run's version, or deletes one.
LEMMA EventIs ==
    ASSUME NEW e \in Events
    PROVE  /\ e.run \in Versions /\ e.record \in Chunks
           /\ Version(e.record) \in Versions
           /\ e.op \in {"upsert", "delete"}
           /\ e.value \in Results \union {"empty"}
           /\ e = [run |-> e.run, record |-> e.record, op |-> e.op, value |-> e.value]
           /\ e.op = "upsert" =>
                /\ e.run = Version(e.record)
                /\ Sync!Effect(e) \in Results
           /\ e.op = "delete" =>
                /\ e = Delete(e.run, e.record)
                /\ Sync!Effect(e) = None
  <1>1. CASE \E c \in Chunks, r \in Results : e = Upsert(Version(c), c, r)
    <2>1. PICK c \in Chunks, r \in Results : e = Upsert(Version(c), c, r)
      BY <1>1
    <2> QED
      BY <2>1, ChunkIs DEF Upsert, Sync!Effect
  <1>2. CASE \E v \in Versions, c \in Chunks : e = Delete(v, c)
    <2>1. PICK v \in Versions, c \in Chunks : e = Delete(v, c)
      BY <1>2
    <2> QED
      BY <2>1, ChunkIs DEF Delete, Sync!Effect
  <1> QED
    BY <1>1, <1>2 DEF Events

\* The synchroniser is given events that it may be given.
LEMMA EventsTyped ==
    Events \subseteq [run : Versions, record : Chunks, op : SyncProofs!Operations,
                      value : Results \union {"empty"}]
  BY EventIs DEF SyncProofs!Operations

-----------------------------------------------------------------------------
(* Types.                                                                  *)

StoresTyped ==
    /\ status \in [Versions -> {"absent", "processing", "tagged", "ready", "failed"}]
    /\ active \in Versions \union {None}
    /\ cached \in [Chunks -> Results \union {None}]
    /\ rows \in [Chunks -> Results \union {None}]

FieldsTyped ==
    /\ pc \in [Processes -> Labels]
    /\ job \in [Processes -> Versions \union {None}]
    /\ previous \in [Processes -> SUBSET Versions]
    /\ at \in [Processes -> Positions]
    /\ got \in [Processes -> [Positions -> Results \union {None}]]
    /\ claimed \in [Processes -> BOOLEAN]
    /\ stale \in [Processes -> SUBSET Chunks]

\* A call has a version unless it is idle, and its synchroniser is at work on
\* that version's run exactly while the call waits for it.
Paired ==
    \A p \in Processes :
        /\ (job[p] = None) <=> (pc[p] = "idle")
        /\ (spc[p] # "idle") <=> (pc[p] \in {"draining", "syncing"})
        /\ scope[p] = IF spc[p] = "idle" THEN None ELSE job[p]

\* The types, with what the synchroniser's own types need to be inductive.
Typed == StoresTyped /\ FieldsTyped /\ Paired /\ SyncProofs!Typed

LEMMA TypedIsTypeOK == Typed => TypeOK
  <1>1. SyncProofs!TypeOK => Sync!TypeOK
    BY DEF SyncProofs!TypeOK, Sync!TypeOK, SyncProofs!Labels, Sync!Labels,
           SyncProofs!Of, Sync!Of, SyncProofs!Nothing, Sync!Nothing
  <1> QED
    BY <1>1 DEF Typed, StoresTyped, FieldsTyped, Paired, TypeOK, SyncProofs!Typed

\* A step of the synchroniser keeps its types.
LEMMA SyncStepTyped ==
    ASSUME SyncProofs!Typed, SyncProofs!Next
    PROVE  SyncProofs!Typed'
  <1>1. SyncProofs!Typed /\ [SyncProofs!Next]_(SyncProofs!vars) => SyncProofs!Typed'
    BY SyncProofs!StepTyped, EventsTyped, LimitAssumption, NoneAssumption
  <1> QED
    BY <1>1

\* So does a transaction that commits events while no synchroniser moves.
LEMMA EnqueueTyped ==
    ASSUME SyncProofs!Typed, NEW E, Sync!Enqueue(E), UNCHANGED <<chroma, index, sync, calm>>
    PROVE  SyncProofs!Typed'
  <1>1. outbox' \in [Events -> {"none", "pending", "failed", "succeeded"}]
    BY DEF SyncProofs!Typed, SyncProofs!TypeOK, Sync!Enqueue
  <1> QED
    BY <1>1 DEF SyncProofs!Typed, SyncProofs!TypeOK, SyncProofs!ListedOK, sync,
                SyncProofs!Of, SyncProofs!Handling

LEMMA SyncUnchangedTyped ==
    ASSUME SyncProofs!Typed, UNCHANGED <<stores, sync, calm>>
    PROVE  SyncProofs!Typed'
  BY DEF SyncProofs!Typed, SyncProofs!TypeOK, SyncProofs!ListedOK, sync, stores,
         SyncProofs!Of, SyncProofs!Handling

\* To enter the synchroniser is to commit no events.
LEMMA EnterTyped ==
    ASSUME Typed, NEW p \in Processes, NEW m \in {"checkpoint", "final"},
           pc[p] \in {"checkpoint", "final"}, Enter(p, m)
    PROVE  SyncProofs!Typed'
  <1>1. job[p] \in Versions /\ spc[p] = "idle"
    BY DEF Typed, FieldsTyped, Paired
  <1>2. SyncProofs!Enqueue({})
    BY DEF Typed, SyncProofs!Typed, SyncProofs!TypeOK, SyncProofs!Enqueue, Enter, stores
  <1>3. SyncProofs!Commit(p, job[p], {}, m)
    BY <1>1, <1>2 DEF SyncProofs!Commit, SyncProofs!Goto, SyncProofs!sweep, Enter, stores
  <1>4. SyncProofs!Next
    BY <1>1, <1>3 DEF SyncProofs!Next
  <1> QED
    BY <1>4, SyncStepTyped DEF Typed

\* A synchroniser lists events of its run.
LEMMA ListIs ==
    ASSUME NEW p \in Processes, Sync!List(p)
    PROVE  /\ spc[p] = "list"
           /\ \E S \in SUBSET Sync!Retryable(scope[p]) : todo' = [todo EXCEPT ![p] = S]
           /\ tally' = [tally EXCEPT ![p] = {}]
           /\ spc' = [spc EXCEPT ![p] = "apply"]
           /\ UNCHANGED <<outbox, chroma, index, scope, mode, event, calm>>
  BY DEF Sync!List, Sync!Goto, Sync!stores, Sync!task

LEMMA ListTyped ==
    ASSUME SyncProofs!Typed, NEW p \in Processes, Sync!List(p)
    PROVE  SyncProofs!Typed'
  <1>1. PICK S \in SUBSET Sync!Retryable(scope[p]) : todo' = [todo EXCEPT ![p] = S]
    BY ListIs
  <1>2. S \subseteq SyncProofs!Of(scope[p])
    BY DEF Sync!Retryable, Sync!Of, SyncProofs!Of
  <1> QED
    BY <1>1, <1>2, ListIs
    DEF SyncProofs!Typed, SyncProofs!TypeOK, SyncProofs!ListedOK, SyncProofs!Of,
        SyncProofs!Handling, SyncProofs!Labels

\* Its other steps, its return and its death are steps of VectorSync.
LEMMA ApplyIsStep ==
    ASSUME Typed, NEW p \in Processes, NEW e \in todo[p],
           Sync!Apply(p, e) \/ Sync!ApplyFails(p, e)
    PROVE  SyncProofs!Next
  <1>1. e \in Events
    BY DEF Typed, SyncProofs!Typed, SyncProofs!TypeOK
  <1>2. SyncProofs!Apply(p, e) \/ SyncProofs!ApplyFails(p, e)
    BY DEF Sync!Apply, SyncProofs!Apply, Sync!ApplyFails, SyncProofs!ApplyFails,
           Sync!Take, SyncProofs!Take, Sync!Goto, SyncProofs!Goto, Sync!Effect,
           SyncProofs!Effect, Sync!task, SyncProofs!task
  <1> QED
    BY <1>1, <1>2 DEF SyncProofs!Next, SyncProofs!Step

LEMMA OwnSteps ==
    ASSUME NEW p \in Processes,
           \/ Sync!Return(p) \/ Sync!Crash(p) \/ Sync!Raise(p)
           \/ Sync!Record(p) \/ Sync!RecordFails(p) \/ Sync!Count(p)
           \/ Sync!MarkSucceeded(p) \/ Sync!MarkFailed(p)
    PROVE  SyncProofs!Next
  <1>1. /\ Sync!Return(p) => SyncProofs!Return(p)
        /\ Sync!Crash(p) => SyncProofs!Crash(p)
        /\ Sync!Raise(p) => SyncProofs!Raise(p)
    BY DEF Sync!Return, SyncProofs!Return, Sync!Crash, SyncProofs!Crash, Sync!Raise,
           SyncProofs!Raise, Sync!Leave,
           SyncProofs!Leave, Sync!Goto, SyncProofs!Goto, Sync!Nothing, SyncProofs!Nothing,
           Sync!stores, SyncProofs!stores, Sync!task, SyncProofs!task,
           Sync!sweep, SyncProofs!sweep
  <1>2. Sync!Count(p) => SyncProofs!Count(p)
    <2>1. Sync!Judge(p) = SyncProofs!Judge(p)
      BY DEF Sync!Judge, SyncProofs!Judge, Sync!Retryable, SyncProofs!Retryable,
             Sync!Of, SyncProofs!Of
    <2> QED
      BY <2>1 DEF Sync!Count, SyncProofs!Count, Sync!Goto, SyncProofs!Goto,
             Sync!stores, SyncProofs!stores, Sync!task, SyncProofs!task,
             Sync!sweep, SyncProofs!sweep
  <1>3. /\ Sync!Record(p) => SyncProofs!Record(p)
        /\ Sync!RecordFails(p) => SyncProofs!RecordFails(p)
        /\ Sync!MarkSucceeded(p) => SyncProofs!MarkSucceeded(p)
        /\ Sync!MarkFailed(p) => SyncProofs!MarkFailed(p)
    BY DEF Sync!Record, SyncProofs!Record, Sync!RecordFails, SyncProofs!RecordFails,
           Sync!MarkSucceeded, SyncProofs!MarkSucceeded, Sync!MarkFailed,
           SyncProofs!MarkFailed, Sync!Mark, SyncProofs!Mark, Sync!Goto, SyncProofs!Goto,
           Sync!Effect, SyncProofs!Effect, Sync!Nothing, SyncProofs!Nothing,
           Sync!stores, SyncProofs!stores, Sync!task, SyncProofs!task,
           Sync!sweep, SyncProofs!sweep
  <1> QED
    BY <1>1, <1>2, <1>3 DEF SyncProofs!Next, SyncProofs!Step

\* Whatever a step of the ingestion does with the synchroniser, its types hold.
LEMMA SyncTyped ==
    ASSUME Typed, Next
    PROVE  SyncProofs!Typed'
  <1>1. SyncProofs!Typed
    BY DEF Typed
  <1>2. ASSUME NEW p \in Processes, Synchronise(p) \/ SyncFails(p)
        PROVE  SyncProofs!Typed'
    BY <1>1, <1>2, ListTyped, ApplyIsStep, OwnSteps, SyncStepTyped
    DEF Synchronise, SyncFails
  <1>3. ASSUME NEW p \in Processes, Drained(p) \/ NotDrained(p) \/ Synced(p)
        PROVE  SyncProofs!Typed'
    BY <1>1, <1>3, OwnSteps, SyncStepTyped DEF Drained, NotDrained, Synced
  <1>4. ASSUME NEW p \in Processes, Crash(p)
        PROVE  SyncProofs!Typed'
    BY <1>1, <1>4, OwnSteps, SyncStepTyped, SyncUnchangedTyped DEF Crash
  <1>5. CASE CalmDown
    <2>1. SyncProofs!CalmDown
      BY <1>5 DEF CalmDown, Sync!CalmDown, SyncProofs!CalmDown, Sync!stores,
                  SyncProofs!stores, Sync!task, SyncProofs!task, Sync!sweep, SyncProofs!sweep
    <2>2. SyncProofs!Next
      BY <2>1 DEF SyncProofs!Next
    <2> QED
      BY <1>1, <2>2, SyncStepTyped
  <1>6. ASSUME NEW p \in Processes, Commit(p)
        PROVE  SyncProofs!Typed'
    BY <1>1, <1>6, EnqueueTyped DEF Commit
  <1>7. ASSUME NEW p \in Processes, Document(p)
        PROVE  SyncProofs!Typed'
    BY <1>1, <1>7, EnqueueTyped DEF Document
  <1>8. ASSUME NEW p \in Processes, Checkpoint(p)
        PROVE  SyncProofs!Typed'
    BY <1>8, EnterTyped DEF Checkpoint
  <1>9. ASSUME NEW p \in Processes, Final(p)
        PROVE  SyncProofs!Typed'
    BY <1>9, EnterTyped DEF Final
  <1>10. ASSUME NEW p \in Processes, NEW v \in Versions, Begin(p, v)
         PROVE  SyncProofs!Typed'
    BY <1>1, <1>10, SyncUnchangedTyped DEF Begin
  <1>11. ASSUME NEW c \in Chunks, NEW r \in Results, Foreign(c, r)
         PROVE  SyncProofs!Typed'
    BY <1>1, <1>11, SyncUnchangedTyped DEF Foreign
  <1>12. ASSUME NEW p \in Processes,
                \/ Start(p) \/ Prepare(p) \/ Complete(p) \/ Plan(p) \/ DocumentRefused(p)
                \/ MarkTagged(p) \/ MarkReady(p) \/ MarkFailed(p) \/ Return(p)
                \/ Skip(p) \/ Raise(p)
         PROVE  SyncProofs!Typed'
    BY <1>1, <1>12, SyncUnchangedTyped
    DEF Start, Prepare, Complete, Plan, DocumentRefused, MarkTagged, MarkReady,
        MarkFailed, Return, Skip, Raise
  <1> QED
    BY <1>2, <1>3, <1>4, <1>5, <1>6, <1>7, <1>8, <1>9, <1>10, <1>11, <1>12
    DEF Next, Step

\* Leaving resets all that a call knows.
LEMMA LeaveIs ==
    ASSUME Typed, NEW p \in Processes, Leave(p)
    PROVE  /\ FieldsTyped'
           /\ pc'[p] = "idle" /\ job'[p] = None /\ previous'[p] = {} /\ at'[p] = 1
           /\ stale'[p] = {}
           /\ \A q \in Processes \ {p} :
                /\ pc'[q] = pc[q] /\ job'[q] = job[q] /\ previous'[q] = previous[q]
                /\ at'[q] = at[q] /\ got'[q] = got[q] /\ claimed'[q] = claimed[q]
                /\ stale'[q] = stale[q]
  <1>1. 1 \in Positions /\ Blank \in [Positions -> Results \union {None}]
    BY SizeAssumption DEF Positions, Blank
  <1> QED
    BY <1>1 DEF Typed, FieldsTyped, Leave, Goto, Labels

\* Going to another place leaves everything else about the calls as it is.
LEMMA GotoIs ==
    ASSUME Typed, NEW p \in Processes, NEW label \in Labels \ {"idle"},
           Goto(p, label), UNCHANGED call
    PROVE  /\ FieldsTyped'
           /\ pc'[p] = label
           /\ \A q \in Processes \ {p} : pc'[q] = pc[q]
  BY DEF Typed, FieldsTyped, Goto, call

\* What the synchroniser's steps do to its variables.
LEMMA ReturnIs ==
    ASSUME Typed, NEW p \in Processes, Sync!Return(p) \/ Sync!Crash(p)
    PROVE  /\ spc[p] # "idle" /\ spc'[p] = "idle" /\ scope'[p] = None /\ todo'[p] = {}
           /\ \A q \in Processes \ {p} :
                /\ spc'[q] = spc[q] /\ scope'[q] = scope[q] /\ todo'[q] = todo[q]
                /\ event'[q] = event[q]
           /\ UNCHANGED <<stores, calm>>
  BY DEF Typed, SyncProofs!Typed, SyncProofs!TypeOK, Sync!Return, Sync!Crash,
         Sync!Leave, Sync!Goto, Sync!stores, stores

\* A step of p's synchroniser that goes on with its work.
Busy(p) == Synchronise(p) \/ SyncFails(p)

LEMMA BusyIs ==
    ASSUME Typed, NEW p \in Processes, Busy(p)
    PROVE  /\ spc[p] # "idle" /\ spc'[p] # "idle"
           /\ \A q \in Processes \ {p} :
                spc'[q] = spc[q] /\ todo'[q] = todo[q] /\ event'[q] = event[q]
           /\ UNCHANGED <<lifecycle, relational, pc, call, scope, calm>>
  <1> USE DEF Typed, SyncProofs!Typed, SyncProofs!TypeOK
  <1>1. UNCHANGED <<lifecycle, relational, pc, call>>
    BY DEF Busy, Synchronise, SyncFails
  <1>2. CASE Sync!List(p)
    BY <1>1, <1>2, ListIs
  <1>3. ASSUME NEW e \in todo[p], Sync!Apply(p, e) \/ Sync!ApplyFails(p, e)
        PROVE  /\ spc[p] # "idle" /\ spc'[p] # "idle"
               /\ \A q \in Processes \ {p} :
                    spc'[q] = spc[q] /\ todo'[q] = todo[q] /\ event'[q] = event[q]
               /\ UNCHANGED <<scope, calm>>
    BY <1>3 DEF Sync!Apply, Sync!ApplyFails, Sync!Take, Sync!Goto, Sync!task
  <1>4. CASE Sync!Record(p) \/ Sync!RecordFails(p) \/ Sync!MarkSucceeded(p) \/ Sync!MarkFailed(p)
    BY <1>1, <1>4 DEF Sync!Record, Sync!RecordFails, Sync!MarkSucceeded, Sync!MarkFailed,
                 Sync!Mark, Sync!Goto, Sync!task, Sync!sweep
  <1>5. CASE Sync!Count(p) \/ Sync!Raise(p)
    <2>1. Sync!Judge(p) # "idle"
      BY DEF Sync!Judge
    <2> QED
      BY <1>1, <1>5, <2>1 DEF Sync!Count, Sync!Raise, Sync!Goto, Sync!task, Sync!sweep
  <1> QED
    BY <1>1, <1>2, <1>3, <1>4, <1>5 DEF Busy, Synchronise, SyncFails

\* At first nobody has anything to do, and nothing is known of any version.
LEMMA InitTyped == Init => Typed
  <1> SUFFICES ASSUME Init PROVE Typed
    OBVIOUS
  <1>1. StoresTyped
    BY DEF Init, StoresTyped
  <1>2. FieldsTyped
    <2>1. 1 \in Positions /\ Blank \in [Positions -> Results \union {None}]
      BY SizeAssumption DEF Positions, Blank
    <2> QED
      BY <2>1 DEF Init, FieldsTyped, Labels
  <1>3. SyncProofs!Init
    BY DEF Init, Sync!Init, SyncProofs!Init, Sync!Nothing, SyncProofs!Nothing
  <1>4. SyncProofs!Typed
    BY <1>3, SyncProofs!InitTyped, EventsTyped, LimitAssumption, NoneAssumption
  <1>5. Paired
    BY <1>3, NoneAssumption DEF Init, SyncProofs!Init, Paired
  <1> QED
    BY <1>1, <1>2, <1>4, <1>5 DEF Typed

\* A call at work has a version, and is at one of its chunks.
LEMMA AtWork ==
    ASSUME Typed, NEW p \in Processes, pc[p] # "idle"
    PROVE  /\ job[p] \in Versions /\ job[p] # None
           /\ at[p] \in Positions
           /\ Chunk(p) = <<job[p], at[p]>>
           /\ Chunk(p) \in ChunksOf(job[p]) /\ Chunk(p) \in Chunks
           /\ Version(Chunk(p)) = job[p]
  BY ChunksOfIs DEF Typed, FieldsTyped, Paired, Chunk

LEMMA StoresStep ==
    ASSUME Typed, Next
    PROVE  StoresTyped'
  <1> USE DEF Typed, StoresTyped
  <1>1. ASSUME NEW p \in Processes, Start(p) \/ MarkTagged(p) \/ MarkFailed(p)
        PROVE  StoresTyped'
    BY <1>1 DEF Start, MarkTagged, MarkFailed, relational
  <1>2. ASSUME NEW p \in Processes, MarkReady(p)
        PROVE  StoresTyped'
    BY <1>2, AtWork DEF MarkReady, relational
  <1>3. ASSUME NEW p \in Processes, Commit(p)
        PROVE  StoresTyped'
    <2>1. got[p][at[p]] \in Results \union {None}
      BY DEF FieldsTyped
    <2> QED
      BY <1>3, <2>1 DEF Commit, lifecycle
  <1>4. ASSUME NEW p \in Processes, Complete(p)
        PROVE  StoresTyped'
    <2>1. got[p][at[p]] \in Results \union {None}
      BY DEF FieldsTyped
    <2> QED
      BY <1>4, <2>1 DEF Complete, lifecycle
  <1>5. ASSUME NEW p \in Processes, Document(p)
        PROVE  StoresTyped'
    <2>1. \A c \in Chunks : got[p][c[2]] \in Results \union {None}
      BY ChunkIs DEF FieldsTyped
    <2> QED
      BY <1>5, <2>1 DEF Document, Committed, lifecycle
  <1>6. ASSUME NEW c \in Chunks, NEW r \in Results, Foreign(c, r)
        PROVE  StoresTyped'
    BY <1>6 DEF Foreign, lifecycle
  <1>7. CASE CalmDown
    BY <1>7 DEF CalmDown, lifecycle, relational
  <1>8. ASSUME NEW p \in Processes, NEW v \in Versions, Begin(p, v)
        PROVE  StoresTyped'
    BY <1>8 DEF Begin, lifecycle, relational
  <1>9. ASSUME NEW p \in Processes, Busy(p)
        PROVE  StoresTyped'
    BY <1>9, BusyIs DEF lifecycle, relational
  <1>10. ASSUME NEW p \in Processes,
                \/ Prepare(p) \/ Checkpoint(p) \/ Drained(p) \/ NotDrained(p) \/ Plan(p)
                \/ DocumentRefused(p) \/ Final(p) \/ Synced(p) \/ Return(p) \/ Skip(p)
                \/ Raise(p) \/ Crash(p)
         PROVE  StoresTyped'
    BY <1>10 DEF Prepare, Checkpoint, Drained, NotDrained, Plan, DocumentRefused, Final,
                 Synced, Return, Skip, Raise, Crash, Enter, lifecycle, relational
  <1> QED
    BY <1>1, <1>2, <1>3, <1>4, <1>5, <1>6, <1>7, <1>8, <1>9, <1>10 DEF Next, Step, Busy

\* The calls: those that only go to another place, those that leave, and the rest.
LEMMA FieldsStep ==
    ASSUME Typed, Next
    PROVE  FieldsTyped' /\ Paired'
  <1> DEFINE Good == FieldsTyped' /\ Paired'
  <1>1. ASSUME NEW p \in Processes, Leave(p), UNCHANGED sync
        PROVE  spc[p] = "idle" => Good
    BY <1>1, LeaveIs DEF Typed, Paired, sync
  <1>2. ASSUME NEW p \in Processes, Leave(p), Sync!Return(p) \/ Sync!Crash(p)
        PROVE  Good
    BY <1>2, LeaveIs, ReturnIs DEF Typed, Paired
  <1>3. ASSUME NEW p \in Processes,
               NEW label \in Labels \ {"idle", "draining", "syncing"},
               Goto(p, label), UNCHANGED call, pc[p] # "idle",
               \/ UNCHANGED sync /\ spc[p] = "idle"
               \/ Sync!Return(p)
        PROVE  Good
    BY <1>3, GotoIs, ReturnIs DEF Typed, Paired, call, sync
  <1> HIDE DEF Good
  <1>4. ASSUME NEW p \in Processes, NEW v \in Versions, Begin(p, v)
        PROVE  Good
    BY <1>4, NoneAssumption DEF Good, Typed, FieldsTyped, Paired, StoresTyped, Begin, Goto, Labels, sync
  <1>5. ASSUME NEW p \in Processes, Prepare(p) \/ Plan(p)
        PROVE  Good
    <2>1. FieldsTyped'
      <3>1. CASE Prepare(p)
        <4>1. PICK r \in Results \union {None} : got' = [got EXCEPT ![p][at[p]] = r]
          BY <3>1, AtWork DEF Prepare, Typed, StoresTyped
        <4> QED
          BY <3>1, <4>1 DEF Typed, FieldsTyped, Prepare, Goto, Labels
      <3>2. CASE Plan(p)
        BY <3>2 DEF Typed, FieldsTyped, Plan, Goto, Labels
      <3> QED
        BY <1>5, <3>1, <3>2
    <2>2. Paired'
      BY <1>5 DEF Typed, FieldsTyped, Paired, Prepare, Plan, Goto, sync
    <2> QED
      BY <2>1, <2>2 DEF Good
  <1>6. ASSUME NEW p \in Processes, Checkpoint(p) \/ Final(p)
        PROVE  Good
    <2>1. FieldsTyped'
      BY <1>6 DEF Typed, FieldsTyped, Checkpoint, Final, Enter, Goto, Labels, call
    <2>2. Paired'
      BY <1>6 DEF Typed, FieldsTyped, Paired, SyncProofs!Typed, SyncProofs!TypeOK,
                  Checkpoint, Final, Enter, Goto, call
    <2> QED
      BY <2>1, <2>2 DEF Good
  <1>7. ASSUME NEW p \in Processes, Drained(p)
        PROVE  Good
    <2>1. /\ FieldsTyped'
          /\ \A q \in Processes : job'[q] = job[q] /\ (q # p => pc'[q] = pc[q])
          /\ pc'[p] \in {"prepare", "plan"} /\ pc[p] = "draining"
      <3>1. CASE at[p] < Size
        BY <1>7, <3>1, SizeAssumption DEF Typed, FieldsTyped, Drained, Goto, Labels, Positions
      <3>2. CASE ~(at[p] < Size)
        BY <1>7, <3>2 DEF Typed, FieldsTyped, Drained, Goto, Labels
      <3> QED
        BY <3>1, <3>2
    <2>2. Paired'
      BY <1>7, <2>1, ReturnIs DEF Typed, Paired, Drained
    <2> QED
      BY <2>1, <2>2 DEF Good
  <1>8. ASSUME NEW p \in Processes, NotDrained(p) \/ Synced(p)
        PROVE  Good
    BY <1>2, <1>3, <1>8 DEF NotDrained, Synced, Resume, Labels
  <1>9. ASSUME NEW p \in Processes, Crash(p)
        PROVE  Good
    BY <1>1, <1>2, <1>9 DEF Good, Crash
  <1>10. ASSUME NEW p \in Processes, Busy(p)
         PROVE  Good
    BY <1>10, BusyIs DEF Good, Typed, FieldsTyped, Paired, call
  <1>11. ASSUME UNCHANGED pc, UNCHANGED call, UNCHANGED sync
         PROVE  Good
    BY <1>11 DEF Good, Typed, FieldsTyped, Paired, call, sync
  <1>12. ASSUME NEW p \in Processes,
                \/ Start(p) \/ Skip(p) \/ Commit(p) \/ Complete(p) \/ Document(p)
                \/ DocumentRefused(p) \/ MarkTagged(p) \/ MarkReady(p) \/ MarkFailed(p)
                \/ Return(p) \/ Raise(p)
         PROVE  Good
    <2>1. spc[p] = "idle" /\ pc[p] # "idle"
      BY <1>12 DEF Typed, Paired, Start, Skip, Commit, Complete, Document, DocumentRefused,
                   MarkTagged, MarkReady, MarkFailed, Return, Raise
    <2>2. UNCHANGED sync
      BY <1>12 DEF Start, Skip, Commit, Complete, Document, DocumentRefused,
                   MarkTagged, MarkReady, MarkFailed, Return, Raise
    <2>3. \/ Leave(p)
          \/ /\ \E label \in Labels \ {"idle", "draining", "syncing"} :
                    pc' = [pc EXCEPT ![p] = label]
             /\ UNCHANGED call
      BY <1>12 DEF Start, Skip, Commit, Complete, Document, DocumentRefused,
                   MarkTagged, MarkReady, MarkFailed, Return, Raise, Resume, Goto, Labels
    <2>4. CASE Leave(p)
      BY <1>1, <2>1, <2>2, <2>4
    <2>5. CASE ~Leave(p)
      <3>1. PICK label \in Labels \ {"idle", "draining", "syncing"} :
                pc' = [pc EXCEPT ![p] = label]
        BY <2>3, <2>5
      <3>2. Goto(p, label) /\ UNCHANGED call
        BY <2>3, <2>5, <3>1 DEF Goto
      <3> QED
        BY <1>3, <2>1, <2>2, <3>2
    <2> QED
      BY <2>4, <2>5
  <1>13. CASE CalmDown
    <2>1. UNCHANGED pc /\ UNCHANGED call
      BY <1>13 DEF CalmDown
    <2>2. UNCHANGED sync
      BY <1>13 DEF CalmDown, Sync!CalmDown, Sync!task, Sync!sweep, sync
    <2> QED
      BY <1>11, <2>1, <2>2 DEF Good
  <1>14. ASSUME NEW c \in Chunks, NEW r \in Results, Foreign(c, r)
         PROVE  Good
    BY <1>11, <1>14 DEF Foreign
  <1> QED
    BY <1>4, <1>5, <1>6, <1>7, <1>8, <1>9, <1>10, <1>12, <1>13, <1>14
    DEF Good, Next, Step, Busy

LEMMA StepTyped == Typed /\ [Next]_vars => Typed'
  <1> SUFFICES ASSUME Typed, [Next]_vars PROVE Typed'
    OBVIOUS
  <1>1. CASE Next
    BY <1>1, StoresStep, FieldsStep, SyncTyped DEF Typed
  <1>2. CASE UNCHANGED vars
    BY <1>2, SyncUnchangedTyped
    DEF Typed, StoresTyped, FieldsTyped, Paired, vars, lifecycle, relational, stores, sync, call
  <1> QED
    BY <1>1, <1>2

\* Every variable has its type, and a call's synchroniser is at work on the call's
\* own run exactly while the call waits for it.
THEOREM TypeCorrect == Spec => []TypeOK
  <1>1. Spec => []Typed
    BY InitTyped, StepTyped, PTL DEF Spec
  <1> QED
    BY <1>1, TypedIsTypeOK, PTL

-----------------------------------------------------------------------------
(* Calls do not touch each other.                                          *)

\* What a process does, its callers and its faults included.
Act(p) ==
    \/ \E v \in Versions : Begin(p, v)
    \/ Step(p) \/ Skip(p) \/ SyncFails(p) \/ Raise(p) \/ Crash(p)

\* Nothing changes about the call of q.
Same(q) ==
    /\ pc'[q] = pc[q] /\ job'[q] = job[q] /\ previous'[q] = previous[q]
    /\ at'[q] = at[q] /\ got'[q] = got[q] /\ claimed'[q] = claimed[q]
    /\ stale'[q] = stale[q]
    /\ spc'[q] = spc[q] /\ scope'[q] = scope[q] /\ todo'[q] = todo[q]
    /\ event'[q] = event[q]

LEMMA Alone ==
    ASSUME Typed, NEW p \in Processes, Act(p), NEW q \in Processes \ {p}
    PROVE  Same(q)
  <1>1. ASSUME Leave(p), UNCHANGED sync \/ Sync!Return(p) \/ Sync!Crash(p)
        PROVE  Same(q)
    BY <1>1, LeaveIs, ReturnIs DEF Same, sync
  <1>2. ASSUME NEW label \in Labels \ {"idle"}, Goto(p, label), UNCHANGED call,
               UNCHANGED sync \/ Sync!Return(p)
        PROVE  Same(q)
    BY <1>2, GotoIs, ReturnIs DEF Same, sync, call
  <1>3. ASSUME Prepare(p) \/ Plan(p)
        PROVE  Same(q)
    BY <1>3 DEF Typed, FieldsTyped, Same, Prepare, Plan, Goto, sync
  <1>4. ASSUME Checkpoint(p) \/ Final(p)
        PROVE  Same(q)
    BY <1>4 DEF Typed, FieldsTyped, SyncProofs!Typed, SyncProofs!TypeOK, Same,
                Checkpoint, Final, Enter, Goto, call
  <1>5. ASSUME Drained(p)
        PROVE  Same(q)
    BY <1>5, ReturnIs DEF Typed, FieldsTyped, Same, Drained, Goto
  <1>6. ASSUME NotDrained(p) \/ Synced(p)
        PROVE  Same(q)
    BY <1>1, <1>2, <1>6 DEF NotDrained, Synced, Resume, Labels
  <1>7. ASSUME Crash(p)
        PROVE  Same(q)
    BY <1>1, <1>7 DEF Crash
  <1>8. ASSUME Busy(p)
        PROVE  Same(q)
    BY <1>8, BusyIs DEF Same, call
  <1>9. ASSUME \/ Start(p) \/ Skip(p) \/ Commit(p) \/ Complete(p) \/ Document(p)
               \/ DocumentRefused(p) \/ MarkTagged(p) \/ MarkReady(p) \/ MarkFailed(p)
               \/ Return(p) \/ Raise(p)
        PROVE  Same(q)
    <2>1. UNCHANGED sync
      BY <1>9 DEF Start, Skip, Commit, Complete, Document, DocumentRefused,
                  MarkTagged, MarkReady, MarkFailed, Return, Raise
    <2>2. \/ Leave(p)
          \/ /\ \E label \in Labels \ {"idle"} : pc' = [pc EXCEPT ![p] = label]
             /\ UNCHANGED call
      BY <1>9 DEF Start, Skip, Commit, Complete, Document, DocumentRefused,
                  MarkTagged, MarkReady, MarkFailed, Return, Raise, Resume, Goto, Labels
    <2>3. CASE ~Leave(p)
      <3>1. PICK label \in Labels \ {"idle"} : pc' = [pc EXCEPT ![p] = label]
        BY <2>2, <2>3
      <3>2. Goto(p, label) /\ UNCHANGED call
        BY <2>2, <2>3, <3>1 DEF Goto
      <3> QED
        BY <1>2, <2>1, <3>2
    <2> QED
      BY <1>1, <2>1, <2>3
  <1>10. ASSUME NEW v \in Versions, Begin(p, v)
         PROVE  Same(q)
    BY <1>10 DEF Typed, FieldsTyped, Same, Begin, Goto, sync
  <1> QED
    BY <1>3, <1>4, <1>5, <1>6, <1>7, <1>8, <1>9, <1>10 DEF Act, Step, Busy

-----------------------------------------------------------------------------
(* The invariant: the order of the versions.                               *)

Late == {"final", "syncing", "ready"}

\* No version has two calls.
JobsApart == \A p, q \in Processes : job[p] # None /\ job[p] = job[q] => p = q

\* Nobody has got to anything newer than a version that is at work.
ActiveIsNewest ==
    \A v, w \in Versions : IsActive(v) /\ w > v => status[w] = "absent"

\* Nor than one that is about to start.
StartIsNewest ==
    \A p \in Processes : pc[p] = "start" =>
        /\ \A w \in Versions : w > job[p] => status[w] = "absent"
        /\ \A q \in Processes : pc[q] # "idle" => job[q] <= job[p]

\* A call at work is for a run that is active or ready; after MarkTagged it is
\* tagged, as nobody else has a call for it.
Running ==
    \A p \in Processes : pc[p] \notin {"idle", "start"} =>
        /\ status[job[p]] \in {"processing", "tagged", "ready"}
        /\ pc[p] \in Late => status[job[p]] = "tagged"

\* The published version is the newest that has become ready.
PublishedLast ==
    /\ active # None => status[active] = "ready"
    /\ \A v \in Versions : status[v] = "ready" => active # None /\ v <= active

\* The version published before, which a call may clean up, had become ready,
\* and a call for a version that is ready already has none to clean up.
Before ==
    \A p \in Processes : pc[p] # "idle" =>
        /\ \A w \in previous[p] : w < job[p] /\ status[w] = "ready"
        /\ pc[p] # "done" /\ status[job[p]] = "ready" => previous[p] = {}

Order == JobsApart /\ ActiveIsNewest /\ StartIsNewest /\ Running /\ PublishedLast /\ Before

\* p has gone on without another job, or has left.
Moves(p) ==
    \/ pc'[p] = "idle" /\ job'[p] = None
    \/ /\ job'[p] = job[p] /\ previous'[p] = previous[p]
       /\ \/ pc'[p] = pc[p]
          \/ /\ pc[p] \notin {"idle", "start"} /\ pc'[p] \notin {"idle", "start"}
             /\ pc'[p] \in Late => pc[p] \in Late
             /\ pc[p] # "done"

LEMMA MovesKeepOrder ==
    ASSUME Typed, Order, UNCHANGED lifecycle, \A p \in Processes : Moves(p)
    PROVE  Order'
  BY DEF Order, JobsApart, ActiveIsNewest, StartIsNewest, Running, PublishedLast, Before,
         Moves, IsActive, lifecycle, Typed, Paired

\* Every action but those of the lifecycle's progress is such a move.
LEMMA OwnMove ==
    ASSUME Typed, NEW p \in Processes,
           \/ Prepare(p) \/ Skip(p) \/ Commit(p) \/ Complete(p) \/ Checkpoint(p) \/ Drained(p)
           \/ NotDrained(p) \/ Plan(p) \/ Document(p) \/ DocumentRefused(p) \/ Final(p)
           \/ Synced(p) \/ MarkFailed(p) \/ Return(p) \/ Raise(p) \/ Crash(p) \/ Busy(p)
    PROVE  Moves(p)
  <1>1. ASSUME Leave(p)
        PROVE  Moves(p)
    BY <1>1, LeaveIs DEF Moves
  <1>2. ASSUME NEW label \in Labels \ {"idle", "start"}, Goto(p, label), UNCHANGED call,
               pc[p] \notin {"idle", "start", "done"}, label \in Late => pc[p] \in Late
        PROVE  Moves(p)
    BY <1>2, GotoIs DEF Moves, call
  <1>3. CASE Prepare(p) \/ Plan(p)
    BY <1>3 DEF Typed, FieldsTyped, Moves, Prepare, Plan, Goto, Late
  <1>4. CASE Drained(p)
    BY <1>4 DEF Typed, FieldsTyped, Moves, Drained, Goto, Late
  <1>5. CASE Skip(p) \/ Commit(p) \/ Complete(p) \/ Document(p) \/ DocumentRefused(p)
    BY <1>2, <1>5 DEF Skip, Commit, Complete, Document, DocumentRefused, Labels, Late
  <1>6. CASE Checkpoint(p) \/ Final(p)
    BY <1>2, <1>6 DEF Checkpoint, Final, Enter, Labels, Late
  <1>7. CASE NotDrained(p) \/ Synced(p)
    BY <1>1, <1>2, <1>7 DEF NotDrained, Synced, Resume, Labels, Late
  <1>8. CASE MarkFailed(p) \/ Return(p) \/ Crash(p)
    BY <1>1, <1>8 DEF MarkFailed, Return, Crash
  <1>9. CASE Raise(p)
    BY <1>1, <1>2, <1>9 DEF Raise, Resume, Labels, Late
  <1>10. CASE Busy(p)
    BY <1>10, BusyIs DEF Moves, call
  <1> QED
    BY <1>3, <1>4, <1>5, <1>6, <1>7, <1>8, <1>9, <1>10

LEMMA SameMoves ==
    ASSUME NEW q \in Processes, Same(q)
    PROVE  Moves(q)
  BY DEF Same, Moves

\* A newer version has been begun only when nobody is about to start.
LEMMA BeginOrder ==
    ASSUME Typed, Order, ~Returns, NEW p \in Processes, NEW v \in Versions, Begin(p, v)
    PROVE  Order'
  <1>1. /\ InOrder(v) /\ pc[p] = "idle" /\ \A q \in Processes : job[q] # v
        /\ pc'[p] = "start" /\ job'[p] = v /\ previous'[p] = {active} \ {None, v}
        /\ UNCHANGED lifecycle
    BY DEF Begin, Goto, Typed, FieldsTyped
  <1>2. \A q \in Processes \ {p} : pc'[q] = pc[q] /\ job'[q] = job[q] /\ previous'[q] = previous[q]
    BY Alone DEF Act, Same
  <1>3. v \in Nat /\ active \in Nat \union {None} /\ v # None
    BY VersionsAssumption, NoneAssumption DEF Typed, StoresTyped
  <1>4. JobsApart'
    BY <1>1, <1>2 DEF Order, JobsApart
  <1>5. ActiveIsNewest' /\ PublishedLast'
    BY <1>1 DEF Order, ActiveIsNewest, PublishedLast, IsActive, lifecycle
  <1>6. StartIsNewest'
    BY <1>1, <1>2, <1>3 DEF Order, StartIsNewest, InOrder, lifecycle
  <1>7. Running'
    BY <1>1, <1>2 DEF Order, Running, lifecycle, Late
  <1>8. Before'
    <2>1. ASSUME NEW w \in previous'[p]
          PROVE  w < v /\ status[w] = "ready"
      <3>1. w = active /\ active # None /\ w # v /\ w \in Versions
        BY <1>1, <2>1 DEF Typed, StoresTyped
      <3>2. status[w] = "ready" /\ ~(w > v)
        BY <1>1, <3>1 DEF Order, PublishedLast, InOrder
      <3> QED
        BY <1>3, <3>1, <3>2
    <2>2. ASSUME status[v] = "ready"
          PROVE  previous'[p] = {}
      <3>1. active # None /\ v <= active /\ active \in Versions /\ status[active] = "ready"
        BY <2>2 DEF Order, PublishedLast, Typed, StoresTyped
      <3>2. ~(active > v)
        BY <1>1, <3>1 DEF InOrder
      <3> QED
        BY <1>1, <1>3, <3>1, <3>2
    <2> QED
      BY <1>1, <1>2, <2>1, <2>2 DEF Order, Before, lifecycle
  <1> QED
    BY <1>4, <1>5, <1>6, <1>7, <1>8 DEF Order

\* A version starts when it is the newest and no other is active.
LEMMA StartOrder ==
    ASSUME Typed, Order, NEW p \in Processes, Start(p)
    PROVE  Order'
  <1>1. pc[p] = "start" /\ UNCHANGED active /\ job[p] \in Versions
    BY AtWork DEF Start
  <1>2. \A q \in Processes \ {p} : Same(q)
    BY Alone DEF Act, Step
  <1>3. CASE Leave(p) /\ UNCHANGED status
    <2>1. Moves(p)
      BY <1>3, LeaveIs DEF Moves
    <2> QED
      BY <1>1, <1>2, <1>3, <2>1, SameMoves, MovesKeepOrder DEF lifecycle
  <1>4. CASE /\ Goto(p, "prepare") /\ UNCHANGED call
             /\ \/ UNCHANGED status /\ status[job[p]] \in {"processing", "tagged", "ready"}
                \/ /\ status' = [status EXCEPT ![job[p]] = "processing"]
                   /\ status[job[p]] \in {"absent", "failed"} /\ Free(job[p])
    <2>1. /\ UNCHANGED <<job, previous>> /\ pc'[p] = "prepare"
          /\ \A q \in Processes \ {p} : pc'[q] = pc[q]
      BY <1>4, GotoIs DEF call, Labels
    <2>2. \A w \in Versions \ {job[p]} : status'[w] = status[w]
      BY <1>4 DEF Typed, StoresTyped
    <2>3. /\ status'[job[p]] \in {"processing", "tagged", "ready"}
          /\ (status'[job[p]] = "ready") <=> (status[job[p]] = "ready")
      BY <1>1, <1>4 DEF Typed, StoresTyped
    <2>4. \A q \in Processes \ {p} : pc[q] # "start"
      <3> SUFFICES ASSUME NEW q \in Processes \ {p}, pc[q] = "start" PROVE FALSE
        OBVIOUS
      <3>1. job[q] <= job[p] /\ job[p] <= job[q]
        BY <1>1 DEF Order, StartIsNewest
      <3>2. job[q] \in Versions /\ job[q] \in Nat /\ job[p] \in Nat
        BY <1>1, AtWork, VersionsAssumption
      <3>3. job[q] = job[p] /\ job[q] # None
        BY <3>1, <3>2, NoneAssumption
      <3> QED
        BY <3>3 DEF Order, JobsApart
    <2>5. \A w \in Versions : w > job[p] => status[w] = "absent"
      BY <1>1 DEF Order, StartIsNewest
    <2>6. JobsApart'
      BY <2>1 DEF Order, JobsApart
    <2>7. ActiveIsNewest'
      <3> SUFFICES ASSUME NEW v \in Versions, NEW w \in Versions, IsActive(v)', w > v
                   PROVE  status'[w] = "absent"
        BY DEF ActiveIsNewest
      <3>1. CASE v = job[p]
        <4>1. w # job[p]
          BY <3>1, VersionsAssumption
        <4> QED
          BY <2>2, <2>5, <3>1, <4>1
      <3>2. CASE v # job[p]
        <4>1. IsActive(v) /\ UNCHANGED status
          BY <1>4, <2>2, <3>2 DEF IsActive, Free
        <4> QED
          BY <4>1 DEF Order, ActiveIsNewest
      <3> QED
        BY <3>1, <3>2
    <2>8. StartIsNewest'
      BY <2>1, <2>4 DEF StartIsNewest
    <2>9. Running'
      BY <2>1, <2>2, <2>3, <2>4 DEF Order, Running, JobsApart, Late, Typed, FieldsTyped, Paired
    <2>10. PublishedLast'
      BY <1>1, <2>2, <2>3 DEF Order, PublishedLast, Typed, StoresTyped
    <2>11. Before'
      <3>1. \A v \in Versions : (status'[v] = "ready") <=> (status[v] = "ready")
        BY <2>2, <2>3
      <3>2. \A q \in Processes : pc'[q] # "idle" =>
                /\ pc[q] # "idle" /\ job[q] \in Versions
                /\ previous[q] \subseteq Versions
                /\ pc'[q] # "done" => pc[q] # "done"
        BY <1>1, <2>1, AtWork DEF Typed, FieldsTyped
      <3> QED
        BY <2>1, <3>1, <3>2 DEF Order, Before
    <2> QED
      BY <2>6, <2>7, <2>8, <2>9, <2>10, <2>11 DEF Order
  <1> QED
    BY <1>3, <1>4 DEF Start, Resume, IsActive

\* What does not make a version ready keeps the versions that are.
LEMMA SettleOrder ==
    ASSUME Typed, Order, NEW p \in Processes, MarkTagged(p) \/ MarkFailed(p)
    PROVE  Order' /\ \A v \in Versions : (status'[v] = "ready") <=> (status[v] = "ready")
  <1>1. pc[p] \in {"tag", "fail"} /\ UNCHANGED active /\ job[p] \in Versions
    BY AtWork DEF MarkTagged, MarkFailed
  <1>2. \A q \in Processes \ {p} : Same(q)
    BY Alone DEF Act, Step
  <1>3. CASE Leave(p) /\ UNCHANGED status
    <2>1. Moves(p)
      BY <1>3, LeaveIs DEF Moves
    <2> QED
      BY <1>1, <1>2, <1>3, <2>1, SameMoves, MovesKeepOrder DEF lifecycle
  <1>4. CASE /\ IsActive(job[p])
             /\ \/ /\ status' = [status EXCEPT ![job[p]] = "tagged"]
                   /\ Goto(p, "final") /\ UNCHANGED call
                \/ /\ status' = [status EXCEPT ![job[p]] = "failed"]
                   /\ Leave(p)
    <2>1. /\ job'[p] \in {job[p], None} /\ (job'[p] = None <=> pc'[p] = "idle")
          /\ pc'[p] \in {"final", "idle"}
          /\ pc'[p] = "final" => /\ status'[job[p]] = "tagged" /\ job'[p] = job[p]
                                 /\ previous'[p] = previous[p]
      BY <1>1, <1>4, LeaveIs, GotoIs, AtWork DEF call, Labels, Typed, StoresTyped
    <2>2. /\ \A w \in Versions \ {job[p]} : status'[w] = status[w]
          /\ status'[job[p]] \in {"tagged", "failed"}
          /\ status[job[p]] \in {"processing", "tagged"}
      BY <1>1, <1>4 DEF Typed, StoresTyped, IsActive
    <2>3. \A q \in Processes \ {p} : /\ pc'[q] = pc[q] /\ job'[q] = job[q]
                                     /\ previous'[q] = previous[q]
      BY <1>2 DEF Same
    <2>4. \A v \in Versions : /\ (status'[v] = "ready") <=> (status[v] = "ready")
                              /\ (status'[v] = "absent") <=> (status[v] = "absent")
                              /\ IsActive(v)' => IsActive(v)
      BY <2>2 DEF IsActive
    <2>5. JobsApart'
      BY <2>1, <2>3 DEF Order, JobsApart
    <2>6. ActiveIsNewest' /\ PublishedLast'
      BY <1>1, <2>4 DEF Order, ActiveIsNewest, PublishedLast, Typed, StoresTyped
    <2>7. StartIsNewest'
      BY <1>1, <2>1, <2>3, <2>4 DEF Order, StartIsNewest
    <2>8. Running'
      BY <1>1, <2>1, <2>2, <2>3 DEF Order, Running, JobsApart, Late, Typed, FieldsTyped, Paired
    <2>9. Before'
      <3>1. \A q \in Processes : pc'[q] # "idle" =>
              /\ pc[q] # "idle" /\ job'[q] = job[q] /\ job[q] \in Versions
              /\ previous'[q] = previous[q] /\ previous[q] \subseteq Versions
              /\ pc'[q] # "done" => pc[q] # "done"
        BY <1>1, <2>1, <2>3, AtWork DEF Typed, FieldsTyped
      <3> QED
        BY <2>4, <3>1 DEF Order, Before
    <2> QED
      BY <2>4, <2>5, <2>6, <2>7, <2>8, <2>9 DEF Order
  <1> QED
    BY <1>3, <1>4 DEF MarkTagged, MarkFailed, Resume

\* A version that becomes ready is newer than all that have.
LEMMA ReadyOrder ==
    ASSUME Typed, Order, NEW p \in Processes, MarkReady(p)
    PROVE  /\ Order'
           /\ status'[job[p]] = "ready"
           /\ \A v \in Versions \ {job[p]} : /\ status'[v] = status[v]
                                             /\ ~IsActive(v)
           /\ \A v \in Versions : v > job[p] => status[v] = "absent"
           /\ active # None => active < job[p]
  <1>1. /\ pc[p] = "ready" /\ job[p] \in Versions /\ status[job[p]] = "tagged"
        /\ active' = job[p] /\ status' = [status EXCEPT ![job[p]] = "ready"]
        /\ pc'[p] = "done" /\ UNCHANGED <<job, previous>>
    BY AtWork, GotoIs DEF MarkReady, Resume, call, Labels
  <1>2. \A q \in Processes \ {p} : pc'[q] = pc[q]
    BY Alone DEF Act, Step, Same
  <1>3. status'[job[p]] = "ready" /\ \A v \in Versions \ {job[p]} : status'[v] = status[v]
    BY <1>1 DEF Typed, StoresTyped
  <1>4. \A v \in Versions : v > job[p] => status[v] = "absent"
    BY <1>1 DEF Order, ActiveIsNewest, IsActive
  <1>5. \A v \in Versions \ {job[p]} : ~IsActive(v)
    <2> SUFFICES ASSUME NEW v \in Versions, v # job[p], IsActive(v) PROVE FALSE
      OBVIOUS
    <2>1. v > job[p] \/ job[p] > v
      BY <1>1, Numbered
    <2> QED
      BY <1>1, <2>1 DEF Order, ActiveIsNewest, IsActive
  <1>6. active # None => active \in Versions /\ active < job[p]
    <2> SUFFICES ASSUME active # None PROVE active \in Versions /\ active < job[p]
      OBVIOUS
    <2>1. active \in Versions /\ status[active] = "ready"
      BY DEF Order, PublishedLast, Typed, StoresTyped
    <2>2. active # job[p] /\ ~(active > job[p])
      BY <1>1, <1>4, <2>1
    <2>3. active \in Nat /\ job[p] \in Nat
      BY <1>1, <2>1, Numbered
    <2> QED
      BY <2>1, <2>2, <2>3
  <1>7. JobsApart'
    BY <1>1 DEF Order, JobsApart
  <1>8. ActiveIsNewest'
    BY <1>3, <1>5 DEF ActiveIsNewest, IsActive
  <1>9. StartIsNewest'
    <2>1. ASSUME NEW q \in Processes, pc'[q] = "start"
          PROVE  /\ \A w \in Versions : w > job[q] => status'[w] = "absent"
                 /\ \A r \in Processes : pc'[r] # "idle" => job[r] <= job[q]
      <3>1. /\ q # p /\ pc[q] = "start" /\ job[p] <= job[q] /\ job[q] \in Versions
            /\ \A r \in Processes : pc'[r] # "idle" => pc[r] # "idle"
        BY <1>1, <1>2, <2>1, AtWork DEF Order, StartIsNewest
      <3>2. job[p] \in Nat /\ job[q] \in Nat
        BY <1>1, <3>1, Numbered
      <3>3. ~(job[p] > job[q])
        BY <3>1, <3>2
      <3> QED
        BY <1>3, <3>1, <3>3 DEF Order, StartIsNewest
    <2> QED
      BY <1>1, <2>1 DEF StartIsNewest
  <1>10. Running'
    BY <1>1, <1>2, <1>3 DEF Order, Running, JobsApart, Late, Typed, FieldsTyped, Paired
  <1>11. PublishedLast'
    <2>1. ASSUME NEW v \in Versions, status'[v] = "ready"
          PROVE  v <= job[p]
      <3>1. CASE v = job[p]
        BY <1>1, <3>1, Numbered
      <3>2. CASE v # job[p]
        <4>1. active # None /\ v <= active
          BY <1>3, <2>1, <3>2 DEF Order, PublishedLast
        <4>2. active \in Versions /\ active < job[p]
          BY <1>6, <4>1
        <4>3. v \in Nat /\ active \in Nat /\ job[p] \in Nat
          BY <1>1, <4>2, Numbered
        <4> QED
          BY <4>1, <4>2, <4>3
      <3> QED
        BY <3>1, <3>2
    <2> QED
      BY <1>1, <1>3, <2>1, NoneAssumption DEF PublishedLast
  <1>12. Before'
    <2>1. ASSUME NEW q \in Processes, pc'[q] # "idle"
          PROVE  /\ \A w \in previous[q] : w < job[q] /\ status'[w] = "ready"
                 /\ pc'[q] # "done" /\ status'[job[q]] = "ready" => previous[q] = {}
      <3>1. pc[q] # "idle" /\ job[q] \in Versions /\ previous[q] \subseteq Versions
        BY <1>1, <1>2, <2>1, AtWork DEF Typed, FieldsTyped
      <3>2. \A w \in previous[q] : w < job[q] /\ status[w] = "ready"
        BY <3>1 DEF Order, Before
      <3>3. q # p => job[q] # job[p] /\ pc'[q] = pc[q]
        BY <1>1, <1>2, <3>1, AtWork DEF Order, JobsApart
      <3> QED
        BY <1>1, <1>3, <3>1, <3>2, <3>3 DEF Order, Before
    <2> QED
      BY <1>1, <2>1 DEF Before
  <1> QED
    BY <1>3, <1>4, <1>5, <1>6, <1>7, <1>8, <1>9, <1>10, <1>11, <1>12 DEF Order

LEMMA OrderStep ==
    ASSUME Typed, Order, ~Returns, Next
    PROVE  Order'
  <1>1. ASSUME UNCHANGED lifecycle, UNCHANGED <<pc, call>>
        PROVE  Order'
    BY <1>1, MovesKeepOrder DEF Moves, call
  <1>2. ASSUME NEW p \in Processes, UNCHANGED lifecycle,
               \/ Prepare(p) \/ Skip(p) \/ Commit(p) \/ Complete(p) \/ Checkpoint(p) \/ Drained(p)
               \/ NotDrained(p) \/ Plan(p) \/ Document(p) \/ DocumentRefused(p) \/ Final(p)
               \/ Synced(p) \/ Return(p) \/ Raise(p) \/ Crash(p) \/ Busy(p)
        PROVE  Order'
    <2>1. Act(p)
      BY <1>2 DEF Act, Step, Busy
    <2>2. \A q \in Processes \ {p} : Same(q)
      BY <2>1, Alone
    <2>3. Moves(p)
      BY <1>2, OwnMove
    <2> QED
      BY <1>2, <2>2, <2>3, SameMoves, MovesKeepOrder
  <1>3. ASSUME NEW p \in Processes,
               \/ Prepare(p) \/ Skip(p) \/ Commit(p) \/ Complete(p) \/ Checkpoint(p) \/ Drained(p)
               \/ NotDrained(p) \/ Plan(p) \/ Document(p) \/ DocumentRefused(p) \/ Final(p)
               \/ Synced(p) \/ Return(p) \/ Raise(p) \/ Crash(p) \/ Busy(p)
        PROVE  UNCHANGED lifecycle
    BY <1>3, BusyIs DEF Prepare, Skip, Commit, Complete, Checkpoint, Drained, NotDrained, Plan,
       Document, DocumentRefused, Final, Enter, Synced, Return, Raise, Crash, lifecycle
  <1>4. CASE CalmDown \/ \E c \in Chunks, r \in Results : Foreign(c, r)
    BY <1>1, <1>4 DEF CalmDown, Foreign
  <1>5. ASSUME NEW p \in Processes, NEW v \in Versions, Begin(p, v)
        PROVE  Order'
    BY <1>5, BeginOrder
  <1> QED
    BY <1>2, <1>3, <1>4, <1>5, StartOrder, SettleOrder, ReadyOrder DEF Next, Step, Busy

-----------------------------------------------------------------------------
(* The invariant: rows, events, vectors and what is believed of them.      *)

Due(e) == outbox[e] \in {"pending", "failed"}
Ready(v) == status[v] = "ready"
Whole(v) == HasRows(v) /\ HasVectors(v)

\* Deletions are for chunks of versions that were published, and by a version
\* that is whole by then unless it has been published itself; what has been
\* deleted does not come back.
Deletions ==
    \A e \in Events : e.op = "delete" /\ outbox[e] # "none" =>
        /\ Version(e.record) < e.run
        /\ Ready(Version(e.record))
        /\ e.run > active => Whole(e.run)
        /\ outbox[e] = "succeeded" => chroma[e.record] = None /\ index[e.record] = None

\* Until a version becomes ready its chunks have rows as soon as they have events,
\* and are in Chroma, and known to be, as soon as one of these has succeeded.
Upserts ==
    \A e \in Events : e.op = "upsert" /\ outbox[e] # "none" /\ ~Ready(e.run) =>
        /\ rows[e.record] # None
        /\ outbox[e] = "succeeded" => chroma[e.record] # None /\ index[e.record] # None

\* A version that is ready has nothing left to do, and nothing new to say.
Finished ==
    \A v \in Versions : Ready(v) =>
        /\ \A e \in Sync!Of(v) : ~Due(e)
        /\ \A c \in ChunksOf(v) : /\ cached[c] # None
                                  /\ outbox[Upsert(v, c, cached[c])] # "none"

\* A vector of a version that is ready is known, or on its way out.
Believed ==
    \A c \in Chunks : Ready(Version(c)) /\ chroma[c] # None =>
        index[c] # None \/ \E v \in Versions : Due(Delete(v, c))

\* What AlwaysReadable says, of a version that is not older than the published one.
Readable == active # None => \E v \in Versions : v >= active /\ Whole(v)

Stores == /\ Deletions /\ Upserts /\ Finished /\ Believed
          /\ NoDanglingVectors /\ Readable /\ PublishedAlone

\* What the synchroniser of a call is at: the events it has listed are still to be
\* done, and the event under way has been written as far as it has got.
Working(p) ==
    /\ spc[p] = "idle" => todo[p] = {}
    /\ \A e \in todo[p] : Due(e) /\ e.run = job[p]
    /\ spc[p] \in SyncProofs!Handling =>
        /\ Due(event[p]) /\ event[p] \in Events /\ event[p].run = job[p]
        /\ event[p] \notin todo[p]
    /\ spc[p] \in {"record", "markSucceeded"} =>
        (chroma[event[p].record] = None <=> event[p].op = "delete")
    /\ spc[p] = "markSucceeded" =>
        (index[event[p].record] = None <=> event[p].op = "delete")
    /\ spc[p] = "drained" => \A e \in Sync!Of(job[p]) : ~Due(e)

Work == \A p \in Processes : Working(p)

\* A call is through with all its chunks, and has found what is stale.
Through == {"plan", "document", "tag"} \union Late
Planned == {"document", "tag"} \union Late

\* The event of the chunk at position n, as the call has the chunk.
Own(p, n) == Upsert(job[p], <<job[p], n>>, got[p][n])

\* Whether the call has done everything for that chunk but the checkpoint, and
\* whether it has done that too.
Known(p, n) ==
    n < at[p] \/ pc[p] \in Through \/ (n = at[p] /\ pc[p] \in {"checkpoint", "draining"})
Passed(p, n) == n < at[p] \/ pc[p] \in Through

\* The chunks a call is through with are in the ledger as the call has them, and
\* their events are done.
Chunkwise(p) ==
    \A n \in Positions :
        /\ Known(p, n) => /\ got[p][n] # None /\ cached[<<job[p], n>>] = got[p][n]
                          /\ outbox[Own(p, n)] # "none"
        /\ Passed(p, n) => outbox[Own(p, n)] = "succeeded"

\* The chunk it is at: a result that was not claimed, or that belongs to a version
\* which is ready already, is the one in the ledger.
Current(p) ==
    /\ pc[p] \in {"commit", "complete"} =>
        /\ got[p][at[p]] # None
        /\ ~claimed[p] \/ Ready(job[p]) => cached[Chunk(p)] = got[p][at[p]]
    /\ pc[p] = "complete" => outbox[Own(p, at[p])] # "none"

\* Nothing of other versions is believed to be in Chroma but what the call has
\* found, and committed the deletion of.
Cleaning(p) ==
    /\ pc[p] \in Planned /\ ~Ready(job[p]) =>
        \A c \in Chunks : Version(c) # job[p] /\ index[c] # None => c \in stale[p]
    /\ pc[p] \in Planned \ {"document"} =>
        \A c \in stale[p] : outbox[Delete(job[p], c)] # "none"
    /\ pc[p] = "ready" => \A e \in Sync!Of(job[p]) : ~Due(e)

Calls ==
    \A p \in Processes :
        /\ pc[p] = "idle" => at[p] = 1
        /\ pc[p] # "idle" => Chunkwise(p) /\ Current(p) /\ Cleaning(p)

IInv == Typed /\ Order /\ Stores /\ Work /\ Calls

-----------------------------------------------------------------------------
(* The stores.                                                             *)

\* A step at most makes a version ready that was not; here none.
SameReady ==
    /\ UNCHANGED active
    /\ \A v \in Versions : /\ (status'[v] = "ready") <=> (status[v] = "ready")
                           /\ status'[v] = "absent" => status[v] = "absent"

\* What leaves the stores alone keeps what is said of them; the ledger only learns.
LEMMA StoresKept ==
    ASSUME Typed, Stores, SameReady, UNCHANGED <<rows, outbox, chroma, index>>,
           \A c \in Chunks : cached[c] # None => cached'[c] = cached[c]
    PROVE  Stores'
  <1>1. Deletions'
    <2> SUFFICES ASSUME NEW e \in Events, e.op = "delete", outbox[e] # "none"
                 PROVE  /\ Version(e.record) < e.run
                        /\ Ready(Version(e.record))'
                        /\ e.run > active => Whole(e.run)'
                        /\ outbox[e] = "succeeded" => chroma[e.record] = None /\ index[e.record] = None
      BY DEF Deletions, SameReady
    <2> QED
      BY EventIs DEF Stores, Deletions, SameReady, Ready, Whole, HasRows, HasVectors
  <1>2. Upserts'
    BY EventIs DEF Stores, Upserts, SameReady, Ready
  <1>3. Finished'
    BY ChunksOfIs DEF Stores, Finished, SameReady, Ready, Due, Sync!Of
  <1>4. Believed'
    BY ChunkIs DEF Stores, Believed, SameReady, Ready, Due
  <1>5. NoDanglingVectors' /\ Readable'
    BY DEF Stores, NoDanglingVectors, Readable, SameReady, Whole, HasRows, HasVectors
  <1>6. PublishedAlone'
    BY DEF Stores, PublishedAlone, SameReady
  <1> QED
    BY <1>1, <1>2, <1>3, <1>4, <1>5, <1>6 DEF Stores

\* Rows that are added do no harm, whatever they say.
LEMMA RowsKept ==
    ASSUME Typed, Stores, UNCHANGED <<lifecycle, cached, outbox, chroma, index>>,
           \A c \in Chunks : rows[c] # None => rows'[c] # None
    PROVE  Stores'
  <1>1. \A v \in Versions : Whole(v) => Whole(v)'
    BY ChunksOfIs DEF Whole, HasRows, HasVectors
  <1>2. UNCHANGED <<status, active>>
    BY DEF lifecycle
  <1>3. Deletions'
    BY <1>1, <1>2, EventIs DEF Stores, Deletions, Ready
  <1>4. Upserts'
    BY <1>2, EventIs DEF Stores, Upserts, Ready
  <1>5. Finished' /\ Believed' /\ PublishedAlone'
    BY <1>2 DEF Stores, Finished, Believed, PublishedAlone, Ready, Due, Sync!Of
  <1>6. NoDanglingVectors'
    BY DEF Stores, NoDanglingVectors
  <1>7. Readable'
    BY <1>1, <1>2 DEF Stores, Readable
  <1> QED
    BY <1>3, <1>4, <1>5, <1>6, <1>7 DEF Stores

\* The chunk a call commits has a result, and for a version that is ready its
\* event is known already.
LEMMA CommitStores ==
    ASSUME Typed, Stores, Calls, NEW p \in Processes, Commit(p)
    PROVE  Stores'
  <1> DEFINE v == job[p]
             c == Chunk(p)
             r == got[p][at[p]]
             u == Upsert(v, c, r)
  <1>1. v \in Versions /\ c \in ChunksOf(v) /\ c \in Chunks /\ Version(c) = v
    BY AtWork DEF Commit
  <1>2. r \in Results /\ (Ready(v) => cached[c] = r)
    <2>1. r \in Results \union {None}
      BY DEF Typed, FieldsTyped
    <2>2. Current(p) /\ pc[p] = "commit"
      BY DEF Calls, Commit
    <2> QED
      BY <2>1, <2>2 DEF Current
  <1>3. u \in Events /\ u.run = v /\ u.record = c /\ u.op = "upsert"
    BY <1>1, <1>2, UpsertIs
  <1>4. /\ rows' = [rows EXCEPT ![c] = r]
        /\ outbox' = [e \in Events |-> IF e = u /\ outbox[e] = "none" THEN "pending" ELSE outbox[e]]
        /\ UNCHANGED <<lifecycle, status, active, cached, chroma, index>>
    BY DEF Commit, Sync!Enqueue, lifecycle
  <1> HIDE DEF v, c, r, u
  <1>5. /\ rows'[c] # None
        /\ \A d \in Chunks : rows[d] # None => rows'[d] # None
    BY <1>1, <1>2, <1>4, NoneAssumption DEF Typed, StoresTyped
  <1>6. CASE outbox[u] # "none"
    <2>1. outbox' = outbox
      BY <1>4, <1>6 DEF Typed, SyncProofs!Typed, SyncProofs!TypeOK
    <2> QED
      BY <1>4, <1>5, <2>1, RowsKept
  <1>7. CASE outbox[u] = "none"
    <2>1. ~Ready(v)
      BY <1>1, <1>2, <1>7 DEF Stores, Finished, u
    <2>2. /\ outbox'[u] = "pending"
          /\ \A e \in Events : e # u => outbox'[e] = outbox[e]
      BY <1>3, <1>4, <1>7
    <2>3. \A w \in Versions : Whole(w) => Whole(w)'
      BY <1>4, <1>5, ChunksOfIs DEF Whole, HasRows, HasVectors
    <2>4. Deletions'
      BY <1>3, <1>4, <2>2, <2>3, EventIs DEF Stores, Deletions, Ready
    <2>5. Upserts'
      <3> SUFFICES ASSUME NEW e \in Events, e.op = "upsert", outbox'[e] # "none", ~Ready(e.run)
                   PROVE  /\ rows'[e.record] # None
                          /\ outbox'[e] = "succeeded" => chroma[e.record] # None /\ index[e.record] # None
        BY <1>4 DEF Upserts, Ready
      <3>1. CASE e = u
        BY <1>3, <1>5, <2>2, <3>1
      <3>2. CASE e # u
        BY <1>5, <2>2, <3>2, EventIs DEF Stores, Upserts
      <3> QED
        BY <3>1, <3>2
    <2>6. Finished'
      <3> SUFFICES ASSUME NEW w \in Versions, Ready(w)
                   PROVE  /\ \A e \in Sync!Of(w) : ~Due(e)'
                          /\ \A d \in ChunksOf(w) : /\ cached[d] # None
                                                    /\ outbox'[Upsert(w, d, cached[d])] # "none"
        BY <1>4 DEF Finished, Ready, Sync!Of
      <3>1. \A e \in Sync!Of(w) : e \in Events /\ e # u
        BY <1>3, <2>1 DEF Sync!Of
      <3>2. \A e \in Sync!Of(w) : ~Due(e)'
        BY <2>2, <3>1 DEF Stores, Finished, Due
      <3>3. ASSUME NEW d \in ChunksOf(w)
            PROVE  /\ cached[d] # None
                   /\ outbox'[Upsert(w, d, cached[d])] # "none"
        <4>1. cached[d] # None /\ outbox[Upsert(w, d, cached[d])] # "none"
          BY DEF Stores, Finished
        <4>2. cached[d] \in Results
          BY <4>1, ChunksOfIs DEF Typed, StoresTyped
        <4>3. Upsert(w, d, cached[d]) \in Sync!Of(w)
          BY <4>2, UpsertIs DEF Sync!Of
        <4> QED
          BY <2>2, <3>1, <4>1, <4>3
      <3> QED
        BY <3>2, <3>3
    <2>7. \A w \in Versions, d \in Chunks : Due(Delete(w, d))' <=> Due(Delete(w, d))
      BY <1>3, <2>2, DeleteIs DEF Due
    <2>8. Believed' /\ NoDanglingVectors'
      BY <1>4, <1>5, <2>7 DEF Stores, Believed, NoDanglingVectors, Ready, Due
    <2>9. Readable' /\ PublishedAlone'
      BY <1>4, <2>3 DEF Stores, Readable, PublishedAlone
    <2> QED
      BY <2>4, <2>5, <2>6, <2>8, <2>9 DEF Stores
  <1> QED
    BY <1>6, <1>7

\* A call that commits its document is through with all its chunks.
LEMMA DocumentWhole ==
    ASSUME Typed, Stores, Calls, NEW p \in Processes, pc[p] \in Through
    PROVE  /\ job[p] \in Versions
           /\ \A n \in Positions : /\ got[p][n] \in Results /\ cached[<<job[p], n>>] = got[p][n]
                                   /\ Own(p, n) \in Events /\ outbox[Own(p, n)] = "succeeded"
           /\ ~Ready(job[p]) =>
                \A c \in ChunksOf(job[p]) : rows[c] # None /\ chroma[c] # None /\ index[c] # None
  <1>1. job[p] \in Versions /\ Chunkwise(p)
    BY AtWork DEF Calls, Through, Late
  <1>2. ASSUME NEW n \in Positions
        PROVE  /\ got[p][n] \in Results /\ cached[<<job[p], n>>] = got[p][n]
               /\ outbox[Own(p, n)] = "succeeded"
    <2>1. got[p][n] \in Results \union {None}
      BY DEF Typed, FieldsTyped
    <2> QED
      BY <1>1, <2>1 DEF Chunkwise, Known, Passed
  <1>3. ASSUME NEW n \in Positions
        PROVE  /\ Own(p, n) \in Events /\ Own(p, n).run = job[p]
               /\ Own(p, n).record = <<job[p], n>> /\ Own(p, n).op = "upsert"
    BY <1>1, <1>2, UpsertIs, ChunksOfIs DEF Own
  <1>4. ASSUME NEW c \in ChunksOf(job[p]), ~Ready(job[p])
        PROVE  rows[c] # None /\ chroma[c] # None /\ index[c] # None
    <2>1. c \in Chunks /\ c = <<job[p], c[2]>> /\ c[2] \in Positions
      BY <1>1, ChunksOfIs, ChunkIs
    <2> QED
      BY <1>2, <1>3, <1>4, <2>1 DEF Stores, Upserts
  <1> QED
    BY <1>1, <1>2, <1>3, <1>4

\* An active version is newer than the published one.
LEMMA ActiveIsNewer ==
    ASSUME Typed, Order, NEW v \in Versions, IsActive(v)
    PROVE  /\ \A w \in Versions : w > v => status[w] = "absent"
           /\ \A w \in Versions : Ready(w) => active # None /\ w <= active
           /\ active # None => active \in Versions /\ Ready(active) /\ v > active
           /\ ~Ready(v)
  <1>1. \A w \in Versions : w > v => status[w] = "absent"
    BY DEF Order, ActiveIsNewest
  <1>2. active # None => active \in Versions /\ Ready(active)
    BY DEF Order, PublishedLast, Ready, Typed, StoresTyped
  <1>3. active # None => v # active /\ ~(active > v)
    BY <1>1, <1>2 DEF Ready, IsActive
  <1>4. active # None => v > active
    BY <1>2, <1>3, Numbered
  <1> QED
    BY <1>1, <1>2, <1>4 DEF Order, PublishedLast, Ready, IsActive

\* The rows of the version before go together with the deletion of its vectors.
LEMMA DocumentStores ==
    ASSUME Typed, Order, Stores, Calls, NEW p \in Processes, Document(p)
    PROVE  Stores'
  <1>0. PICK v \in Versions : v = job[p]
    BY AtWork DEF Document
  <1>1. /\ pc[p] = "document" /\ v \in Versions
        /\ {Version(c) : c \in stale[p]} \subseteq previous[p]
        /\ rows' = Committed(p)
        /\ UNCHANGED <<lifecycle, status, active, cached, chroma, index>>
    BY DEF Document, lifecycle
  <1>2. \A e \in Events :
            outbox'[e] = IF (\E c \in stale[p] : e = Delete(v, c)) /\ outbox[e] = "none"
                         THEN "pending" ELSE outbox[e]
    BY <1>0 DEF Document, Sync!Enqueue
  <1>3. /\ \A w \in previous[p] : w < v /\ Ready(w)
        /\ Ready(v) => previous[p] = {}
        /\ previous[p] \subseteq Versions /\ stale[p] \subseteq Chunks
    BY <1>0, <1>1 DEF Order, Before, Ready, Typed, FieldsTyped
  <1>4. \A c \in Chunks :
            rows'[c] = IF Version(c) = v THEN got[p][c[2]]
                       ELSE IF Version(c) \in previous[p] THEN None
                       ELSE rows[c]
    BY <1>0, <1>1 DEF Committed
  <1>5. \A n \in Positions : got[p][n] # None
    BY <1>1, DocumentWhole, NoneAssumption DEF Through
  <1>6. \A c \in Chunks : Version(c) = v => rows'[c] # None
    BY <1>4, <1>5, ChunkIs
  <1>7. CASE Ready(v)
    <2>1. stale[p] = {} /\ previous[p] = {}
      BY <1>1, <1>3, <1>7
    <2>2. outbox' = outbox
      BY <1>2, <2>1 DEF Typed, SyncProofs!Typed, SyncProofs!TypeOK, Document, Sync!Enqueue
    <2>3. \A c \in Chunks : rows[c] # None => rows'[c] # None
      BY <1>4, <1>6, <2>1
    <2> QED
      BY <1>1, <2>2, <2>3, RowsKept
  <1>8. CASE ~Ready(v)
    <2>1. IsActive(v)
      BY <1>0, <1>1, <1>8 DEF Order, Running, Ready, IsActive
    <2>2. \A c \in ChunksOf(v) : chroma[c] # None
      BY <1>0, <1>1, <1>8, DocumentWhole DEF Through
    <2>3. Whole(v)'
      BY <1>1, <1>6, <2>2, ChunksOfIs DEF Whole, HasRows, HasVectors
    <2>4. /\ \A w \in Versions : Ready(w) => active # None /\ w <= active
          /\ active # None => active \in Versions /\ v > active
      BY <1>1, <2>1, ActiveIsNewer
    <2>5. ASSUME NEW w \in Versions, w > active, active # None, Whole(w)
          PROVE  Whole(w)'
      <3>1. w \notin previous[p]
        <4> SUFFICES ASSUME w \in previous[p] PROVE FALSE
          OBVIOUS
        <4>1. w <= active /\ active \in Versions
          BY <1>3, <2>4
        <4> QED
          BY <2>5, <4>1, Numbered
      <3>2. \A c \in ChunksOf(w) : rows'[c] # None
        BY <1>4, <1>6, <2>5, <3>1, ChunksOfIs DEF Whole, HasRows
      <3> QED
        BY <1>1, <2>5, <3>2 DEF Whole, HasRows, HasVectors
    <2>6. \A e \in Events : /\ outbox[e] # "none" => outbox'[e] = outbox[e]
                            /\ outbox'[e] # outbox[e] =>
                                /\ outbox'[e] = "pending"
                                /\ \E c \in stale[p] : e = Delete(v, c)
      BY <1>2
    <2>7. \A c \in stale[p] : /\ Delete(v, c) \in Events /\ Delete(v, c).run = v
                              /\ Delete(v, c).record = c /\ Delete(v, c).op = "delete"
      BY <1>1, <1>3, DeleteIs
    <2>8. Deletions'
      <3> SUFFICES ASSUME NEW e \in Events, e.op = "delete", outbox'[e] # "none"
                   PROVE  /\ Version(e.record) < e.run
                          /\ Ready(Version(e.record))
                          /\ e.run > active => Whole(e.run)'
                          /\ outbox'[e] = "succeeded" => chroma[e.record] = None /\ index[e.record] = None
        BY <1>1 DEF Deletions, Ready
      <3>1. CASE outbox'[e] # outbox[e]
        <4>1. PICK c \in stale[p] : e = Delete(v, c)
          BY <2>6, <3>1
        <4>2. Version(c) < v /\ Ready(Version(c))
          BY <1>1, <1>3
        <4> QED
          BY <2>3, <2>6, <2>7, <3>1, <4>1, <4>2
      <3>2. CASE outbox'[e] = outbox[e]
        <4>1. /\ Version(e.record) < e.run
              /\ Ready(Version(e.record))
              /\ e.run > active => Whole(e.run)
              /\ outbox[e] = "succeeded" => chroma[e.record] = None /\ index[e.record] = None
          BY <3>2 DEF Stores, Deletions
        <4>2. active # None /\ e.run \in Versions
          BY <2>4, <4>1, EventIs
        <4> QED
          BY <2>5, <3>2, <4>1, <4>2
      <3> QED
        BY <3>1, <3>2
    <2>9. Upserts'
      <3> SUFFICES ASSUME NEW e \in Events, e.op = "upsert", outbox'[e] # "none", ~Ready(e.run)
                   PROVE  /\ rows'[e.record] # None
                          /\ outbox'[e] = "succeeded" => chroma[e.record] # None /\ index[e.record] # None
        BY <1>1 DEF Upserts, Ready
      <3>1. outbox'[e] = outbox[e]
        BY <2>6, <2>7
      <3>2. Version(e.record) = e.run /\ e.record \in Chunks
        BY EventIs
      <3>3. Version(e.record) \notin previous[p]
        BY <1>3, <3>2
      <3> QED
        BY <1>4, <1>6, <3>1, <3>2, <3>3 DEF Stores, Upserts
    <2>10. Finished'
      <3> SUFFICES ASSUME NEW w \in Versions, Ready(w)
                   PROVE  /\ \A e \in Sync!Of(w) : ~Due(e)'
                          /\ \A d \in ChunksOf(w) : /\ cached[d] # None
                                                    /\ outbox'[Upsert(w, d, cached[d])] # "none"
        BY <1>1 DEF Finished, Ready, Sync!Of
      <3>1. \A e \in Sync!Of(w) : e \in Events /\ outbox'[e] = outbox[e]
        BY <1>8, <2>6, <2>7 DEF Sync!Of
      <3>2. \A e \in Sync!Of(w) : ~Due(e)'
        BY <3>1 DEF Stores, Finished, Due
      <3>3. ASSUME NEW d \in ChunksOf(w)
            PROVE  /\ cached[d] # None
                   /\ outbox'[Upsert(w, d, cached[d])] # "none"
        <4>1. cached[d] # None /\ outbox[Upsert(w, d, cached[d])] # "none"
          BY DEF Stores, Finished
        <4>2. cached[d] \in Results
          BY <4>1, ChunksOfIs DEF Typed, StoresTyped
        <4>3. Upsert(w, d, cached[d]) \in Sync!Of(w)
          BY <4>2, UpsertIs DEF Sync!Of
        <4> QED
          BY <3>1, <4>1, <4>3
      <3> QED
        BY <3>2, <3>3
    <2>11. \A w \in Versions, d \in Chunks : Due(Delete(w, d)) => Due(Delete(w, d))'
      BY <2>6, DeleteIs DEF Due
    <2>12. Believed'
      BY <1>1, <2>11 DEF Stores, Believed, Ready
    <2>13. NoDanglingVectors'
      <3> SUFFICES ASSUME NEW c \in Chunks, chroma[c] # None, rows'[c] = None
                   PROVE  \E w \in Versions : Due(Delete(w, c))'
        BY <1>1 DEF NoDanglingVectors, Due
      <3>1. CASE \E w \in Versions : Due(Delete(w, c))
        BY <2>11, <3>1
      <3>2. CASE ~(\E w \in Versions : Due(Delete(w, c)))
        <4>1. rows[c] # None
          BY <3>2 DEF Stores, NoDanglingVectors, Due
        <4>2. Version(c) \in previous[p] /\ Version(c) # v
          BY <1>4, <1>6, <4>1
        <4>3. index[c] # None
          BY <1>3, <3>2, <4>2 DEF Stores, Believed
        <4>4. c \in stale[p]
          BY <1>0, <1>1, <1>8, <4>2, <4>3 DEF Calls, Cleaning, Planned
        <4>5. outbox'[Delete(v, c)] # "none"
          BY <1>2, <2>7, <4>4
        <4>6. outbox[Delete(v, c)] # "succeeded"
          BY <2>7, <4>4 DEF Stores, Deletions
        <4>7. outbox[Delete(v, c)] = "none"
          <5>1. outbox[Delete(v, c)] \in {"none", "pending", "failed", "succeeded"}
            BY <2>7, <4>4 DEF Typed, SyncProofs!Typed, SyncProofs!TypeOK
          <5> QED
            BY <1>1, <3>2, <4>6, <5>1 DEF Due
        <4>8. outbox'[Delete(v, c)] = "pending"
          BY <2>6, <2>7, <4>4, <4>5, <4>7
        <4> QED
          BY <1>1, <4>8 DEF Due
      <3> QED
        BY <3>1, <3>2
    <2>14. Readable'
      <3>1. active # None => v >= active
        BY <1>1, <2>4, Numbered
      <3> QED
        BY <1>1, <2>3, <3>1 DEF Readable
    <2>15. PublishedAlone'
      BY <1>1 DEF Stores, PublishedAlone
    <2> QED
      BY <2>8, <2>9, <2>10, <2>12, <2>13, <2>14, <2>15 DEF Stores
  <1> QED
    BY <1>7, <1>8

\* A version becomes ready when all it has to say is in both stores, and nothing
\* of any other version is believed to be in Chroma.
LEMMA ReadyStores ==
    ASSUME Typed, Order, Stores, Calls, NEW p \in Processes, MarkReady(p)
    PROVE  Stores'
  <1>0. PICK v \in Versions : v = job[p]
    BY AtWork DEF MarkReady
  <1>1. /\ pc[p] = "ready" /\ status[v] = "tagged" /\ active' = v
        /\ UNCHANGED <<cached, rows, outbox, chroma, index>>
    BY <1>0 DEF MarkReady, relational, stores
  <1>2. /\ status'[v] = "ready"
        /\ \A w \in Versions \ {v} : status'[w] = status[w] /\ ~IsActive(w)
        /\ \A w \in Versions : w > v => status[w] = "absent"
        /\ active # None => active < v
    BY <1>0, ReadyOrder
  <1>3. /\ \A n \in Positions : /\ got[p][n] \in Results /\ cached[<<v, n>>] = got[p][n]
                                /\ outbox[Upsert(v, <<v, n>>, got[p][n])] = "succeeded"
        /\ \A c \in ChunksOf(v) : rows[c] # None /\ chroma[c] # None /\ index[c] # None
    BY <1>0, <1>1, DocumentWhole DEF Through, Late, Ready, Own
  <1>4. Whole(v)'
    BY <1>1, <1>3 DEF Whole, HasRows, HasVectors
  <1>5. /\ \A c \in Chunks : Version(c) # v /\ index[c] # None =>
             c \in stale[p] /\ outbox[Delete(v, c)] # "none"
        /\ \A e \in Sync!Of(v) : ~Due(e)
    BY <1>0, <1>1 DEF Calls, Cleaning, Planned, Late, Ready
  <1>6. \A w \in Versions : Ready(w) => Ready(w)'
    BY <1>2 DEF Ready
  <1>7. Deletions'
    <2> SUFFICES ASSUME NEW e \in Events, e.op = "delete", outbox[e] # "none"
                 PROVE  /\ Version(e.record) < e.run
                        /\ Ready(Version(e.record))'
                        /\ e.run > v => Whole(e.run)'
                        /\ outbox[e] = "succeeded" => chroma[e.record] = None /\ index[e.record] = None
      BY <1>1 DEF Deletions
    <2>1. /\ Version(e.record) < e.run /\ Ready(Version(e.record))
          /\ e.run > active => Whole(e.run)
          /\ outbox[e] = "succeeded" => chroma[e.record] = None /\ index[e.record] = None
      BY DEF Stores, Deletions
    <2>2. e.run \in Versions /\ Version(e.record) \in Versions
      BY EventIs
    <2>3. active # None /\ active \in Versions
      BY <2>1, <2>2 DEF Order, PublishedLast, Ready, Typed, StoresTyped
    <2>4. e.run > v => e.run > active
      BY <1>2, <2>2, <2>3, Numbered
    <2>5. Whole(e.run) => Whole(e.run)'
      BY <1>1 DEF Whole, HasRows, HasVectors
    <2> QED
      BY <1>6, <2>1, <2>2, <2>4, <2>5
  <1>8. Upserts'
    BY <1>1, <1>6, EventIs DEF Stores, Upserts
  <1>9. Finished'
    <2>1. \A w \in Versions \ {v} : Ready(w)' => Ready(w)
      BY <1>2 DEF Ready
    <2>2. \A c \in ChunksOf(v) : /\ cached[c] # None
                                 /\ outbox[Upsert(v, c, cached[c])] # "none"
      <3> SUFFICES ASSUME NEW c \in ChunksOf(v)
                   PROVE  cached[c] # None /\ outbox[Upsert(v, c, cached[c])] # "none"
        OBVIOUS
      <3>1. c = <<v, c[2]>> /\ c[2] \in Positions
        BY ChunksOfIs, ChunkIs
      <3>2. cached[c] = got[p][c[2]] /\ got[p][c[2]] \in Results
        BY <1>3, <3>1
      <3>3. outbox[Upsert(v, c, cached[c])] = "succeeded"
        BY <1>3, <3>1, <3>2
      <3> QED
        BY <3>2, <3>3, NoneAssumption
    <2> SUFFICES ASSUME NEW w \in Versions, Ready(w)'
                 PROVE  /\ \A e \in Sync!Of(w) : ~Due(e)
                        /\ \A c \in ChunksOf(w) : /\ cached[c] # None
                                                  /\ outbox[Upsert(w, c, cached[c])] # "none"
      BY <1>1 DEF Finished, Due, Sync!Of
    <2> QED
      BY <1>5, <2>1, <2>2 DEF Stores, Finished
  <1>10. Believed'
    <2> SUFFICES ASSUME NEW c \in Chunks, Ready(Version(c))', chroma[c] # None
                 PROVE  index[c] # None \/ \E w \in Versions : Due(Delete(w, c))
      BY <1>1 DEF Believed, Due
    <2>1. CASE Version(c) = v
      BY <1>3, <2>1, ChunkIs
    <2>2. CASE Version(c) # v
      <3>1. Ready(Version(c))
        BY <1>2, <2>2, ChunkIs DEF Ready
      <3> QED
        BY <3>1 DEF Stores, Believed
    <2> QED
      BY <2>1, <2>2
  <1>11. NoDanglingVectors'
    BY <1>1 DEF Stores, NoDanglingVectors
  <1>12. Readable'
    BY <1>1, <1>4, Numbered DEF Readable
  <1>13. PublishedAlone'
    <2> SUFFICES ASSUME NEW c \in Chunks, Version(c) # v, index[c] # None
                 PROVE  FALSE
      BY <1>1 DEF PublishedAlone
    <2>1. outbox[Delete(v, c)] # "none" /\ Delete(v, c) \in Events
          /\ Delete(v, c).op = "delete" /\ Delete(v, c).record = c /\ Delete(v, c).run = v
      BY <1>5, DeleteIs
    <2>2. ~Due(Delete(v, c))
      BY <1>5, <2>1 DEF Sync!Of
    <2>3. outbox[Delete(v, c)] = "succeeded"
      <3>1. outbox[Delete(v, c)] \in {"none", "pending", "failed", "succeeded"}
        BY <2>1 DEF Typed, SyncProofs!Typed, SyncProofs!TypeOK
      <3> QED
        BY <2>1, <2>2, <3>1 DEF Due
    <2> QED
      BY <2>1, <2>3 DEF Stores, Deletions
  <1> QED
    BY <1>7, <1>8, <1>9, <1>10, <1>11, <1>12, <1>13 DEF Stores

-----------------------------------------------------------------------------
(* The synchroniser and the stores.                                        *)

\* An event that a call is at is still to be done, so the call's version is active.
LEMMA UnderWay ==
    ASSUME Typed, Order, Stores, NEW p \in Processes, spc[p] # "idle",
           NEW e \in Events, Due(e), e.run = job[p]
    PROVE  /\ e.run \in Versions /\ IsActive(e.run) /\ ~Ready(e.run)
           /\ active # None => active \in Versions /\ e.run > active
           /\ e.op = "upsert" => Version(e.record) = e.run /\ rows[e.record] # None
           /\ e.op = "delete" => /\ Ready(Version(e.record)) /\ Whole(e.run)
                                 /\ Version(e.record) # e.run
                                 /\ active # None /\ Version(e.record) <= active
  <1>1. outbox[e] # "none" /\ e.run \in Versions
    BY EventIs DEF Due
  <1>2. ~Ready(e.run)
    BY <1>1 DEF Stores, Finished, Sync!Of
  <1>3. IsActive(e.run)
    BY <1>2 DEF Order, Running, Ready, IsActive, Typed, Paired
  <1>4. active # None => active \in Versions /\ e.run > active
    BY <1>1, <1>3, ActiveIsNewer
  <1>5. ASSUME e.op = "delete"
        PROVE  /\ Ready(Version(e.record)) /\ Whole(e.run) /\ Version(e.record) # e.run
               /\ active # None /\ Version(e.record) <= active
    <2>1. Ready(Version(e.record)) /\ (e.run > active => Whole(e.run))
      BY <1>1, <1>5 DEF Stores, Deletions
    <2>2. active # None /\ Version(e.record) <= active
      BY <1>1, <1>3, <2>1, ActiveIsNewer, EventIs
    <2> QED
      BY <1>2, <1>4, <2>1, <2>2
  <1>6. e.op = "upsert" => Version(e.record) = e.run /\ rows[e.record] # None
    BY <1>1, <1>2, EventIs DEF Stores, Upserts
  <1> QED
    BY <1>1, <1>2, <1>3, <1>4, <1>5, <1>6

\* Nothing that still counts says the opposite of such an event.
LEMMA Agreed ==
    ASSUME Typed, Stores, NEW e \in Events, Due(e), ~Ready(e.run),
           NEW d \in Events, outbox[d] # "none", d.op = "upsert" => ~Ready(d.run),
           d.record = e.record
    PROVE  d.op = e.op
  <1>1. outbox[e] # "none"
    BY DEF Due
  <1>2. CASE d.op = "upsert" /\ e.op = "delete"
    BY <1>1, <1>2, EventIs DEF Stores, Deletions
  <1>3. CASE d.op = "delete" /\ e.op = "upsert"
    BY <1>3, EventIs DEF Stores, Deletions
  <1> QED
    BY <1>2, <1>3, EventIs

\* Chroma takes the event, or nothing happens.
LEMMA ApplyStores ==
    ASSUME Typed, Order, Stores, NEW p \in Processes, spc[p] # "idle",
           NEW e \in Events, Due(e), e.run = job[p],
           chroma' \in {chroma, [chroma EXCEPT ![e.record] = Sync!Effect(e)]},
           UNCHANGED <<lifecycle, relational, outbox, index>>
    PROVE  Stores'
  <1> DEFINE c == e.record
  <1>1. UNCHANGED <<status, active, cached, rows, outbox, index>>
    BY DEF lifecycle, relational
  <1>2. /\ e.run \in Versions /\ ~Ready(e.run)
        /\ active # None => active \in Versions /\ e.run > active
        /\ e.op = "upsert" => Version(c) = e.run /\ rows[c] # None
        /\ e.op = "delete" => /\ Ready(Version(c)) /\ Whole(e.run) /\ Version(c) # e.run
                              /\ active # None /\ Version(c) <= active
    BY UnderWay
  <1>3. /\ c \in Chunks /\ Version(c) \in Versions /\ e.op \in {"upsert", "delete"}
        /\ \A d \in Chunks : d # c => chroma'[d] = chroma[d]
        /\ e.op = "upsert" => chroma'[c] # None \/ chroma'[c] = chroma[c]
        /\ e.op = "delete" => chroma'[c] = None \/ chroma'[c] = chroma[c]
    BY EventIs, NoneAssumption DEF Typed, SyncProofs!Typed, SyncProofs!TypeOK
  <1> HIDE DEF c
  <1>4. ASSUME NEW w \in Versions, Whole(w), e.op = "upsert" \/ Version(c) # w
        PROVE  Whole(w)'
    <2>1. \A d \in ChunksOf(w) : chroma'[d] # None
      BY <1>3, <1>4, ChunksOfIs DEF Whole, HasVectors
    <2> QED
      BY <1>1, <1>4, <2>1 DEF Whole, HasRows, HasVectors
  <1>5. Deletions'
    <2> SUFFICES ASSUME NEW d \in Events, d.op = "delete", outbox[d] # "none"
                 PROVE  /\ Version(d.record) < d.run
                        /\ Ready(Version(d.record))
                        /\ d.run > active => Whole(d.run)'
                        /\ outbox[d] = "succeeded" => chroma'[d.record] = None /\ index[d.record] = None
      BY <1>1 DEF Deletions, Ready
    <2>1. /\ Version(d.record) < d.run /\ Ready(Version(d.record))
          /\ d.run > active => Whole(d.run)
          /\ outbox[d] = "succeeded" => chroma[d.record] = None /\ index[d.record] = None
      BY DEF Stores, Deletions
    <2>2. d.run \in Versions /\ d.record \in Chunks
      BY EventIs
    <2>3. d.record = c => e.op = "delete"
      BY <1>2, Agreed DEF c
    <2>4. e.op = "delete" /\ d.run > active => Version(c) # d.run
      BY <1>2, <1>3, <2>2, Numbered
    <2> QED
      BY <1>3, <1>4, <2>1, <2>2, <2>3, <2>4
  <1>6. Upserts'
    <2> SUFFICES ASSUME NEW d \in Events, d.op = "upsert", outbox[d] # "none", ~Ready(d.run)
                 PROVE  /\ rows[d.record] # None
                        /\ outbox[d] = "succeeded" => chroma'[d.record] # None /\ index[d.record] # None
      BY <1>1 DEF Upserts, Ready
    <2>1. d.record = c => e.op = "upsert"
      BY <1>2, Agreed DEF c
    <2> QED
      BY <1>3, <2>1, EventIs DEF Stores, Upserts
  <1>7. Finished' /\ PublishedAlone'
    BY <1>1 DEF Stores, Finished, PublishedAlone, Ready, Due, Sync!Of
  <1>8. Believed'
    <2> SUFFICES ASSUME NEW d \in Chunks, Ready(Version(d)), chroma'[d] # None
                 PROVE  index[d] # None \/ \E w \in Versions : Due(Delete(w, d))
      BY <1>1 DEF Believed, Ready, Due
    <2>1. chroma[d] # None
      BY <1>2, <1>3
    <2> QED
      BY <2>1 DEF Stores, Believed
  <1>9. NoDanglingVectors'
    <2> SUFFICES ASSUME NEW d \in Chunks, chroma'[d] # None, rows[d] = None
                 PROVE  \E w \in Versions : outbox[Delete(w, d)] \in {"pending", "failed"}
      BY <1>1 DEF NoDanglingVectors
    <2>1. chroma[d] # None
      BY <1>2, <1>3
    <2> QED
      BY <2>1 DEF Stores, NoDanglingVectors
  <1>10. Readable'
    <2>1. CASE e.op = "delete"
      <3>1. e.run >= active /\ Whole(e.run)'
        BY <1>2, <1>4, <2>1, Numbered
      <3> QED
        BY <1>1, <1>2, <3>1 DEF Readable, Whole, HasRows, HasVectors
    <2>2. CASE e.op = "upsert"
      BY <1>1, <1>4, <2>2 DEF Stores, Readable
    <2> QED
      BY <1>3, <2>1, <2>2
  <1> QED
    BY <1>5, <1>6, <1>7, <1>8, <1>9, <1>10 DEF Stores

\* The index state is told what Chroma has taken.
LEMMA RecordStores ==
    ASSUME Typed, Order, Stores, NEW p \in Processes, spc[p] # "idle",
           NEW e \in Events, Due(e), e.run = job[p],
           chroma[e.record] = None <=> e.op = "delete",
           index' = [index EXCEPT ![e.record] = Sync!Effect(e)],
           UNCHANGED <<lifecycle, relational, outbox, chroma>>
    PROVE  Stores'
  <1> DEFINE c == e.record
  <1>1. UNCHANGED <<status, active, cached, rows, outbox, chroma>>
    BY DEF lifecycle, relational
  <1>2. /\ e.run \in Versions /\ ~Ready(e.run) /\ IsActive(e.run)
        /\ active # None => active \in Versions /\ e.run > active
        /\ e.op = "upsert" => Version(c) = e.run /\ rows[c] # None
    BY UnderWay
  <1>3. /\ c \in Chunks /\ Version(c) \in Versions /\ e.op \in {"upsert", "delete"}
        /\ \A d \in Chunks : d # c => index'[d] = index[d]
        /\ (index'[c] = None) <=> (e.op = "delete")
        /\ (chroma[c] = None) <=> (e.op = "delete")
    BY EventIs, NoneAssumption DEF Typed, SyncProofs!Typed, SyncProofs!TypeOK
  <1>4. ASSUME NEW d \in Events, outbox[d] # "none", d.op = "upsert" => ~Ready(d.run),
               d.record = c
        PROVE  d.op = e.op
    BY <1>2, <1>4, Agreed
  <1> HIDE DEF c
  <1>5. Deletions'
    <2> SUFFICES ASSUME NEW d \in Events, d.op = "delete", outbox[d] = "succeeded"
                 PROVE  index'[d.record] = None
      BY <1>1 DEF Stores, Deletions, Ready, Whole, HasRows, HasVectors
    <2>1. d.record \in Chunks /\ index[d.record] = None
      BY EventIs DEF Stores, Deletions
    <2> QED
      BY <1>3, <1>4, <2>1
  <1>6. Upserts'
    <2> SUFFICES ASSUME NEW d \in Events, d.op = "upsert", outbox[d] = "succeeded", ~Ready(d.run)
                 PROVE  index'[d.record] # None
      BY <1>1 DEF Stores, Upserts, Ready
    <2>1. d.record \in Chunks /\ index[d.record] # None
      BY EventIs DEF Stores, Upserts
    <2> QED
      BY <1>3, <1>4, <2>1
  <1>7. Finished' /\ NoDanglingVectors' /\ Readable'
    BY <1>1 DEF Stores, Finished, NoDanglingVectors, Readable, Ready, Due, Sync!Of,
                Whole, HasRows, HasVectors
  <1>8. Believed'
    <2> SUFFICES ASSUME NEW d \in Chunks, Ready(Version(d)), chroma[d] # None
                 PROVE  index'[d] # None \/ \E w \in Versions : Due(Delete(w, d))
      BY <1>1 DEF Believed, Ready, Due
    <2> QED
      BY <1>3 DEF Stores, Believed
  <1>9. PublishedAlone'
    BY <1>1, <1>2 DEF PublishedAlone, IsActive
  <1> QED
    BY <1>5, <1>6, <1>7, <1>8, <1>9 DEF Stores

\* The outbox is told what has been done.
LEMMA MarkStores ==
    ASSUME Typed, Order, Stores, NEW p \in Processes, spc[p] # "idle",
           NEW e \in Events, Due(e), e.run = job[p],
           NEW outcome \in {"succeeded", "failed"},
           outcome = "succeeded" => /\ chroma[e.record] = None <=> e.op = "delete"
                                    /\ index[e.record] = None <=> e.op = "delete",
           outbox' = [outbox EXCEPT ![e] = outcome],
           UNCHANGED <<lifecycle, relational, chroma, index>>
    PROVE  Stores'
  <1>1. UNCHANGED <<status, active, cached, rows, chroma, index>>
    BY DEF lifecycle, relational
  <1>2. /\ ~Ready(e.run) /\ e.op \in {"upsert", "delete"}
        /\ e.op = "upsert" => rows[e.record] # None
    BY UnderWay, EventIs
  <1>3. /\ outbox[e] # "none" /\ outbox'[e] = outcome
        /\ \A d \in Events : d # e => outbox'[d] = outbox[d]
        /\ \A d \in Events : outbox'[d] # "none" <=> outbox[d] # "none"
    BY DEF Due, Typed, SyncProofs!Typed, SyncProofs!TypeOK
  <1>4. Deletions'
    <2> SUFFICES ASSUME NEW d \in Events, d.op = "delete", outbox[d] # "none"
                 PROVE  /\ Version(d.record) < d.run
                        /\ Ready(Version(d.record))
                        /\ d.run > active => Whole(d.run)
                        /\ outbox'[d] = "succeeded" => chroma[d.record] = None /\ index[d.record] = None
      BY <1>1, <1>3 DEF Deletions, Ready, Whole, HasRows, HasVectors
    <2> QED
      BY <1>3 DEF Stores, Deletions
  <1>5. Upserts'
    <2> SUFFICES ASSUME NEW d \in Events, d.op = "upsert", outbox[d] # "none", ~Ready(d.run)
                 PROVE  /\ rows[d.record] # None
                        /\ outbox'[d] = "succeeded" => chroma[d.record] # None /\ index[d.record] # None
      BY <1>1, <1>3 DEF Upserts, Ready
    <2> QED
      BY <1>3 DEF Stores, Upserts
  <1>6. Finished'
    <2> SUFFICES ASSUME NEW w \in Versions, Ready(w)
                 PROVE  /\ \A d \in Sync!Of(w) : ~Due(d)'
                        /\ \A c \in ChunksOf(w) : /\ cached[c] # None
                                                  /\ outbox'[Upsert(w, c, cached[c])] # "none"
      BY <1>1 DEF Finished, Ready, Sync!Of
    <2>1. \A d \in Sync!Of(w) : d \in Events /\ outbox'[d] = outbox[d]
      BY <1>2, <1>3 DEF Sync!Of
    <2>2. \A d \in Sync!Of(w) : ~Due(d)'
      BY <2>1 DEF Stores, Finished, Due
    <2>3. ASSUME NEW c \in ChunksOf(w)
          PROVE  cached[c] # None /\ outbox'[Upsert(w, c, cached[c])] # "none"
      <3>1. cached[c] # None /\ outbox[Upsert(w, c, cached[c])] # "none"
        BY DEF Stores, Finished
      <3>2. cached[c] \in Results
        BY <3>1, ChunksOfIs DEF Typed, StoresTyped
      <3>3. Upsert(w, c, cached[c]) \in Sync!Of(w)
        BY <3>2, UpsertIs DEF Sync!Of
      <3> QED
        BY <2>1, <3>1, <3>3
    <2> QED
      BY <2>2, <2>3
  <1>7. ASSUME NEW c \in Chunks, chroma[c] # None, NEW w \in Versions, Due(Delete(w, c))
        PROVE  outbox'[Delete(w, c)] \in {"pending", "failed"}
    BY <1>2, <1>3, <1>7, DeleteIs DEF Due
  <1>8. Believed'
    <2> SUFFICES ASSUME NEW c \in Chunks, Ready(Version(c)), chroma[c] # None
                 PROVE  index[c] # None \/ \E w \in Versions : outbox'[Delete(w, c)] \in {"pending", "failed"}
      BY <1>1 DEF Believed, Ready, Due
    <2> QED
      BY <1>7 DEF Stores, Believed
  <1>9. NoDanglingVectors'
    <2> SUFFICES ASSUME NEW c \in Chunks, chroma[c] # None, rows[c] = None
                 PROVE  \E w \in Versions : outbox'[Delete(w, c)] \in {"pending", "failed"}
      BY <1>1 DEF NoDanglingVectors
    <2> QED
      BY <1>7 DEF Stores, NoDanglingVectors, Due
  <1>10. Readable' /\ PublishedAlone'
    BY <1>1 DEF Stores, Readable, PublishedAlone, Whole, HasRows, HasVectors
  <1> QED
    BY <1>4, <1>5, <1>6, <1>8, <1>9, <1>10 DEF Stores

\* What p does to the outbox is about its own run, and never takes back anything.
OutboxBy(p) ==
    \A e \in Events : outbox'[e] # outbox[e] =>
        /\ e.run = job[p]
        /\ \/ outbox[e] = "none" /\ outbox'[e] = "pending"
           \/ Due(e) /\ outbox'[e] \in {"succeeded", "failed"}

\* What it does to a store comes from an event of its run that is still to be done.
WrittenBy(p, c, x) ==
    /\ spc[p] # "idle"
    /\ \E e \in Events : Due(e) /\ e.run = job[p] /\ e.record = c /\ x = Sync!Effect(e)

ChromaBy(p) == \A c \in Chunks : chroma'[c] # chroma[c] => WrittenBy(p, c, chroma'[c])
IndexBy(p) == \A c \in Chunks : index'[c] # index[c] => WrittenBy(p, c, index'[c])

Writes(p) == OutboxBy(p) /\ ChromaBy(p) /\ IndexBy(p)

LEMMA NothingWritten ==
    ASSUME NEW p \in Processes, UNCHANGED <<outbox, chroma, index>>
    PROVE  Writes(p)
  BY DEF Writes, OutboxBy, ChromaBy, IndexBy

\* A step of the synchroniser keeps the stores, and what it is at.
LEMMA BusyStep ==
    ASSUME Typed, Order, Stores, Work, NEW p \in Processes, Busy(p)
    PROVE  Stores' /\ Working(p)' /\ Writes(p)
  <1> DEFINE Good == Stores' /\ Working(p)' /\ Writes(p)
  <1>1. /\ UNCHANGED <<lifecycle, relational>> /\ job' = job /\ spc[p] # "idle"
        /\ status' = status /\ active' = active /\ cached' = cached /\ rows' = rows
        /\ scope[p] = job[p] /\ job[p] \in Versions /\ Working(p)
    BY BusyIs, AtWork DEF lifecycle, relational, call, Typed, Paired, Work
  <1>2. ASSUME UNCHANGED <<outbox, chroma, index>>
        PROVE  Stores' /\ Writes(p)
    BY <1>1, <1>2, StoresKept, NothingWritten DEF SameReady
  <1>3. CASE Sync!List(p)
    <2>1. PICK S \in SUBSET Sync!Retryable(scope[p]) : todo' = [todo EXCEPT ![p] = S]
      BY <1>3, ListIs
    <2>2. /\ todo'[p] = S /\ spc'[p] = "apply" /\ UNCHANGED <<outbox, chroma, index>>
      BY <1>3, <2>1, ListIs DEF Typed, SyncProofs!Typed, SyncProofs!TypeOK
    <2>3. \A e \in S : Due(e) /\ e.run = job[p]
      BY <1>1, <2>1 DEF Sync!Retryable, Sync!Of, Due
    <2>4. Working(p)'
      BY <1>1, <2>2, <2>3 DEF Working, Due, SyncProofs!Handling
    <2> QED
      BY <1>2, <2>2, <2>4
  <1>4. ASSUME NEW e \in todo[p], Sync!Apply(p, e) \/ Sync!ApplyFails(p, e)
        PROVE  Good
    <2>1. e \in Events /\ Due(e) /\ e.run = job[p]
      BY <1>1 DEF Working, Typed, SyncProofs!Typed, SyncProofs!TypeOK
    <2>2. /\ chroma' \in {chroma, [chroma EXCEPT ![e.record] = Sync!Effect(e)]}
          /\ UNCHANGED <<outbox, index>>
          /\ todo'[p] = todo[p] \ {e} /\ event'[p] = e
          /\ spc'[p] \in {"record", "markFailed"}
          /\ spc'[p] = "record" => chroma' = [chroma EXCEPT ![e.record] = Sync!Effect(e)]
      BY <1>4 DEF Sync!Apply, Sync!ApplyFails, Sync!Take, Sync!Goto, Typed,
                  SyncProofs!Typed, SyncProofs!TypeOK
    <2>3. Stores'
      BY <1>1, <2>1, <2>2, ApplyStores
    <2>4. /\ e.record \in Chunks
          /\ \A c \in Chunks : chroma'[c] # chroma[c] =>
                c = e.record /\ chroma'[c] = Sync!Effect(e)
          /\ spc'[p] = "record" => (chroma'[e.record] = None <=> e.op = "delete")
      BY <2>1, <2>2, EventIs, NoneAssumption DEF Typed, SyncProofs!Typed, SyncProofs!TypeOK
    <2>5. Writes(p)
      BY <1>1, <2>1, <2>2, <2>4 DEF Writes, OutboxBy, ChromaBy, IndexBy, WrittenBy
    <2>6. Working(p)'
      BY <1>1, <2>1, <2>2, <2>4 DEF Working, Due, SyncProofs!Handling
    <2> QED
      BY <2>3, <2>5, <2>6
  <1>5. CASE Sync!Record(p)
    <2> DEFINE e == event[p]
    <2>1. /\ spc[p] = "record" /\ spc'[p] = "markSucceeded"
          /\ index' = [index EXCEPT ![e.record] = Sync!Effect(e)]
          /\ UNCHANGED <<outbox, chroma, todo, event>>
      BY <1>5 DEF Sync!Record, Sync!Goto, Sync!sweep, Typed, SyncProofs!Typed, SyncProofs!TypeOK
    <2>2. /\ e \in Events /\ Due(e) /\ e.run = job[p] /\ e \notin todo[p]
          /\ chroma[e.record] = None <=> e.op = "delete"
      BY <1>1, <2>1 DEF Working, SyncProofs!Handling
    <2>3. Stores'
      BY <1>1, <2>1, <2>2, RecordStores
    <2>4. /\ e.record \in Chunks
          /\ \A c \in Chunks : index'[c] # index[c] =>
                c = e.record /\ index'[c] = Sync!Effect(e)
          /\ index'[e.record] = None <=> e.op = "delete"
      BY <2>1, <2>2, EventIs, NoneAssumption DEF Typed, SyncProofs!Typed, SyncProofs!TypeOK
    <2>5. Writes(p)
      BY <1>1, <2>1, <2>2, <2>4 DEF Writes, OutboxBy, ChromaBy, IndexBy, WrittenBy
    <2>6. Working(p)'
      BY <1>1, <2>1, <2>2, <2>4 DEF Working, Due, SyncProofs!Handling
    <2> QED
      BY <2>3, <2>5, <2>6
  <1>6. CASE Sync!MarkSucceeded(p) \/ Sync!MarkFailed(p)
    <2>1. PICK e : e = event[p]
      OBVIOUS
    <2>2. PICK outcome \in {"succeeded", "failed"} :
            /\ outbox' = [outbox EXCEPT ![e] = outcome]
            /\ spc[p] = IF outcome = "succeeded" THEN "markSucceeded" ELSE "markFailed"
      BY <1>6, <2>1 DEF Sync!MarkSucceeded, Sync!MarkFailed, Sync!Mark
    <2>3. spc'[p] = "apply" /\ UNCHANGED <<chroma, index, todo>>
      BY <1>6 DEF Sync!MarkSucceeded, Sync!MarkFailed, Sync!Mark, Sync!Goto,
                  Typed, SyncProofs!Typed, SyncProofs!TypeOK
    <2>4. /\ e \in Events /\ Due(e) /\ e.run = job[p] /\ e \notin todo[p]
          /\ outcome = "succeeded" => /\ chroma[e.record] = None <=> e.op = "delete"
                                      /\ index[e.record] = None <=> e.op = "delete"
      BY <1>1, <2>1, <2>2 DEF Working, SyncProofs!Handling
    <2>5. Stores'
      BY <1>1, <2>2, <2>3, <2>4, MarkStores
    <2>6. \A d \in Events : d # e => outbox'[d] = outbox[d]
      BY <2>2, <2>4 DEF Typed, SyncProofs!Typed, SyncProofs!TypeOK
    <2>7. outbox'[e] = outcome
      BY <2>2, <2>4 DEF Typed, SyncProofs!Typed, SyncProofs!TypeOK
    <2>8. Writes(p)
      BY <2>3, <2>4, <2>6, <2>7 DEF Writes, OutboxBy, ChromaBy, IndexBy
    <2>9. todo[p] \subseteq Events
      BY DEF Typed, SyncProofs!Typed, SyncProofs!TypeOK
    <2>10. Working(p)'
      BY <1>1, <2>3, <2>4, <2>6, <2>9 DEF Working, Due, SyncProofs!Handling
    <2> QED
      BY <2>5, <2>8, <2>10
  <1>7. CASE Sync!RecordFails(p) \/ Sync!Count(p) \/ Sync!Raise(p)
    <2>1. UNCHANGED <<outbox, chroma, index, todo, event>>
      BY <1>7 DEF Sync!RecordFails, Sync!Count, Sync!Raise, Sync!stores, Sync!sweep
    <2>2. CASE Sync!RecordFails(p)
      <3>1. spc[p] = "record" /\ spc'[p] = "markFailed"
        BY <2>2 DEF Sync!RecordFails, Sync!Goto, Typed, SyncProofs!Typed, SyncProofs!TypeOK
      <3> QED
        BY <1>1, <1>2, <2>1, <3>1 DEF Working, Due, SyncProofs!Handling
    <2>3. CASE Sync!Raise(p)
      <3>1. spc'[p] = "failed"
        BY <2>3 DEF Sync!Raise, Sync!Goto, Typed, SyncProofs!Typed, SyncProofs!TypeOK
      <3> QED
        BY <1>1, <1>2, <2>1, <3>1 DEF Working, Due, SyncProofs!Handling
    <2>4. CASE Sync!Count(p)
      <3>1. spc'[p] = Sync!Judge(p) /\ todo[p] = {}
        BY <2>4 DEF Sync!Count, Sync!Goto, Typed, SyncProofs!Typed, SyncProofs!TypeOK
      <3>2. spc'[p] \in {"failed", "drained", "list", "left"}
        BY <3>1 DEF Sync!Judge
      <3>3. spc'[p] = "drained" => \A e \in Sync!Of(job[p]) : ~Due(e)
        BY <1>1, <3>1 DEF Sync!Judge, Sync!Retryable, Due
      <3>4. Working(p)'
        BY <1>1, <2>1, <3>1, <3>2, <3>3 DEF Working, Due, SyncProofs!Handling, Sync!Of
      <3> QED
        BY <1>2, <2>1, <3>4
    <2> QED
      BY <1>7, <2>2, <2>3, <2>4
  <1> QED
    BY <1>3, <1>4, <1>5, <1>6, <1>7 DEF Busy, Synchronise, SyncFails

-----------------------------------------------------------------------------
(* What an action does to the stores.                                      *)

Learnt == \A c \in Chunks : cached[c] # None => cached'[c] = cached[c]
ReadyBy(p) ==
    \A v \in Versions : /\ Ready(v) => status'[v] = "ready"
                        /\ v # job[p] => (Ready(v) <=> status'[v] = "ready")

LEMMA EnqueueWrites ==
    ASSUME Typed, NEW p \in Processes, NEW E, \A e \in E : e.run = job[p],
           Sync!Enqueue(E), UNCHANGED <<chroma, index>>
    PROVE  Writes(p)
  BY DEF Sync!Enqueue, Writes, OutboxBy, ChromaBy, IndexBy

LEMMA ActStores ==
    ASSUME Typed, Order, Stores, Work, Calls, NEW p \in Processes, Act(p)
    PROVE  Stores' /\ Writes(p) /\ Learnt /\ ReadyBy(p)
  <1> DEFINE Good == Stores' /\ Writes(p) /\ Learnt /\ ReadyBy(p)
  <1>1. ASSUME SameReady, UNCHANGED <<relational, stores>>
        PROVE  Good
    <2>1. Learnt /\ ReadyBy(p) /\ Writes(p)
      BY <1>1, NothingWritten DEF relational, stores, Learnt, ReadyBy, SameReady, Ready
    <2> QED
      BY <1>1, <2>1, StoresKept DEF relational, stores
  <1>2. ASSUME UNCHANGED <<status, active>>
        PROVE  SameReady
    BY <1>2 DEF SameReady
  <1>3. ASSUME \/ Prepare(p) \/ Skip(p) \/ Checkpoint(p) \/ Final(p) \/ Drained(p)
               \/ NotDrained(p) \/ Plan(p) \/ DocumentRefused(p) \/ Synced(p) \/ Return(p)
               \/ Raise(p) \/ Crash(p) \/ \E v \in Versions : Begin(p, v)
        PROVE  Good
    <2>1. UNCHANGED <<status, active, relational, stores>>
      BY <1>3, ReturnIs DEF Prepare, Skip, Checkpoint, Final, Enter, Drained, NotDrained, Plan,
           DocumentRefused, Synced, Return, Raise, Crash, Begin, lifecycle, relational, stores
    <2> QED
      BY <1>1, <1>2, <2>1
  <1>4. CASE Start(p) \/ MarkTagged(p) \/ MarkFailed(p)
    <2>1. UNCHANGED <<active, relational, stores>>
      BY <1>4 DEF Start, MarkTagged, MarkFailed
    <2>2. job[p] \in Versions
      BY <1>4, AtWork DEF Start, MarkTagged, MarkFailed
    <2>3. \/ UNCHANGED status
          \/ /\ status[job[p]] \in {"absent", "failed", "processing", "tagged"}
             /\ \E s \in {"processing", "tagged", "failed"} :
                    status' = [status EXCEPT ![job[p]] = s]
      BY <1>4 DEF Start, MarkTagged, MarkFailed, IsActive
    <2>4. SameReady
      BY <2>1, <2>2, <2>3 DEF SameReady, Typed, StoresTyped
    <2> QED
      BY <1>1, <2>1, <2>4
  <1>5. CASE Commit(p)
    <2>1. got[p][at[p]] \in Results /\ job[p] \in Versions /\ Chunk(p) \in ChunksOf(job[p])
      <3>1. got[p][at[p]] \in Results \union {None}
        BY DEF Typed, FieldsTyped
      <3> QED
        BY <1>5, <3>1, AtWork DEF Commit, Calls, Current
    <2>2. Writes(p)
      BY <1>5, <2>1, UpsertIs, EnqueueWrites DEF Commit
    <2>3. Learnt /\ ReadyBy(p)
      BY <1>5 DEF Commit, lifecycle, Learnt, ReadyBy, Ready
    <2> QED
      BY <1>5, <2>2, <2>3, CommitStores
  <1>6. CASE Document(p)
    <2>1. job[p] \in Versions /\ stale[p] \subseteq Chunks
      BY <1>6, AtWork DEF Document, Typed, FieldsTyped
    <2>2. Writes(p)
      BY <1>6, <2>1, DeleteIs, EnqueueWrites DEF Document
    <2>3. Learnt /\ ReadyBy(p)
      BY <1>6 DEF Document, lifecycle, Learnt, ReadyBy, Ready
    <2> QED
      BY <1>6, <2>2, <2>3, DocumentStores
  <1>7. CASE Complete(p)
    <2>1. UNCHANGED <<status, active, rows, outbox, chroma, index>>
      BY <1>7 DEF Complete, lifecycle, stores
    <2>2. Learnt
      BY <1>7, AtWork DEF Complete, Learnt, Typed, StoresTyped
    <2>3. Stores'
      BY <1>2, <2>1, <2>2, StoresKept DEF Learnt
    <2> QED
      BY <2>1, <2>2, <2>3, NothingWritten DEF ReadyBy, Ready
  <1>8. CASE MarkReady(p)
    <2>1. UNCHANGED <<cached, outbox, chroma, index>>
      BY <1>8 DEF MarkReady, relational, stores
    <2>2. ReadyBy(p)
      BY <1>8, ReadyOrder DEF ReadyBy, Ready
    <2> QED
      BY <1>8, <2>1, <2>2, ReadyStores, NothingWritten DEF Learnt
  <1>9. CASE Busy(p)
    <2>1. UNCHANGED <<lifecycle, relational>>
      BY <1>9, BusyIs
    <2> QED
      BY <1>9, <2>1, BusyStep DEF lifecycle, relational, Learnt, ReadyBy, Ready
  <1> QED
    BY <1>3, <1>4, <1>5, <1>6, <1>7, <1>8, <1>9 DEF Act, Step, Busy

-----------------------------------------------------------------------------
(* The calls of the others.                                                *)

\* Two calls whose versions are both at work are one.
LEMMA OneAtWork ==
    ASSUME Typed, Order, NEW p \in Processes, NEW q \in Processes,
           pc[p] \notin {"idle", "start"}, ~Ready(job[p]),
           pc[q] \notin {"idle", "start"}, ~Ready(job[q])
    PROVE  p = q
  <1>1. /\ job[p] \in Versions /\ job[q] \in Versions /\ job[p] # None
        /\ IsActive(job[p]) /\ IsActive(job[q])
    BY AtWork DEF Order, Running, Ready, IsActive
  <1>2. ~(job[p] > job[q]) /\ ~(job[q] > job[p])
    BY <1>1 DEF Order, ActiveIsNewest, IsActive
  <1>3. job[p] = job[q]
    BY <1>1, <1>2, Numbered
  <1> QED
    BY <1>1, <1>3 DEF Order, JobsApart

\* A vector that becomes known belongs to the version of the call that wrote it,
\* and that version is at work.
LEMMA Indexed ==
    ASSUME Typed, Order, Stores, NEW p \in Processes, IndexBy(p), NEW c \in Chunks,
           index'[c] # None, index[c] = None
    PROVE  /\ Version(c) = job[p] /\ ~Ready(job[p])
           /\ pc[p] \notin {"idle", "start"}
  <1>1. PICK e \in Events : /\ spc[p] # "idle" /\ Due(e) /\ e.run = job[p] /\ e.record = c
                            /\ index'[c] = Sync!Effect(e)
    BY DEF IndexBy, WrittenBy
  <1>2. ~Ready(e.run) /\ (e.op = "upsert" => Version(e.record) = e.run)
    BY <1>1, UnderWay
  <1>3. e.op = "upsert"
    BY <1>1, EventIs
  <1> QED
    BY <1>1, <1>2, <1>3 DEF Typed, Paired

LEMMA OtherWorks ==
    ASSUME Typed, Order, Stores, Work, NEW p \in Processes, NEW q \in Processes \ {p},
           Writes(p), Same(q)
    PROVE  Working(q)'
  <1>1. /\ spc'[q] = spc[q] /\ todo'[q] = todo[q] /\ event'[q] = event[q] /\ job'[q] = job[q]
        /\ Working(q)
    BY DEF Same, Work
  <1>2. CASE spc[q] = "idle"
    BY <1>1, <1>2 DEF Working, SyncProofs!Handling
  <1>3. CASE spc[q] # "idle"
    <2>1. job[q] # job[p]
      BY <1>3, AtWork DEF Order, JobsApart, Typed, Paired
    <2>2. \A e \in Events : e.run = job[q] => outbox'[e] = outbox[e]
      BY <2>1 DEF Writes, OutboxBy
    <2>3. todo[q] \subseteq Events
      BY DEF Typed, SyncProofs!Typed, SyncProofs!TypeOK
    <2>4. ASSUME spc[q] \in SyncProofs!Handling
          PROVE  /\ (chroma[event[q].record] = None <=> event[q].op = "delete") =>
                        (chroma'[event[q].record] = None <=> event[q].op = "delete")
                 /\ (index[event[q].record] = None <=> event[q].op = "delete") =>
                        (index'[event[q].record] = None <=> event[q].op = "delete")
      <3> DEFINE d == event[q]
                 c == d.record
      <3>1. d \in Events /\ Due(d) /\ d.run = job[q] /\ c \in Chunks
        BY <1>1, <2>4, EventIs DEF Working
      <3>2. ~Ready(d.run) /\ outbox[d] # "none"
        BY <1>3, <3>1, UnderWay DEF Due
      <3> HIDE DEF d
      <3>3. ASSUME NEW x, WrittenBy(p, c, x)
            PROVE  x = None <=> d.op = "delete"
        <4>1. PICK e \in Events : /\ spc[p] # "idle" /\ Due(e) /\ e.run = job[p]
                                  /\ e.record = c /\ x = Sync!Effect(e)
          BY <3>3 DEF WrittenBy
        <4>2. ~Ready(e.run)
          BY <4>1, UnderWay
        <4>3. d.op = e.op
          BY <3>1, <3>2, <4>1, <4>2, Agreed
        <4> QED
          BY <4>1, <4>3, EventIs, NoneAssumption
      <3>4. chroma'[c] # chroma[c] => (chroma'[c] = None <=> d.op = "delete")
        BY <3>1, <3>3 DEF Writes, ChromaBy
      <3>5. index'[c] # index[c] => (index'[c] = None <=> d.op = "delete")
        BY <3>1, <3>3 DEF Writes, IndexBy
      <3> QED
        BY <3>4, <3>5 DEF d
    <2> QED
      BY <1>1, <2>2, <2>3, <2>4 DEF Working, Due, Sync!Of, SyncProofs!Handling
  <1> QED
    BY <1>2, <1>3

LEMMA OtherCalls ==
    ASSUME Typed, Order, Stores, Calls, NEW p \in Processes, NEW q \in Processes \ {p},
           Writes(p), Learnt, ReadyBy(p), Same(q), pc[q] # "idle"
    PROVE  Chunkwise(q)' /\ Current(q)' /\ Cleaning(q)'
  <1>1. /\ pc'[q] = pc[q] /\ job'[q] = job[q] /\ at'[q] = at[q] /\ got'[q] = got[q]
        /\ claimed'[q] = claimed[q] /\ stale'[q] = stale[q]
        /\ Chunkwise(q) /\ Current(q) /\ Cleaning(q)
    BY DEF Same, Calls
  <1>2. job[q] \in Versions /\ job[q] # None /\ Chunk(q) \in Chunks /\ job[q] # job[p]
        /\ at[q] \in Positions
    BY AtWork DEF Order, JobsApart
  <1>3. \A e \in Events : e.run = job[q] => outbox'[e] = outbox[e]
    BY <1>2 DEF Writes, OutboxBy
  <1>4. Ready(job[q]) <=> status'[job[q]] = "ready"
    BY <1>2 DEF ReadyBy
  <1>5. Chunkwise(q)'
    <2> SUFFICES ASSUME NEW n \in Positions
                 PROVE  /\ Known(q, n) => /\ got[q][n] # None /\ cached'[<<job[q], n>>] = got[q][n]
                                          /\ outbox'[Own(q, n)] # "none"
                        /\ Passed(q, n) => outbox'[Own(q, n)] = "succeeded"
      BY <1>1 DEF Chunkwise, Known, Passed, Own
    <2>1. <<job[q], n>> \in Chunks
      BY <1>2, ChunksOfIs
    <2>2. got[q][n] # None => Own(q, n) \in Events /\ Own(q, n).run = job[q]
      <3>1. got[q][n] \in Results \union {None}
        BY DEF Typed, FieldsTyped
      <3> QED
        BY <1>2, <3>1, ChunksOfIs, UpsertIs DEF Own
    <2>3. Passed(q, n) => Known(q, n)
      BY DEF Passed, Known
    <2> QED
      BY <1>1, <1>3, <2>1, <2>2, <2>3 DEF Chunkwise, Learnt
  <1>6. Current(q)'
    <2>1. Chunk(q)' = Chunk(q)
      BY <1>1 DEF Chunk
    <2>2. pc[q] \in {"commit", "complete"} =>
            got[q][at[q]] # None /\ got[q][at[q]] \in Results
            /\ Own(q, at[q]) \in Events /\ Own(q, at[q]).run = job[q]
      <3>1. got[q][at[q]] \in Results \union {None}
        BY DEF Typed, FieldsTyped
      <3> QED
        BY <1>1, <1>2, <3>1, ChunksOfIs, UpsertIs DEF Own, Current
    <2>3. Own(q, at[q])' = Own(q, at[q])
      BY <1>1 DEF Own
    <2> QED
      BY <1>1, <1>2, <1>3, <1>4, <2>1, <2>2, <2>3 DEF Current, Learnt, Ready
  <1>7. Cleaning(q)'
    <2>1. ASSUME pc[q] \in Planned, ~Ready(job[q]), NEW c \in Chunks,
                 Version(c) # job[q], index'[c] # None
          PROVE  c \in stale[q]
      <3>1. CASE index[c] # None
        BY <1>1, <2>1, <3>1 DEF Cleaning
      <3>2. CASE index[c] = None
        <4>1. ~Ready(job[p]) /\ pc[p] \notin {"idle", "start"}
          BY <2>1, <3>2, Indexed DEF Writes
        <4>2. p = q
          BY <2>1, <4>1, OneAtWork DEF Planned, Late
        <4> QED
          BY <4>2
      <3> QED
        BY <3>1, <3>2
    <2>2. \A c \in stale[q] : Delete(job[q], c) \in Events /\ Delete(job[q], c).run = job[q]
      BY <1>2, DeleteIs DEF Typed, FieldsTyped
    <2> QED
      BY <1>1, <1>3, <1>4, <2>1, <2>2 DEF Cleaning, Ready, Due, Sync!Of
  <1> QED
    BY <1>5, <1>6, <1>7

-----------------------------------------------------------------------------
(* The call that acts.                                                     *)

\* A call whose synchroniser is idle, or just begins, has nothing under way.
LEMMA OwnWorks ==
    ASSUME Typed, Order, Stores, Work, NEW p \in Processes, Act(p), ~Busy(p)
    PROVE  Working(p)'
  <1>1. spc'[p] \in {"idle", "list"} /\ todo'[p] = {}
    <2>1. ASSUME spc[p] = "idle", UNCHANGED <<spc, todo>>
          PROVE  spc'[p] \in {"idle", "list"} /\ todo'[p] = {}
      BY <2>1 DEF Work, Working
    <2>2. CASE Sync!Return(p) \/ Sync!Crash(p)
      BY <2>2, ReturnIs
    <2>3. CASE Checkpoint(p) \/ Final(p)
      <3>1. spc[p] = "idle"
        BY <2>3 DEF Checkpoint, Final, Typed, Paired
      <3> QED
        BY <2>3, <3>1 DEF Checkpoint, Final, Enter, Work, Working,
           Typed, SyncProofs!Typed, SyncProofs!TypeOK
    <2>4. CASE \/ Start(p) \/ Prepare(p) \/ Skip(p) \/ Commit(p) \/ Complete(p) \/ Plan(p)
               \/ Document(p) \/ DocumentRefused(p) \/ MarkTagged(p) \/ MarkReady(p)
               \/ MarkFailed(p) \/ Return(p) \/ Raise(p)
               \/ \E v \in Versions : Begin(p, v)
      <3>1. UNCHANGED sync
        BY <2>4 DEF Start, Prepare, Skip, Commit, Complete, Plan, Document, DocumentRefused,
           MarkTagged, MarkReady, MarkFailed, Return, Raise, Begin
      <3>2. pc[p] \notin {"draining", "syncing"}
        BY <2>4 DEF Start, Prepare, Skip, Commit, Complete, Plan, Document, DocumentRefused,
           MarkTagged, MarkReady, MarkFailed, Return, Raise, Begin
      <3>3. spc[p] = "idle"
        BY <3>2 DEF Typed, Paired
      <3> QED
        BY <2>1, <3>1, <3>3 DEF sync
    <2> QED
      BY <2>1, <2>2, <2>3, <2>4
      DEF Act, Step, Busy, Drained, NotDrained, Synced, Crash, sync
  <1> QED
    BY <1>1 DEF Working, SyncProofs!Handling

\* What is said of the events of p's chunks survives what p does to the stores.
LEMMA Lasting ==
    ASSUME Typed, NEW p \in Processes, Writes(p), NEW e \in Events
    PROVE  /\ outbox[e] # "none" => outbox'[e] # "none"
           /\ outbox[e] = "succeeded" => outbox'[e] = "succeeded"
  BY DEF Writes, OutboxBy, Due

\* So what p is through with it stays through with.
LEMMA OwnChunks ==
    ASSUME Typed, NEW p \in Processes, pc[p] # "idle", Chunkwise(p), Writes(p), Learnt,
           job'[p] = job[p],
           \A n \in Positions : /\ Known(p, n)' => Known(p, n) /\ got'[p][n] = got[p][n]
                                /\ Passed(p, n)' => Passed(p, n)
    PROVE  Chunkwise(p)'
  <1> SUFFICES ASSUME NEW n \in Positions
               PROVE  /\ Known(p, n)' => /\ got'[p][n] # None
                                          /\ cached'[<<job'[p], n>>] = got'[p][n]
                                          /\ outbox'[Own(p, n)'] # "none"
                      /\ Passed(p, n)' => outbox'[Own(p, n)'] = "succeeded"
    BY DEF Chunkwise
  <1>1. Passed(p, n)' => Known(p, n)'
    BY DEF Passed, Known
  <1>2. CASE Known(p, n)'
    <2>1. Known(p, n) /\ got'[p][n] = got[p][n]
      BY <1>2
    <2>2. /\ got[p][n] # None /\ cached[<<job[p], n>>] = got[p][n]
          /\ outbox[Own(p, n)] # "none"
          /\ Passed(p, n) => outbox[Own(p, n)] = "succeeded"
      BY <2>1 DEF Chunkwise
    <2>3. <<job[p], n>> \in Chunks /\ Own(p, n) \in Events
      <3>1. got[p][n] \in Results \union {None}
        BY DEF Typed, FieldsTyped
      <3> QED
        BY <2>2, <3>1, AtWork, ChunksOfIs, UpsertIs DEF Own
    <2>4. Own(p, n)' = Own(p, n)
      BY <2>1 DEF Own
    <2> QED
      BY <2>1, <2>2, <2>3, <2>4, Lasting DEF Learnt
  <1> QED
    BY <1>1, <1>2

\* A call that has left, or has just begun, has nothing to remember.
LEMMA FreshCall ==
    ASSUME NEW p \in Processes, pc'[p] = "start", at'[p] = 1
    PROVE  Chunkwise(p)' /\ Current(p)' /\ Cleaning(p)'
  <1>1. \A n \in Positions : ~(n < at'[p])
    BY SizeAssumption DEF Positions
  <1> QED
    BY <1>1 DEF Chunkwise, Known, Passed, Current, Cleaning, Through, Planned, Late

\* What Calls says of p holds after the step.
CallKept(p) ==
    /\ pc'[p] = "idle" => at'[p] = 1
    /\ pc'[p] # "idle" => Chunkwise(p)' /\ Current(p)' /\ Cleaning(p)'

\* A call that fails, or is done, or goes on to its first chunk.
LEMMA PlainCall ==
    ASSUME Typed, NEW p \in Processes, pc[p] # "idle", Chunkwise(p), Writes(p), Learnt,
           Goto(p, "fail") \/ Goto(p, "done") \/ Goto(p, "prepare"), UNCHANGED call
    PROVE  CallKept(p)
  <1>1. pc'[p] \in {"fail", "done", "prepare"} /\ UNCHANGED <<job, at, got>>
    BY DEF Goto, Typed, FieldsTyped, call
  <1>2. \A n \in Positions : /\ Known(p, n)' => Known(p, n)
                             /\ Passed(p, n)' => Passed(p, n)
    BY <1>1 DEF Known, Passed, Through, Late
  <1>3. Chunkwise(p)'
    BY <1>1, <1>2, OwnChunks
  <1> QED
    BY <1>1, <1>3 DEF CallKept, Current, Cleaning, Planned, Late

LEMMA LeftCall ==
    ASSUME Typed, NEW p \in Processes, Leave(p)
    PROVE  CallKept(p)
  BY LeaveIs DEF CallKept

\* The call from its beginning to the commit of a chunk.
LEMMA EarlyCall ==
    ASSUME Typed, Stores, Calls, NEW p \in Processes, Writes(p), Learnt,
           \/ \E v \in Versions : Begin(p, v)
           \/ Start(p) \/ Prepare(p) \/ Skip(p) \/ Commit(p)
    PROVE  CallKept(p)
  <1>1. CASE \E v \in Versions : Begin(p, v)
    <2>1. pc'[p] = "start" /\ at'[p] = 1
      BY <1>1 DEF Begin, Goto, Typed, FieldsTyped, Calls
    <2> QED
      BY <2>1, FreshCall DEF CallKept
  <1>2. CASE Start(p)
    <2>1. pc[p] # "idle" /\ Chunkwise(p)
      BY <1>2 DEF Start, Calls
    <2>2. CASE Leave(p)
      BY <2>2, LeftCall
    <2>3. CASE Goto(p, "prepare") /\ UNCHANGED call
      BY <2>1, <2>3, PlainCall
    <2> QED
      BY <1>2, <2>2, <2>3 DEF Start, Resume
  <1>3. CASE Skip(p)
    BY <1>3, PlainCall DEF Skip, Calls
  <1>4. CASE Prepare(p)
    <2>1. /\ pc[p] = "prepare" /\ pc'[p] = "commit" /\ UNCHANGED <<job, at, cached, status>>
          /\ claimed'[p] = (cached[Chunk(p)] = None)
      BY <1>4 DEF Prepare, Goto, Typed, FieldsTyped, relational, lifecycle
    <2>2. at[p] \in Positions /\ Chunk(p) \in ChunksOf(job[p]) /\ job[p] \in Versions
          /\ Chunk(p) \in Chunks
      BY <2>1, AtWork
    <2>3. PICK r \in (IF cached[Chunk(p)] # None THEN {cached[Chunk(p)]} ELSE Results) :
            got' = [got EXCEPT ![p][at[p]] = r]
      BY <1>4 DEF Prepare
    <2>4. /\ got'[p][at[p]] = r /\ r # None
          /\ \A n \in Positions : n # at[p] => got'[p][n] = got[p][n]
      BY <2>2, <2>3, NoneAssumption DEF Typed, FieldsTyped
    <2>5. Chunkwise(p)'
      <3>1. ASSUME NEW n \in Positions
            PROVE  /\ Known(p, n)' => Known(p, n) /\ got'[p][n] = got[p][n]
                   /\ Passed(p, n)' => Passed(p, n)
        <4>1. Known(p, n)' <=> n < at[p]
          BY <2>1 DEF Known, Through, Late
        <4>2. Passed(p, n)' <=> n < at[p]
          BY <2>1 DEF Passed, Through, Late
        <4>3. n < at[p] => n # at[p]
          BY <2>2 DEF Positions
        <4> QED
          BY <2>4, <4>1, <4>2, <4>3 DEF Known, Passed
      <3> QED
        BY <2>1, <3>1, OwnChunks DEF Calls
    <2>6. Ready(job[p]) => cached[Chunk(p)] # None
      BY <2>2 DEF Stores, Finished
    <2>7. cached[Chunk(p)] # None => cached[Chunk(p)] = r
      BY <2>3
    <2>8. Current(p)'
      <3>1. Chunk(p)' = Chunk(p)
        BY <2>1 DEF Chunk
      <3> QED
        BY <2>1, <2>4, <2>6, <2>7, <3>1 DEF Current, Ready
    <2> QED
      BY <2>1, <2>5, <2>8 DEF CallKept, Cleaning, Planned, Late
  <1>5. CASE Commit(p)
    <2>1. /\ pc[p] = "commit" /\ pc'[p] = "complete" /\ UNCHANGED <<job, at, got, claimed, cached, status>>
      BY <1>5, GotoIs DEF Commit, Labels, call, lifecycle
    <2>2. Chunkwise(p)'
      <3>1. \A n \in Positions : /\ Known(p, n)' => Known(p, n)
                                 /\ Passed(p, n)' => Passed(p, n)
        BY <2>1 DEF Known, Passed, Through, Late
      <3> QED
        BY <2>1, <3>1, OwnChunks DEF Calls
    <2>3. Current(p)
      BY <2>1 DEF Calls
    <2>4. Own(p, at[p]) \in Events /\ Own(p, at[p]) = Upsert(job[p], Chunk(p), got[p][at[p]])
      <3>1. got[p][at[p]] \in Results \union {None} /\ at[p] \in Positions
        BY DEF Typed, FieldsTyped
      <3>2. job[p] \in Versions
        BY <2>1, AtWork
      <3> QED
        BY <2>1, <2>3, <3>1, <3>2, ChunksOfIs, UpsertIs DEF Current, Own, Chunk
    <2>5. outbox'[Own(p, at[p])] # "none"
      BY <1>5, <2>4 DEF Commit, Sync!Enqueue
    <2>6. Chunk(p)' = Chunk(p) /\ Own(p, at[p])' = Own(p, at[p])
      BY <2>1 DEF Chunk, Own
    <2>7. Current(p)'
      BY <2>1, <2>3, <2>5, <2>6 DEF Current, Ready
    <2> QED
      BY <2>1, <2>2, <2>7 DEF CallKept, Cleaning, Planned, Late
  <1> QED
    BY <1>1, <1>2, <1>3, <1>4, <1>5

\* From there to the checkpoint of the chunk.
LEMMA ChunkCall ==
    ASSUME Typed, Work, Calls, NEW p \in Processes, Writes(p), Learnt,
           Complete(p) \/ Checkpoint(p) \/ Drained(p) \/ NotDrained(p)
    PROVE  CallKept(p)
  <1>0. pc[p] # "idle" /\ Chunkwise(p)
    BY DEF Complete, Checkpoint, Drained, NotDrained, Calls
  <1>1. CASE NotDrained(p)
    BY <1>0, <1>1, PlainCall DEF NotDrained
  <1>2. CASE Complete(p) /\ Goto(p, "fail")
    BY <1>0, <1>2, PlainCall DEF Complete
  <1>3. CASE Complete(p) /\ ~Goto(p, "fail")
    <2>1. /\ pc[p] = "complete" /\ pc'[p] = "checkpoint"
          /\ UNCHANGED <<job, at, got, outbox>> /\ Current(p)
      BY <1>3, GotoIs DEF Complete, Labels, call, stores, Calls
    <2>2. /\ at[p] \in Positions /\ Chunk(p) \in Chunks /\ Chunk(p) = <<job[p], at[p]>>
      BY <2>1, AtWork
    <2>3. cached'[Chunk(p)] = got[p][at[p]]
      <3>1. CASE claimed[p]
        BY <1>3, <2>2, <3>1 DEF Complete, Typed, StoresTyped
      <3>2. CASE ~claimed[p]
        BY <1>3, <2>1, <3>2 DEF Complete, Current
      <3> QED
        BY <3>1, <3>2
    <2>4. got[p][at[p]] # None /\ outbox[Own(p, at[p])] # "none"
      BY <2>1 DEF Current
    <2> SUFFICES ASSUME NEW n \in Positions
                 PROVE  /\ Known(p, n)' => /\ got[p][n] # None
                                           /\ cached'[<<job[p], n>>] = got[p][n]
                                           /\ outbox[Own(p, n)] # "none"
                        /\ Passed(p, n)' => outbox[Own(p, n)] = "succeeded"
      BY <2>1 DEF CallKept, Chunkwise, Own, Current, Cleaning, Planned, Late
    <2>5. /\ Known(p, n)' <=> (n < at[p] \/ n = at[p])
          /\ Passed(p, n)' <=> n < at[p]
      BY <2>1 DEF Known, Passed, Through, Late
    <2>6. ASSUME n < at[p]
          PROVE  /\ got[p][n] # None
                 /\ cached'[<<job[p], n>>] = got[p][n]
                 /\ outbox[Own(p, n)] = "succeeded"
      <3>1. got[p][n] # None /\ cached[<<job[p], n>>] = got[p][n]
            /\ outbox[Own(p, n)] = "succeeded"
        BY <1>0, <2>6 DEF Chunkwise, Known, Passed
      <3>2. <<job[p], n>> \in Chunks
        BY <1>0, AtWork, ChunksOfIs
      <3> QED
        BY <3>1, <3>2 DEF Learnt
    <2> QED
      BY <2>2, <2>3, <2>4, <2>5, <2>6
  <1>4. CASE Checkpoint(p)
    <2>1. /\ pc[p] = "checkpoint" /\ pc'[p] = "draining" /\ UNCHANGED <<job, at, got>>
      BY <1>4, GotoIs DEF Checkpoint, Enter, Labels, call
    <2>2. \A n \in Positions : /\ Known(p, n)' => Known(p, n)
                               /\ Passed(p, n)' => Passed(p, n)
      BY <2>1 DEF Known, Passed, Through, Late
    <2>3. Chunkwise(p)'
      BY <1>0, <2>1, <2>2, OwnChunks
    <2> QED
      BY <2>1, <2>3 DEF CallKept, Current, Cleaning, Planned, Late
  <1>5. CASE Drained(p)
    <2>1. /\ pc[p] = "draining" /\ spc[p] = "drained" /\ UNCHANGED <<job, got, cached, outbox>>
          /\ at[p] \in Nat
          /\ IF at[p] < Size THEN pc'[p] = "prepare" /\ at'[p] = at[p] + 1
                             ELSE pc'[p] = "plan" /\ at'[p] = at[p]
      BY <1>5, ReturnIs DEF Drained, Goto, relational, stores, Typed, FieldsTyped, Positions
    <2>2. \A e \in Sync!Of(job[p]) : ~Due(e)
      BY <2>1 DEF Work, Working
    <2> SUFFICES ASSUME NEW n \in Positions
                 PROVE  /\ Known(p, n)' => /\ got[p][n] # None
                                           /\ cached[<<job[p], n>>] = got[p][n]
                                           /\ outbox[Own(p, n)] # "none"
                        /\ Passed(p, n)' => outbox[Own(p, n)] = "succeeded"
      BY <2>1 DEF CallKept, Chunkwise, Own, Current, Cleaning, Planned, Late
    <2>3. Known(p, n)' \/ Passed(p, n)' => n < at[p] \/ n = at[p]
      <3>1. n \in Nat /\ n <= Size
        BY SizeAssumption DEF Positions
      <3>2. CASE at[p] < Size
        BY <2>1, <3>1, <3>2 DEF Known, Passed, Through, Late
      <3>3. CASE ~(at[p] < Size)
        BY <2>1, <3>1, <3>3, SizeAssumption
      <3> QED
        BY <3>2, <3>3
    <2>4. ASSUME n < at[p] \/ n = at[p]
          PROVE  /\ got[p][n] # None /\ cached[<<job[p], n>>] = got[p][n]
                 /\ outbox[Own(p, n)] = "succeeded"
      <3>1. got[p][n] # None /\ cached[<<job[p], n>>] = got[p][n]
            /\ outbox[Own(p, n)] # "none"
        BY <1>0, <2>1, <2>4 DEF Chunkwise, Known
      <3>2. Own(p, n) \in Sync!Of(job[p]) /\ Own(p, n) \in Events
        <4>1. got[p][n] \in Results \union {None}
          BY DEF Typed, FieldsTyped
        <4> QED
          BY <1>0, <3>1, <4>1, AtWork, ChunksOfIs, UpsertIs DEF Own, Sync!Of
      <3>3. outbox[Own(p, n)] \in {"none", "pending", "failed", "succeeded"}
        BY <3>2 DEF Typed, SyncProofs!Typed, SyncProofs!TypeOK
      <3> QED
        BY <2>2, <3>1, <3>2, <3>3 DEF Due
    <2> QED
      BY <2>3, <2>4
  <1> QED
    BY <1>1, <1>2, <1>3, <1>4, <1>5

\* From the plan to the end of the last synchronisation.
LEMMA LateCall ==
    ASSUME Typed, Order, Work, Calls, NEW p \in Processes, Writes(p), Learnt,
           Plan(p) \/ Document(p) \/ MarkTagged(p) \/ Final(p) \/ Synced(p)
    PROVE  CallKept(p)
  <1>0. pc[p] \in {"plan", "document", "tag", "final", "syncing"} /\ Chunkwise(p) /\ Cleaning(p)
    BY DEF Plan, Document, MarkTagged, Final, Synced, Calls
  <1>1. ASSUME UNCHANGED <<job, at, got>>, pc'[p] \in Planned
        PROVE  Chunkwise(p)' /\ Current(p)'
    <2>1. \A n \in Positions : /\ Known(p, n)' => Known(p, n)
                               /\ Passed(p, n)' => Passed(p, n)
      BY <1>0, <1>1 DEF Known, Passed, Through, Late
    <2>2. Chunkwise(p)'
      BY <1>0, <1>1, <2>1, OwnChunks
    <2> QED
      BY <1>1, <2>2 DEF Current, Planned, Late
  <1>2. CASE Plan(p)
    <2>1. /\ pc'[p] = "document" /\ UNCHANGED <<job, at, got, index>>
          /\ stale'[p] = {c \in Chunks : index[c] # None /\ Version(c) # job[p]}
      BY <1>2 DEF Plan, Goto, Typed, FieldsTyped, stores
    <2>2. Cleaning(p)'
      BY <2>1 DEF Cleaning
    <2> QED
      BY <1>1, <2>1, <2>2 DEF CallKept, Planned
  <1>3. CASE Document(p)
    <2>1. /\ pc[p] = "document" /\ pc'[p] = "tag" /\ UNCHANGED <<call, job, at, got, index, status, stale>>
      BY <1>3, GotoIs DEF Document, Labels, call, lifecycle
    <2>2. job[p] \in Versions /\ stale[p] \subseteq Chunks
      BY <1>0, AtWork DEF Typed, FieldsTyped
    <2>3. \A c \in stale[p] : outbox'[Delete(job[p], c)] # "none"
      BY <1>3, <2>2, DeleteIs DEF Document, Sync!Enqueue
    <2>4. \A c \in Chunks : ~Ready(job[p]) /\ Version(c) # job[p] /\ index[c] # None => c \in stale[p]
      BY <1>0, <2>1 DEF Cleaning, Planned
    <2>5. Cleaning(p)'
      BY <2>1, <2>3, <2>4 DEF Cleaning, Ready
    <2> QED
      BY <1>1, <2>1, <2>5 DEF CallKept, Planned
  <1>4. ASSUME pc[p] \in Planned \ {"document"}, pc'[p] \in Planned \ {"document"},
               UNCHANGED <<job, at, got, stale, outbox, index>>,
               ~Ready(job[p])' => ~Ready(job[p]),
               pc'[p] = "ready" => \A e \in Sync!Of(job[p]) : ~Due(e)
        PROVE  CallKept(p)
    <2>1. /\ \A c \in Chunks : ~Ready(job[p]) /\ Version(c) # job[p] /\ index[c] # None => c \in stale[p]
          /\ \A c \in stale[p] : outbox[Delete(job[p], c)] # "none"
      BY <1>0, <1>4 DEF Cleaning
    <2>2. Cleaning(p)'
      BY <1>4, <2>1 DEF Cleaning, Due, Sync!Of
    <2> QED
      BY <1>1, <1>4, <2>2 DEF CallKept, Planned, Late
  <1>5. CASE MarkTagged(p)
    <2>1. CASE Leave(p)
      BY <2>1, LeftCall
    <2>2. CASE ~Leave(p)
      <3>1. /\ pc[p] = "tag" /\ pc'[p] = "final" /\ UNCHANGED <<job, at, got, stale, outbox, index>>
            /\ IsActive(job[p])
        BY <1>5, <2>2, GotoIs DEF MarkTagged, Resume, Labels, call, stores
      <3>2. ~Ready(job[p])
        BY <3>1 DEF IsActive, Ready
      <3> QED
        BY <1>4, <3>1, <3>2 DEF Planned, Late
    <2> QED
      BY <2>1, <2>2
  <1>6. CASE Final(p)
    <2>1. /\ pc[p] = "final" /\ pc'[p] = "syncing" /\ UNCHANGED <<job, at, got, stale, outbox, index, status>>
      BY <1>6, GotoIs DEF Final, Enter, Labels, call, stores, lifecycle
    <2> QED
      BY <1>4, <2>1 DEF Planned, Late, Ready
  <1>7. CASE Synced(p)
    <2>1. /\ pc[p] = "syncing" /\ UNCHANGED <<status, outbox, index>>
      BY <1>7, ReturnIs DEF Synced, lifecycle, stores
    <2>2. CASE spc[p] = "left"
      <3>1. Leave(p)
        BY <1>7, <2>2 DEF Synced, Resume
      <3> QED
        BY <3>1, LeftCall
    <2>3. CASE spc[p] = "failed"
      <3>1. Goto(p, "fail") /\ UNCHANGED call
        BY <1>7, <2>3 DEF Synced, Resume
      <3> QED
        BY <1>0, <3>1, PlainCall
    <2>4. CASE spc[p] = "drained"
      <3>1. Goto(p, "ready") /\ UNCHANGED call
        BY <1>7, <2>4 DEF Synced, Resume
      <3>2. pc'[p] = "ready" /\ UNCHANGED <<job, at, got, stale>>
        BY <3>1, GotoIs DEF Labels, call
      <3>3. \A e \in Sync!Of(job[p]) : ~Due(e)
        BY <2>4 DEF Work, Working
      <3> QED
        BY <1>4, <2>1, <3>2, <3>3 DEF Planned, Late, Ready
    <2> QED
      BY <1>7, <2>2, <2>3, <2>4 DEF Synced
  <1> QED
    BY <1>2, <1>3, <1>5, <1>6, <1>7

\* While the synchroniser is at work, only what the call waits for moves.
LEMMA BusyCall ==
    ASSUME Typed, Order, Stores, Calls, NEW p \in Processes, Writes(p), Learnt, Busy(p)
    PROVE  CallKept(p)
  <1>1. /\ pc[p] \in {"draining", "syncing"} /\ Chunkwise(p) /\ Cleaning(p)
        /\ UNCHANGED <<status, pc, job, at, got, stale>>
    BY BusyIs DEF lifecycle, call, Typed, Paired, Calls
  <1>2. Chunkwise(p)' /\ Current(p)'
    <2>1. \A n \in Positions : /\ Known(p, n)' => Known(p, n)
                               /\ Passed(p, n)' => Passed(p, n)
      BY <1>1 DEF Known, Passed, Through, Late
    <2>2. Chunkwise(p)'
      BY <1>1, <2>1, OwnChunks
    <2> QED
      BY <1>1, <2>2 DEF Current
  <1>3. ASSUME pc[p] = "syncing", ~Ready(job[p]), NEW c \in Chunks,
               Version(c) # job[p], index'[c] # None
        PROVE  c \in stale[p]
    <2>1. index[c] # None
      BY <1>3, Indexed DEF Writes
    <2> QED
      BY <1>1, <1>3, <2>1 DEF Cleaning, Planned, Late
  <1>4. ASSUME pc[p] = "syncing", NEW c \in stale[p]
        PROVE  outbox'[Delete(job[p], c)] # "none"
    <2>1. outbox[Delete(job[p], c)] # "none"
      BY <1>1, <1>4 DEF Cleaning, Planned, Late
    <2>2. Delete(job[p], c) \in Events
      BY <1>1, AtWork, DeleteIs DEF Typed, FieldsTyped
    <2> QED
      BY <2>1, <2>2, Lasting
  <1>5. Cleaning(p)'
    BY <1>1, <1>3, <1>4 DEF Cleaning, Planned, Late, Ready
  <1> QED
    BY <1>1, <1>2, <1>5 DEF CallKept

\* What the call that acts knows remains so.
LEMMA OwnCall ==
    ASSUME Typed, Order, Stores, Work, Calls, NEW p \in Processes, Writes(p), Learnt, Act(p)
    PROVE  CallKept(p)
  <1>1. CASE DocumentRefused(p)
    BY <1>1, PlainCall DEF DocumentRefused, Calls
  <1>2. CASE MarkReady(p)
    <2>1. pc[p] # "idle" /\ Goto(p, "done") /\ UNCHANGED call
      BY <1>2 DEF MarkReady, Resume
    <2> QED
      BY <2>1, PlainCall DEF Calls
  <1>3. CASE MarkFailed(p) \/ Return(p) \/ Crash(p)
    BY <1>3, LeftCall DEF MarkFailed, Return, Crash
  <1>4. CASE Raise(p)
    <2>1. pc[p] # "idle" /\ (Leave(p) \/ Resume(p, "fail"))
      BY <1>4 DEF Raise
    <2>2. Resume(p, "fail") => Goto(p, "fail") /\ UNCHANGED call
      BY DEF Resume
    <2>3. CASE Leave(p)
      BY <2>3, LeftCall
    <2>4. CASE Resume(p, "fail")
      BY <2>1, <2>2, <2>4, PlainCall DEF Calls
    <2> QED
      BY <2>1, <2>3, <2>4
  <1> QED
    BY <1>1, <1>2, <1>3, <1>4, EarlyCall, ChunkCall, LateCall, BusyCall DEF Act, Step, Busy

-----------------------------------------------------------------------------
(* The invariant.                                                          *)

LEMMA InitIInv == Init => IInv
  <1> SUFFICES ASSUME Init
               PROVE  IInv
    OBVIOUS
  <1>1. Typed
    BY InitTyped
  <1>2. /\ \A v \in Versions : status[v] = "absent"
        /\ active = None
        /\ \A c \in Chunks : cached[c] = None /\ rows[c] = None /\ chroma[c] = None /\ index[c] = None
        /\ \A e \in Events : outbox[e] = "none"
        /\ \A p \in Processes : /\ pc[p] = "idle" /\ job[p] = None /\ at[p] = 1
                                /\ spc[p] = "idle" /\ todo[p] = {}
    BY DEF Init, Sync!Init
  <1>3. Order
    BY <1>2 DEF Order, JobsApart, ActiveIsNewest, StartIsNewest, Running, PublishedLast, Before,
       IsActive
  <1>4. Stores
    BY <1>2 DEF Stores, Deletions, Upserts, Finished, Believed, NoDanglingVectors, Readable,
       PublishedAlone, Ready
  <1>5. Work
    BY <1>2 DEF Work, Working, SyncProofs!Handling
  <1>6. Calls
    BY <1>2 DEF Calls
  <1> QED
    BY <1>1, <1>3, <1>4, <1>5, <1>6 DEF IInv

\* What happens outside the calls adds to the ledger, and to nothing else.
LEMMA OutsideIInv ==
    ASSUME IInv, Typed', Order', Learnt,
           UNCHANGED <<lifecycle, rows, stores, sync, pc, call>>
    PROVE  IInv'
  <1>1. UNCHANGED <<status, active, rows, outbox, chroma, index, spc, todo, event,
                    pc, job, at, got, claimed, stale>>
    BY DEF lifecycle, stores, sync, call
  <1>2. Typed /\ Stores /\ Work /\ Calls
    BY DEF IInv
  <1>3. SameReady
    BY <1>1 DEF SameReady
  <1>4. Stores'
    BY <1>1, <1>2, <1>3, StoresKept DEF Learnt
  <1>5. Work'
    BY <1>1, <1>2 DEF Work, Working, Due, Sync!Of
  <1>6. ASSUME NEW p \in Processes
        PROVE  CallKept(p)
    <2>1. CASE pc[p] = "idle"
      BY <1>1, <1>2, <2>1 DEF Calls, CallKept
    <2>2. CASE pc[p] # "idle"
      <3>1. Chunkwise(p) /\ Current(p) /\ Cleaning(p)
        BY <1>2, <2>2 DEF Calls
      <3>2. Chunk(p) \in Chunks /\ \A n \in Positions : <<job[p], n>> \in Chunks
        BY <1>2, <2>2, AtWork, ChunksOfIs
      <3>3. Chunkwise(p)'
        BY <1>1, <3>1, <3>2 DEF Chunkwise, Known, Passed, Own, Learnt
      <3>4. Current(p)'
        BY <1>1, <3>1, <3>2 DEF Current, Chunk, Own, Learnt, Ready
      <3>5. Cleaning(p)'
        BY <1>1, <3>1 DEF Cleaning, Ready, Due, Sync!Of
      <3> QED
        BY <1>1, <2>2, <3>3, <3>4, <3>5 DEF CallKept
    <2> QED
      BY <2>1, <2>2
  <1>7. Calls'
    BY <1>6 DEF Calls, CallKept
  <1> QED
    BY <1>4, <1>5, <1>7 DEF IInv

LEMMA ActIInv ==
    ASSUME IInv, Typed', Order', NEW p \in Processes, Act(p)
    PROVE  IInv'
  <1>1. Typed /\ Order /\ Stores /\ Work /\ Calls
    BY DEF IInv
  <1>2. Stores' /\ Writes(p) /\ Learnt /\ ReadyBy(p)
    BY <1>1, ActStores
  <1>3. \A q \in Processes \ {p} : Same(q)
    BY <1>1, Alone
  <1>4. Work'
    <2>1. Working(p)'
      BY <1>1, BusyStep, OwnWorks
    <2>2. \A q \in Processes \ {p} : Working(q)'
      BY <1>1, <1>2, <1>3, OtherWorks
    <2> QED
      BY <2>1, <2>2 DEF Work
  <1>5. Calls'
    <2>1. CallKept(p)
      BY <1>1, <1>2, OwnCall
    <2>2. ASSUME NEW q \in Processes \ {p}
          PROVE  CallKept(q)
      <3>1. pc'[q] = pc[q] /\ at'[q] = at[q] /\ Same(q)
        BY <1>3 DEF Same
      <3>2. CASE pc[q] = "idle"
        BY <1>1, <3>1, <3>2 DEF Calls, CallKept
      <3>3. CASE pc[q] # "idle"
        BY <1>1, <1>2, <3>1, <3>3, OtherCalls DEF CallKept
      <3> QED
        BY <3>2, <3>3
    <2>3. \A q \in Processes : CallKept(q)
      BY <2>1, <2>2
    <2> QED
      BY <2>3 DEF Calls, CallKept
  <1> QED
    BY <1>2, <1>4, <1>5 DEF IInv

LEMMA IInvStep ==
    ASSUME ~Returns, IInv, [Next]_vars
    PROVE  IInv'
  <1>1. Typed /\ Order
    BY DEF IInv
  <1>2. Typed'
    BY <1>1, StepTyped
  <1>3. CASE Next
    <2>1. Order'
      BY <1>1, <1>3, OrderStep
    <2>2. ASSUME NEW p \in Processes, Act(p)
          PROVE  IInv'
      BY <1>2, <2>1, <2>2, ActIInv
    <2>3. CASE CalmDown
      <3>1. UNCHANGED <<lifecycle, relational, stores, sync, pc, call>>
        BY <2>3 DEF CalmDown, Sync!CalmDown, Sync!stores, Sync!task, Sync!sweep, stores, sync
      <3>2. Learnt
        BY <3>1 DEF relational, Learnt
      <3> QED
        BY <1>2, <2>1, <3>1, <3>2, OutsideIInv DEF relational
    <2>4. ASSUME NEW c \in Chunks, NEW r \in Results, Foreign(c, r)
          PROVE  IInv'
      <3>1. Learnt
        BY <1>1, <2>4 DEF Foreign, Learnt, Typed, StoresTyped
      <3> QED
        BY <1>2, <2>1, <2>4, <3>1, OutsideIInv DEF Foreign
    <2> QED
      BY <1>3, <2>2, <2>3, <2>4 DEF Next, Act
  <1>4. CASE UNCHANGED vars
    <2>1. UNCHANGED <<lifecycle, relational, stores, sync, pc, call>>
      BY <1>4 DEF vars
    <2>2. Order' /\ Learnt
      <3>1. \A p \in Processes : Moves(p)
        BY <2>1 DEF Moves, call
      <3> QED
        BY <1>1, <2>1, <3>1, MovesKeepOrder DEF relational, Learnt
    <2> QED
      BY <1>2, <2>1, <2>2, OutsideIInv DEF relational
  <1> QED
    BY <1>3, <1>4

LEMMA IInvAlways ==
    ASSUME ~Returns
    PROVE  Spec => []IInv
  BY InitIInv, IInvStep, PTL DEF Spec

-----------------------------------------------------------------------------
(* What the invariant says of the documents.                               *)

\* Once a version has been published one can be read in full, whatever calls fail,
\* are killed or go on: rows and vectors are taken away only by a newer version
\* that is whole.
THEOREM NeverUnreadable ==
    ASSUME ~Returns
    PROVE  Spec => []AlwaysReadable
  <1>1. IInv => AlwaysReadable
    BY DEF IInv, Stores, Readable, Whole, AlwaysReadable
  <1> QED
    BY <1>1, IInvAlways, PTL

\* A vector whose rows are gone has its deletion in the outbox, still to be done.
THEOREM DeletionOnItsWay ==
    ASSUME ~Returns
    PROVE  Spec => []NoDanglingVectors
  <1>1. IInv => NoDanglingVectors
    BY DEF IInv, Stores
  <1> QED
    BY <1>1, IInvAlways, PTL

\* Beside the newest version, once it is published, the index state knows of no
\* chunk of any other, those of failed runs included.
THEOREM NothingLeftBehind ==
    ASSUME ~Returns
    PROVE  Spec => []PublishedAlone
  <1>1. IInv => PublishedAlone
    BY DEF IInv, Stores
  <1> QED
    BY <1>1, IInvAlways, PTL

\* Only mark_ready makes a call report an indexed document.
LEMMA ReportIs ==
    ASSUME Typed, NEW p \in Processes, Act(p), Reports(p)
    PROVE  MarkReady(p)
  <1>1. pc[p] # "done" /\ pc'[p] = "done"
    BY DEF Reports
  <1>2. ~Leave(p)
    BY <1>1, LeaveIs
  <1>3. ~ \/ Goto(p, "start") \/ Goto(p, "prepare") \/ Goto(p, "commit") \/ Goto(p, "complete")
          \/ Goto(p, "checkpoint") \/ Goto(p, "draining") \/ Goto(p, "plan")
          \/ Goto(p, "document") \/ Goto(p, "tag") \/ Goto(p, "final") \/ Goto(p, "syncing")
          \/ Goto(p, "ready") \/ Goto(p, "fail")
    BY <1>1 DEF Goto, Typed, FieldsTyped
  <1>4. ~Busy(p)
    BY <1>1, BusyIs
  <1>5. ~ \E v \in Versions : Begin(p, v)
    BY <1>3 DEF Begin
  <1>6. /\ ~Start(p) /\ ~MarkTagged(p) /\ ~Synced(p) /\ ~Raise(p)
    BY <1>2, <1>3 DEF Start, MarkTagged, Synced, Raise, Resume
  <1>7. /\ ~Prepare(p) /\ ~Skip(p) /\ ~Commit(p) /\ ~Complete(p) /\ ~Checkpoint(p) /\ ~Drained(p)
        /\ ~NotDrained(p) /\ ~Plan(p) /\ ~Document(p) /\ ~DocumentRefused(p) /\ ~Final(p)
    BY <1>3 DEF Prepare, Skip, Commit, Complete, Checkpoint, Drained, NotDrained, Plan, Document,
       DocumentRefused, Final
  <1>8. ~MarkFailed(p) /\ ~Return(p) /\ ~Crash(p)
    BY <1>2 DEF MarkFailed, Return, Crash
  <1> QED
    BY <1>4, <1>5, <1>6, <1>7, <1>8 DEF Act, Step, Busy

\* The caller of ingest_document hears of an indexed document only when every chunk
\* of its version has its rows in SQLite and its vector in Chroma.
THEOREM ReportsAreTrue ==
    ASSUME ~Returns
    PROVE  Spec => ReportedIsComplete
  <1>1. ASSUME IInv, Next, NEW p \in Processes, Reports(p)
        PROVE  (HasRows(job[p]) /\ HasVectors(job[p]))'
    <2>1. Typed /\ Order /\ Stores /\ Calls
      BY <1>1 DEF IInv
    <2>2. ASSUME NEW q \in Processes, Act(q)
          PROVE  q = p
      <3>1. q # p => Same(p)
        BY <2>1, <2>2, Alone
      <3> QED
        BY <1>1, <3>1 DEF Same, Reports
    <2>3. UNCHANGED pc \/ \E q \in Processes : Act(q)
      <3>1. CalmDown \/ (\E c \in Chunks, r \in Results : Foreign(c, r)) => UNCHANGED pc
        BY DEF CalmDown, Foreign
      <3> QED
        BY <1>1, <3>1 DEF Next, Act
    <2>4. Act(p)
      BY <1>1, <2>2, <2>3 DEF Reports
    <2>5. MarkReady(p)
      BY <1>1, <2>1, <2>4, ReportIs
    <2>6. /\ pc[p] = "ready" /\ ~Ready(job[p]) /\ UNCHANGED <<rows, chroma, job>>
      BY <2>5 DEF MarkReady, Resume, Ready, relational, stores, call
    <2>7. \A c \in ChunksOf(job[p]) : rows[c] # None /\ chroma[c] # None
      BY <2>1, <2>6, DocumentWhole DEF Through, Late
    <2> QED
      BY <2>6, <2>7 DEF HasRows, HasVectors
  <1>2. ASSUME IInv, [Next]_vars
        PROVE  [\A p \in Processes : Reports(p) => (HasRows(job[p]) /\ HasVectors(job[p]))']_vars
    BY <1>1, <1>2
  <1> QED
    BY <1>2, IInvAlways, PTL DEF Spec, ReportedIsComplete

\* A document never goes back to an older version: what is published is replaced by
\* something newer only.
THEOREM PublishedForward ==
    ASSUME ~Returns
    PROVE  Spec => [][active' = active \/ active = None \/ active' > active]_vars
  <1>1. ASSUME IInv, Next
        PROVE  active' = active \/ active = None \/ active' > active
    <2>1. ASSUME NEW p \in Processes, MarkReady(p), active # None
          PROVE  active' > active
      <3>1. Typed /\ Order /\ job[p] \in Versions /\ IsActive(job[p]) /\ active' = job[p]
        BY <1>1, <2>1, AtWork DEF IInv, MarkReady, IsActive
      <3> QED
        BY <2>1, <3>1, ActiveIsNewer
    <2>2. ASSUME NEW p \in Processes, Act(p), ~MarkReady(p)
          PROVE  active' = active
      BY <1>1, <2>2, BusyIs
      DEF IInv, Act, Step, Busy, Begin, Start, Prepare, Skip, Commit, Complete, Checkpoint, Drained,
          NotDrained, Plan, Document, DocumentRefused, MarkTagged, Final, Enter, Synced,
          MarkFailed, Return, Raise, Crash, lifecycle
    <2>3. CalmDown \/ (\E c \in Chunks, r \in Results : Foreign(c, r)) => active' = active
      BY DEF CalmDown, Foreign, lifecycle
    <2> QED
      BY <1>1, <2>1, <2>2, <2>3 DEF Next, Act
  <1>2. ASSUME IInv, [Next]_vars
        PROVE  [active' = active \/ active = None \/ active' > active]_vars
    BY <1>1, <1>2
  <1> QED
    BY <1>2, IInvAlways, PTL DEF Spec
=============================================================================
