------------------------ MODULE IngestionRunsProofs ------------------------
(***************************************************************************)
(* Theorems about the ingestion lifecycle, for any set of documents,       *)
(* versions and processes.  Those that need it assume ~Shared: two calls   *)
(* are never at work on the same run at once.                              *)
(***************************************************************************)
EXTENDS IngestionRuns, TLAPS

\* The tables of mark_* read off, entry by entry.
LEMMA MarkTable ==
    /\ Target("tag") = "tagged" /\ Target("ready") = "ready"
    /\ Target("failSync") = "failed" /\ Target("fail") = "failed"
    /\ WriteOf("tag") = "tagWrite" /\ WriteOf("ready") = "readyWrite"
    /\ WriteOf("failSync") = "failSyncWrite" /\ WriteOf("fail") = "failWrite"
    /\ After("tag") = "sync" /\ After("ready") = "done"
    /\ After("failSync") = "idle" /\ After("fail") = "idle"
    /\ Raised("tag") = "idle" /\ Raised("ready") = "fail"
    /\ Raised("failSync") = "fail" /\ Raised("fail") = "idle"
  BY DEF Target, WriteOf, After, Raised

\* What the labels of a mark are, for the type proof.
LEMMA MarkTypes ==
    ASSUME NEW m \in Marks
    PROVE  /\ m \in Labels /\ WriteOf(m) \in Labels
           /\ After(m) \in Labels /\ Raised(m) \in Labels
           /\ Target(m) \in {"tagged", "ready", "failed"}
           /\ WriteOf(m) \notin {"idle", "startWrite", "done"}
           /\ m \notin {"idle", "startWrite", "done"}
           /\ After(m) \notin {"startWrite"}
           /\ Raised(m) \in {"idle", "fail"}
           /\ \A n \in Marks : WriteOf(n) = WriteOf(m) => n = m
           /\ \A n \in Marks : WriteOf(n) # m /\ WriteOf(n) # After(m)
           /\ (Target(m) = "ready" => m = "ready")
           /\ (After(m) = "done" <=> m = "ready")
  <1>1. m \in {"tag", "ready", "failSync", "fail"}
    BY DEF Marks
  <1>2. \A n \in Marks : n \in {"tag", "ready", "failSync", "fail"}
    BY DEF Marks
  <1>3. WriteOf(m) \in Labels
    BY DEF Labels
  <1> QED
    BY <1>1, <1>2, <1>3, MarkTable DEF Labels, Marks

-----------------------------------------------------------------------------
(* Types.                                                                  *)

\* Goto sets one label.
LEMMA GotoTyped ==
    ASSUME TypeOK, NEW p \in Processes, NEW l \in Labels, Goto(p, l)
    PROVE  /\ pc' \in [Processes -> Labels]
           /\ pc'[p] = l
           /\ \A q \in Processes : q # p => pc'[q] = pc[q]
  BY DEF TypeOK, Goto

\* A call that only moves keeps the types.
LEMMA MoveTyped ==
    ASSUME TypeOK, NEW p \in Processes, NEW from \in Labels \ {"idle"},
           NEW l \in Labels, Move(p, from, l)
    PROVE  TypeOK'
  <1>1. /\ pc' \in [Processes -> Labels]
        /\ \A q \in Processes : q # p => pc'[q] = pc[q]
    BY GotoTyped DEF Move
  <1>2. UNCHANGED <<status, shown, active, job, seen, calm>> /\ pc[p] = from
    BY DEF Move, store
  <1> QED
    BY <1>1, <1>2 DEF TypeOK

\* The first state is typed.
LEMMA InitTyped == Init => TypeOK
  BY DEF Init, TypeOK, Statuses, Labels

\* Every step keeps the types.
LEMMA StepTyped == TypeOK /\ [Next]_vars => TypeOK'
  <1> SUFFICES ASSUME TypeOK, [Next]_vars PROVE TypeOK'
    OBVIOUS
  <1>a. {"idle", "start", "startWrite", "workflow", "sync", "done", "tag",
         "fail", "failSync", "ready"} \subseteq Labels
    BY DEF Labels, Marks
  <1>1. CASE UNCHANGED vars
    BY <1>1 DEF vars, TypeOK
  <1>2. CASE CalmDown
    BY <1>2 DEF CalmDown, TypeOK, store
  <1>3. ASSUME NEW p \in Processes, NEW r \in Runs, Begin(p, r)
        PROVE  TypeOK'
    <2>1. /\ pc' \in [Processes -> Labels]
          /\ \A q \in Processes : q # p => pc'[q] = pc[q]
      BY <1>3, <1>a, GotoTyped DEF Begin
    <2> QED
      BY <1>3, <2>1 DEF Begin, TypeOK, store
  <1>4. ASSUME NEW p \in Processes, StartRead(p)
        PROVE  TypeOK'
    <2>1. /\ pc' \in [Processes -> Labels]
          /\ \A q \in Processes : q # p => pc'[q] = pc[q]
      BY <1>4, <1>a, GotoTyped DEF StartRead
    <2>2. pc[p] # "idle" /\ job[p] \in Runs
      BY <1>4 DEF StartRead, TypeOK
    <2> QED
      BY <1>4, <2>1, <2>2 DEF StartRead, TypeOK, store
  <1>5. ASSUME NEW p \in Processes, StartWrite(p)
        PROVE  TypeOK'
    <2>1. /\ pc' \in [Processes -> Labels]
          /\ \A q \in Processes : q # p => pc'[q] = pc[q]
      BY <1>5, <1>a, GotoTyped DEF StartWrite
    <2>2. pc[p] # "idle" /\ job[p] \in Runs
      BY <1>5 DEF StartWrite, TypeOK
    <2>3. status' \in [Runs -> Statuses] /\ shown' \in [Docs -> Statuses]
      BY <1>5, <2>2 DEF StartWrite, TypeOK, Statuses
    <2> QED
      BY <1>5, <2>1, <2>2, <2>3 DEF StartWrite, TypeOK
  <1>6. ASSUME NEW p \in Processes, Workflow(p) \/ Sync(p) \/ Return(p)
        PROVE  TypeOK'
    BY <1>6, <1>a, MoveTyped DEF Workflow, Sync, Return
  <1>7. ASSUME NEW p \in Processes, NEW m \in Marks, MarkRead(p, m)
        PROVE  TypeOK'
    <2>1. /\ pc' \in [Processes -> Labels]
          /\ \A q \in Processes : q # p => pc'[q] = pc[q]
      BY <1>7, MarkTypes, GotoTyped DEF MarkRead
    <2>2. pc[p] # "idle" /\ job[p] \in Runs
      BY <1>7, MarkTypes DEF MarkRead, TypeOK
    <2> QED
      BY <1>7, <2>1, <2>2 DEF MarkRead, TypeOK, store
  <1>8. ASSUME NEW p \in Processes, NEW m \in Marks, MarkWrite(p, m)
        PROVE  TypeOK'
    <2>1. /\ pc' \in [Processes -> Labels]
          /\ \A q \in Processes : q # p => pc'[q] = pc[q]
      BY <1>8, MarkTypes, GotoTyped DEF MarkWrite
    <2>2. pc[p] # "idle" /\ job[p] \in Runs
      BY <1>8, MarkTypes DEF MarkWrite, TypeOK
    <2>3. job[p][1] \in Docs /\ job[p][2] \in Versions
      BY <2>2 DEF Runs
    <2>4. Target(m) \in Statuses
      BY MarkTypes DEF Statuses
    <2>5. /\ status' \in [Runs -> Statuses] /\ shown' \in [Docs -> Statuses]
          /\ active' \in [Docs -> Versions \union {None}]
      BY <1>8, <2>2, <2>3, <2>4 DEF MarkWrite, TypeOK, store, Doc, Version
    <2> QED
      BY <1>8, <2>1, <2>2, <2>5 DEF MarkWrite, TypeOK
  <1>9. ASSUME NEW p \in Processes, StoreError(p)
        PROVE  TypeOK'
    <2>1. CASE \E from \in {"start", "startWrite"} : Move(p, from, "idle")
      BY <2>1, <1>a, MoveTyped
    <2>2. ASSUME NEW m \in Marks, NEW from \in {m, WriteOf(m)},
                 Move(p, from, Raised(m))
          PROVE  TypeOK'
      BY <2>2, MarkTypes, MoveTyped
    <2> QED
      BY <1>9, <2>1, <2>2 DEF StoreError
  <1>10. ASSUME NEW p \in Processes, Crash(p)
         PROVE  TypeOK'
    <2>1. /\ pc' \in [Processes -> Labels]
          /\ \A q \in Processes : q # p => pc'[q] = pc[q]
          /\ pc'[p] = "idle"
      BY <1>10, <1>a, GotoTyped DEF Crash
    <2> QED
      BY <1>10, <2>1 DEF Crash, TypeOK, store
  <1> QED
    BY <1>1, <1>2, <1>3, <1>4, <1>5, <1>6, <1>7, <1>8, <1>9, <1>10
    DEF Next, Step

\* The lifecycle's tables and calls hold what they should, whoever calls.
THEOREM TypeCorrect == Spec => []TypeOK
  <1> QED
    BY InitTyped, StepTyped, PTL DEF Spec

-----------------------------------------------------------------------------
(* One active run.                                                         *)

\* The two ways in which the store changes.
Started(p) ==
    LET r == job[p]
    IN  /\ pc[p] = "startWrite" /\ r \in Runs
        /\ Free(r) /\ (seen[p] = "absent" => status[r] = "absent")
        /\ status' = [status EXCEPT ![r] = "processing"]
        /\ shown' = [shown EXCEPT ![Doc(r)] = "processing"]
        /\ UNCHANGED active

Marked(p, m) ==
    LET r == job[p]
        t == Target(m)
    IN  /\ pc[p] = WriteOf(m) /\ r \in Runs
        /\ t \in Active => Free(r)
        /\ status' = [status EXCEPT ![r] = t]
        /\ shown' = [shown EXCEPT ![Doc(r)] = t]
        /\ active' = IF t = "ready"
                        THEN [active EXCEPT ![Doc(r)] = Version(r)] ELSE active

\* A step of the system changes the store in one of these ways or not at all.
LEMMA StoreEffect ==
    ASSUME TypeOK, Next
    PROVE  \/ UNCHANGED store
           \/ \E p \in Processes : StartWrite(p) /\ Started(p)
           \/ \E p \in Processes : \E m \in Marks : MarkWrite(p, m) /\ Marked(p, m)
  <1>1. CASE CalmDown
    BY <1>1 DEF CalmDown
  <1>2. ASSUME NEW p \in Processes, NEW r \in Runs, Begin(p, r)
        PROVE  UNCHANGED store
    BY <1>2 DEF Begin
  <1>3. ASSUME NEW p \in Processes, StartRead(p) \/ Crash(p)
        PROVE  UNCHANGED store
    BY <1>3 DEF StartRead, Crash
  <1>4. ASSUME NEW p \in Processes, StartWrite(p)
        PROVE  UNCHANGED store \/ Started(p)
    <2>1. pc[p] = "startWrite" /\ job[p] \in Runs
      BY <1>4 DEF StartWrite, TypeOK
    <2> QED
      BY <1>4, <2>1 DEF StartWrite, Started, store
  <1>5. ASSUME NEW p \in Processes,
               \/ Workflow(p) \/ Sync(p) \/ Return(p) \/ StoreError(p)
               \/ \E m \in Marks : MarkRead(p, m)
        PROVE  UNCHANGED store
    BY <1>5 DEF Workflow, Sync, Return, StoreError, MarkRead, Move
  <1>6. ASSUME NEW p \in Processes, NEW m \in Marks, MarkWrite(p, m)
        PROVE  UNCHANGED store \/ Marked(p, m)
    <2>1. pc[p] = WriteOf(m) /\ job[p] \in Runs
      BY <1>6, MarkTypes DEF MarkWrite, TypeOK
    <2> QED
      BY <1>6, <2>1 DEF MarkWrite, Marked
  <1> QED
    BY <1>1, <1>2, <1>3, <1>4, <1>5, <1>6 DEF Next, Step

\* The unique index keeps the active runs of a document apart.
LEMMA OneActiveStep ==
    TypeOK /\ OneActiveRun /\ [Next]_vars => OneActiveRun'
  <1> SUFFICES ASSUME TypeOK, OneActiveRun, [Next]_vars PROVE OneActiveRun'
    OBVIOUS
  <1>1. CASE UNCHANGED store
    BY <1>1 DEF OneActiveRun, IsActive, store
  <1>2. ASSUME NEW p \in Processes, Started(p)
        PROVE  OneActiveRun'
    BY <1>2 DEF Started, OneActiveRun, IsActive, Free, TypeOK
  <1>3. ASSUME NEW p \in Processes, NEW m \in Marks, Marked(p, m)
        PROVE  OneActiveRun'
    BY <1>3 DEF Marked, OneActiveRun, IsActive, Free, TypeOK
  <1>4. UNCHANGED vars => UNCHANGED store
    BY DEF vars, store
  <1> QED
    BY <1>1, <1>2, <1>3, <1>4, StoreEffect

\* At most one run of a document is active, even when any number of calls work
\* on the same run and decide on reads that are out of date.
THEOREM OneRunAtATime == Spec => []OneActiveRun
  <1>1. Init => OneActiveRun
    BY DEF Init, OneActiveRun, IsActive, Active
  <1> QED
    BY <1>1, TypeCorrect, OneActiveStep, PTL DEF Spec

-----------------------------------------------------------------------------
(* Calls that do not share a run.                                          *)

\* Two calls under way have different runs.
Exclusive ==
    \A p, q \in Processes :
        p # q /\ pc[p] # "idle" /\ pc[q] # "idle" => job[p] # job[q]

\* Calls begin and end, the run of a call under way never changes.
LEMMA ExclusiveStep ==
    ASSUME ~Shared, TypeOK, Exclusive, [Next]_vars
    PROVE  Exclusive'
  <1>1. ASSUME NEW p \in Processes, NEW r \in Runs, Begin(p, r)
        PROVE  Exclusive'
    BY <1>1 DEF Begin, Goto, Exclusive, TypeOK
  <1>2. ASSUME UNCHANGED job,
               \A q \in Processes : pc[q] = "idle" => pc'[q] = "idle"
        PROVE  Exclusive'
    BY <1>2 DEF Exclusive
  <1>3. CASE UNCHANGED vars \/ CalmDown
    BY <1>2, <1>3 DEF vars, CalmDown
  <1>4. ASSUME NEW p \in Processes, Step(p) \/ StoreError(p) \/ Crash(p)
        PROVE  Exclusive'
    <2>1. UNCHANGED job
      BY <1>4 DEF Step, StoreError, Crash, StartRead, StartWrite, Workflow, Sync,
         Return, MarkRead, MarkWrite, Move
    <2>2. pc[p] # "idle"
      BY <1>4, MarkTypes DEF Step, StoreError, Crash, StartRead, StartWrite,
         Workflow, Sync, Return, MarkRead, MarkWrite, Move
    <2>3. \E l : Goto(p, l)
      BY <1>4 DEF Step, StoreError, Crash, StartRead, StartWrite,
         Workflow, Sync, Return, MarkRead, MarkWrite, Move
    <2>4. \A q \in Processes : q # p => pc'[q] = pc[q]
      BY <2>3 DEF Goto, TypeOK
    <2> QED
      BY <1>2, <2>1, <2>2, <2>4
  <1> QED
    BY <1>1, <1>3, <1>4 DEF Next

\* A call's step leaves the other calls, and their runs, as they are.
LEMMA OthersKeep ==
    ASSUME TypeOK, Exclusive, NEW p \in Processes, NEW q \in Processes, q # p,
           \/ Step(p) \/ StoreError(p) \/ Crash(p)
           \/ \E r \in Runs : Begin(p, r)
    PROVE  /\ pc'[q] = pc[q] /\ job'[q] = job[q]
           /\ pc[q] # "idle" => status'[job[q]] = status[job[q]]
  <1>1. CASE \E r \in Runs : Begin(p, r)
    BY <1>1 DEF Begin, Goto, TypeOK, store
  <1>2. CASE StartWrite(p)
    <2>1. pc[p] # "idle" /\ UNCHANGED job
      BY <1>2 DEF StartWrite
    <2>2. pc'[q] = pc[q]
      BY <1>2 DEF StartWrite, Goto, TypeOK
    <2>3. status' = status \/ status' = [status EXCEPT ![job[p]] = "processing"]
      BY <1>2 DEF StartWrite
    <2> QED
      BY <2>1, <2>2, <2>3 DEF Exclusive, TypeOK
  <1>3. ASSUME NEW m \in Marks, MarkWrite(p, m)
        PROVE  /\ pc'[q] = pc[q] /\ job'[q] = job[q]
               /\ pc[q] # "idle" => status'[job[q]] = status[job[q]]
    <2>1. pc[p] # "idle" /\ UNCHANGED job
      BY <1>3, MarkTypes DEF MarkWrite
    <2>2. pc'[q] = pc[q]
      BY <1>3 DEF MarkWrite, Goto, TypeOK
    <2>3. status' = status \/ status' = [status EXCEPT ![job[p]] = Target(m)]
      BY <1>3 DEF MarkWrite, store
    <2> QED
      BY <2>1, <2>2, <2>3 DEF Exclusive, TypeOK
  <1>4. CASE \/ StartRead(p) \/ Workflow(p) \/ Sync(p) \/ Return(p)
             \/ StoreError(p) \/ Crash(p) \/ \E m \in Marks : MarkRead(p, m)
    <2>1. UNCHANGED <<status, job>>
      BY <1>4 DEF StartRead, Workflow, Sync, Return, StoreError, Crash,
         MarkRead, Move, store
    <2>2. pc'[q] = pc[q]
      BY <1>4 DEF StartRead, Workflow, Sync, Return, StoreError, Crash,
         MarkRead, Move, Goto, TypeOK
    <2> QED
      BY <2>1, <2>2
  <1> QED
    BY <1>1, <1>2, <1>3, <1>4 DEF Step

\* What holds of one call: what it has read is current, what it reports is so.
CallSound(p) ==
    /\ pc[p] = "startWrite" => status[job[p]] \in {"absent", "failed"}
    /\ \A m \in Marks : pc[p] = WriteOf(m) => Allowed(status[job[p]], Target(m))
    /\ pc[p] = "done" => status[job[p]] = "ready"

\* A label that asks nothing of the run.
LEMMA PlainLabel ==
    ASSUME NEW p \in Processes,
           pc'[p] \in {"idle", "start", "workflow", "sync"} \union Marks
    PROVE  CallSound(p)'
  <1>1. \A m \in Marks : pc'[p] # WriteOf(m)
    BY MarkTable DEF Marks
  <1>2. pc'[p] # "startWrite" /\ pc'[p] # "done"
    BY DEF Marks
  <1> QED
    BY <1>1, <1>2 DEF CallSound

\* A call keeps what holds of it by its own steps.
LEMMA OwnStep ==
    ASSUME TypeOK, NEW p \in Processes, CallSound(p),
           \/ Step(p) \/ StoreError(p) \/ Crash(p)
           \/ \E r \in Runs : Begin(p, r)
    PROVE  CallSound(p)'
  <1>1. CASE Crash(p) \/ Workflow(p) \/ Sync(p) \/ Return(p) \/ StartWrite(p)
             \/ \E r \in Runs : Begin(p, r)
    <2>1. pc'[p] \in {"idle", "start", "workflow", "sync"} \union Marks
      BY <1>1 DEF Crash, Workflow, Sync, Return, StartWrite, Begin, Move, Goto,
         TypeOK, Marks
    <2> QED
      BY <2>1, PlainLabel
  <1>2. CASE StoreError(p)
    <2>1. \A m \in Marks : Raised(m) \in {"idle", "fail"}
      BY MarkTypes
    <2>2. pc'[p] \in {"idle", "fail"}
      BY <1>2, <2>1 DEF StoreError, Move, Goto, TypeOK
    <2> QED
      BY <2>2, PlainLabel DEF Marks
  <1>3. CASE StartRead(p)
    <2>1. UNCHANGED <<status, job>>
      BY <1>3 DEF StartRead, store
    <2>2. CASE pc'[p] = "startWrite"
      <3>1. status[job[p]] \in {"absent", "failed"}
        BY <1>3, <2>2 DEF StartRead, Goto, TypeOK
      <3>2. \A m \in Marks : WriteOf(m) # "startWrite"
        BY MarkTypes
      <3> QED
        BY <2>1, <2>2, <3>1, <3>2 DEF CallSound
    <2>3. CASE pc'[p] # "startWrite"
      <3>1. pc'[p] \in {"idle", "workflow"}
        BY <1>3, <2>3 DEF StartRead, Goto, TypeOK
      <3> QED
        BY <3>1, PlainLabel
    <2> QED
      BY <2>2, <2>3
  <1>4. ASSUME NEW m \in Marks, MarkRead(p, m)
        PROVE  CallSound(p)'
    <2>1. UNCHANGED <<status, job>>
      BY <1>4 DEF MarkRead, store
    <2>2. CASE Goto(p, After(m)) /\ status[job[p]] = Target(m)
      <3>1. pc'[p] = After(m)
        BY <2>2 DEF Goto, TypeOK
      <3>2. CASE m = "ready"
        <4>1. pc'[p] = "done" /\ status'[job'[p]] = "ready"
          BY <2>1, <2>2, <3>1, <3>2, MarkTable
        <4>2. \A n \in Marks : WriteOf(n) # "done"
          BY MarkTypes
        <4> QED
          BY <4>1, <4>2 DEF CallSound
      <3>3. CASE m # "ready"
        <4>1. pc'[p] \in {"idle", "sync"}
          BY <3>1, <3>3, MarkTable DEF Marks
        <4> QED
          BY <4>1, PlainLabel
      <3> QED
        BY <3>2, <3>3
    <2>3. CASE Goto(p, WriteOf(m)) /\ Allowed(status[job[p]], Target(m))
      <3>1. pc'[p] = WriteOf(m)
        BY <2>3 DEF Goto, TypeOK
      <3> QED
        BY <2>1, <2>3, <3>1, MarkTypes DEF CallSound
    <2>4. CASE Goto(p, Raised(m))
      <3>1. pc'[p] \in {"idle", "fail"}
        BY <2>4, MarkTypes DEF Goto, TypeOK
      <3> QED
        BY <3>1, PlainLabel DEF Marks
    <2> QED
      BY <1>4, <2>2, <2>3, <2>4 DEF MarkRead
  <1>5. ASSUME NEW m \in Marks, MarkWrite(p, m)
        PROVE  CallSound(p)'
    <2>1. CASE Goto(p, Raised(m))
      <3>1. pc'[p] \in {"idle", "fail"}
        BY <2>1, MarkTypes DEF Goto, TypeOK
      <3> QED
        BY <3>1, PlainLabel DEF Marks
    <2>2. CASE Goto(p, After(m)) /\ status' = [status EXCEPT ![job[p]] = Target(m)]
      <3>1. pc'[p] = After(m)
        BY <2>2 DEF Goto, TypeOK
      <3>2. CASE m = "ready"
        <4>1. job[p] \in Runs
          BY <1>5, MarkTypes DEF MarkWrite, TypeOK
        <4>2. UNCHANGED job
          BY <1>5 DEF MarkWrite
        <4>3. pc'[p] = "done" /\ status'[job'[p]] = "ready"
          BY <2>2, <3>1, <3>2, <4>1, <4>2, MarkTable DEF TypeOK
        <4>4. \A n \in Marks : WriteOf(n) # "done"
          BY MarkTypes
        <4> QED
          BY <4>3, <4>4 DEF CallSound
      <3>3. CASE m # "ready"
        <4>1. pc'[p] \in {"idle", "sync"}
          BY <3>1, <3>3, MarkTable DEF Marks
        <4> QED
          BY <4>1, PlainLabel
      <3> QED
        BY <3>2, <3>3
    <2> QED
      BY <1>5, <2>1, <2>2 DEF MarkWrite
  <1> QED
    BY <1>1, <1>2, <1>3, <1>4, <1>5 DEF Step

CallsSound == \A p \in Processes : CallSound(p)

\* Every call keeps what holds of every call.
LEMMA CallsStep ==
    ASSUME TypeOK, Exclusive, CallsSound, [Next]_vars
    PROVE  CallsSound'
  <1>1. CASE UNCHANGED vars \/ CalmDown
    BY <1>1 DEF vars, CalmDown, store, CallsSound, CallSound
  <1>2. ASSUME NEW p \in Processes,
               \/ Step(p) \/ StoreError(p) \/ Crash(p)
               \/ \E r \in Runs : Begin(p, r)
        PROVE  CallsSound'
    <2>1. CallSound(p)'
      BY <1>2, OwnStep DEF CallsSound
    <2>2. ASSUME NEW q \in Processes, q # p
          PROVE  CallSound(q)'
      <3>1. CallSound(q)
        BY DEF CallsSound
      <3>2. /\ pc'[q] = pc[q] /\ job'[q] = job[q]
            /\ pc[q] # "idle" => status'[job[q]] = status[job[q]]
        BY <1>2, <2>2, OthersKeep
      <3>3. \A m \in Marks : WriteOf(m) # "idle"
        BY MarkTypes
      <3> QED
        BY <3>1, <3>2, <3>3 DEF CallSound
    <2> QED
      BY <2>1, <2>2 DEF CallsSound
  <1> QED
    BY <1>1, <1>2 DEF Next

\* Documents keep showing the state of their active run.
LEMMA ShownStep ==
    ASSUME TypeOK, OneActiveRun, CallsSound, ActiveIsShown, [Next]_vars
    PROVE  ActiveIsShown'
  <1>1. CASE UNCHANGED store
    BY <1>1 DEF store, ActiveIsShown, IsActive
  <1>2. ASSUME NEW p \in Processes, Started(p)
        PROVE  ActiveIsShown'
    <2> DEFINE r == job[p]
    <2>1. r \in Runs /\ Doc(r) \in Docs
      BY <1>2 DEF Started, Runs, Doc
    <2>2. /\ status'[r] = "processing" /\ shown'[Doc(r)] = "processing"
          /\ \A o \in Runs : o # r => status'[o] = status[o]
          /\ \A o \in Runs : Doc(o) # Doc(r) => shown'[Doc(o)] = shown[Doc(o)]
          /\ \A o \in Runs : o # r /\ Doc(o) = Doc(r) => ~IsActive(o)
      BY <1>2, <2>1 DEF Started, TypeOK, Free, Runs, Doc
    <2> HIDE DEF r
    <2> QED
      BY <2>1, <2>2 DEF ActiveIsShown, IsActive
  <1>3. ASSUME NEW p \in Processes, NEW m \in Marks, Marked(p, m)
        PROVE  ActiveIsShown'
    <2> DEFINE r == job[p]
               t == Target(m)
    <2>1. r \in Runs /\ Doc(r) \in Docs
      BY <1>3 DEF Marked, Runs, Doc
    <2>2. Allowed(status[r], t) /\ t \in {"tagged", "ready", "failed"}
      BY <1>3, MarkTypes DEF Marked, CallsSound, CallSound
    <2>3. IsActive(r)
      BY <2>2 DEF Allowed, IsActive, Active
    <2>4. /\ status'[r] = t /\ shown'[Doc(r)] = t
          /\ \A o \in Runs : o # r => status'[o] = status[o]
          /\ \A o \in Runs : Doc(o) # Doc(r) => shown'[Doc(o)] = shown[Doc(o)]
      BY <1>3, <2>1 DEF Marked, TypeOK, Runs, Doc
    <2>5. \A o \in Runs : o # r /\ Doc(o) = Doc(r) => ~IsActive(o)
      BY <2>1, <2>3 DEF OneActiveRun
    <2> HIDE DEF r, t
    <2> QED
      BY <2>1, <2>4, <2>5 DEF ActiveIsShown, IsActive
  <1>4. UNCHANGED vars => UNCHANGED store
    BY DEF vars, store
  <1> QED
    BY <1>1, <1>2, <1>3, <1>4, StoreEffect

Sound == TypeOK /\ OneActiveRun /\ Exclusive /\ CallsSound /\ ActiveIsShown

\* The inductive invariant of calls that do not share a run.
LEMMA SoundAlways ==
    ASSUME ~Shared
    PROVE  Spec => []Sound
  <1>1. Init => Sound
    <2> SUFFICES ASSUME Init PROVE Sound
      OBVIOUS
    <2>1. \A p \in Processes : pc[p] = "idle"
      BY DEF Init
    <2>2. \A m \in Marks : WriteOf(m) # "idle"
      BY MarkTypes
    <2>3. \A r \in Runs : status[r] = "absent" /\ shown[Doc(r)] = "absent"
      BY DEF Init, Runs, Doc
    <2> QED
      BY <2>1, <2>2, <2>3, InitTyped DEF Sound, OneActiveRun, IsActive, Active,
         Exclusive, CallsSound, CallSound, ActiveIsShown
  <1>2. Sound /\ [Next]_vars => Sound'
    <2> SUFFICES ASSUME Sound, [Next]_vars PROVE Sound'
      OBVIOUS
    <2>1. TypeOK' /\ OneActiveRun'
      BY StepTyped, OneActiveStep DEF Sound
    <2>2. Exclusive'
      BY ExclusiveStep DEF Sound
    <2>3. CallsSound'
      BY CallsStep DEF Sound
    <2>4. ActiveIsShown'
      BY ShownStep DEF Sound
    <2> QED
      BY <2>1, <2>2, <2>3, <2>4 DEF Sound
  <1> QED
    BY <1>1, <1>2, PTL DEF Spec

\* A document has one active run and always shows its state.
THEOREM ShownAlways ==
    ASSUME ~Shared
    PROVE  Spec => []ShownIsCurrent
  <1>1. Sound => ShownIsCurrent
    BY DEF Sound, ShownIsCurrent
  <1> QED
    BY <1>1, SoundAlways, PTL

\* A call never reports an indexed document whose run is not ready.
THEOREM ReportsHold ==
    ASSUME ~Shared
    PROVE  Spec => []ReportedIsReady
  <1>1. Sound => ReportedIsReady
    BY DEF Sound, CallsSound, CallSound, ReportedIsReady
  <1> QED
    BY <1>1, SoundAlways, PTL

\* A ready run stays ready.
THEOREM ReadyForever ==
    ASSUME ~Shared
    PROVE  Spec => ReadyIsFinal
  <1>1. Sound /\ [Next]_vars =>
          [\A r \in Runs : status[r] = "ready" => status'[r] = "ready"]_vars
    <2> SUFFICES ASSUME Sound, Next, NEW r \in Runs, status[r] = "ready"
                 PROVE  status'[r] = "ready"
      OBVIOUS
    <2>1. ASSUME NEW p \in Processes, Started(p)
          PROVE  status'[r] = "ready"
      BY <2>1 DEF Sound, TypeOK, Started, CallsSound, CallSound
    <2>2. ASSUME NEW p \in Processes, NEW m \in Marks, Marked(p, m)
          PROVE  status'[r] = "ready"
      <3>1. Allowed(status[job[p]], Target(m))
        BY <2>2 DEF Marked, Sound, CallsSound, CallSound
      <3>2. job[p] # r
        BY <3>1 DEF Allowed
      <3> QED
        BY <2>2, <3>2 DEF Sound, TypeOK, Marked
    <2> QED
      BY <2>1, <2>2, StoreEffect DEF Sound, store
  <1> QED
    BY <1>1, SoundAlways, PTL DEF Spec, ReadyIsFinal

-----------------------------------------------------------------------------
(* Refinement.                                                             *)

\* The first state publishes nothing.
LEMMA PublicationInit == Init => Publication!Init
  <1> SUFFICES ASSUME Init PROVE Publication!Init
    OBVIOUS
  <1>1. \A d \in Docs, v \in Versions : status[<<d, v>>] = "absent"
    BY DEF Init, Runs
  <1>2. Published = [d \in Docs |-> {}]
    BY <1>1 DEF Published
  <1> QED
    BY <1>2 DEF Publication!Init, Init

\* Marking a run ready publishes its version; nothing else publishes.
LEMMA PublicationStep ==
    Sound /\ [Next]_vars => [Publication!Next]_Publication!vars
  <1> SUFFICES ASSUME Sound, [Next]_vars
               PROVE  Publication!Next \/ UNCHANGED <<Published, active>>
    BY DEF Publication!vars
  <1> USE DEF Sound
  <1>1. CASE UNCHANGED store
    BY <1>1 DEF store, Published
  <1>2. ASSUME NEW p \in Processes, Started(p)
        PROVE  UNCHANGED <<Published, active>>
    <2>1. \A r \in Runs : status'[r] = "ready" <=> status[r] = "ready"
      BY <1>2 DEF Started, TypeOK, CallsSound, CallSound
    <2>2. \A d \in Docs, v \in Versions :
            status'[<<d, v>>] = "ready" <=> status[<<d, v>>] = "ready"
      BY <2>1 DEF Runs
    <2> QED
      BY <1>2, <2>2 DEF Published, Started
  <1>3. ASSUME NEW p \in Processes, NEW m \in Marks, Marked(p, m)
        PROVE  Publication!Next \/ UNCHANGED <<Published, active>>
    <2> DEFINE r == job[p]
               t == Target(m)
    <2>1. r \in Runs /\ Allowed(status[r], t)
      BY <1>3 DEF Marked, CallsSound, CallSound
    <2>2. PICK d \in Docs, v \in Versions : r = <<d, v>>
      BY <2>1 DEF Runs
    <2>3. /\ status[r] # "ready" /\ status'[r] = t
          /\ \A o \in Runs : o # r => status'[o] = status[o]
      BY <1>3, <2>1 DEF Marked, TypeOK, Allowed
    <2>4. CASE t = "ready"
      <3>1. active' = [active EXCEPT ![d] = v]
        BY <1>3, <2>2, <2>4 DEF Marked, Doc, Version
      <3>2. v \notin Published[d]
        BY <2>2, <2>3 DEF Published
      <3>3. \A e \in Docs, w \in Versions :
              status'[<<e, w>>] = "ready" <=>
                status[<<e, w>>] = "ready" \/ (e = d /\ w = v)
        BY <2>2, <2>3, <2>4 DEF Runs
      <3>4. Published' = [Published EXCEPT ![d] = @ \union {v}]
        BY <3>3 DEF Published
      <3> QED
        BY <3>1, <3>2, <3>4 DEF Publication!Next, Publication!Publish
    <2>5. CASE t # "ready"
      <3>1. \A e \in Docs, w \in Versions :
              status'[<<e, w>>] = "ready" <=> status[<<e, w>>] = "ready"
        BY <2>2, <2>3, <2>5 DEF Runs
      <3> QED
        BY <1>3, <2>5, <3>1 DEF Published, Marked
    <2> QED
      BY <2>4, <2>5
  <1>4. UNCHANGED vars => UNCHANGED store
    BY DEF vars, store
  <1> QED
    BY <1>1, <1>2, <1>3, <1>4, StoreEffect

\* The lifecycle implements the publication of versions one at a time.
THEOREM PublishesInTurn ==
    ASSUME ~Shared
    PROVE  Spec => ImplementsPublication
  <1> QED
    BY SoundAlways, PublicationInit, PublicationStep, PTL
    DEF Spec, ImplementsPublication, Publication!Spec
=============================================================================
