-------------------------- MODULE VectorSyncProofs --------------------------
(***************************************************************************)
(* Theorems about the outbox and its synchronisation, for any set of runs, *)
(* records, values, events and workers and any limit.  Apart from types    *)
(* they assume ~Overlap: two workers that are at work at once have no      *)
(* record in common.                                                       *)
(***************************************************************************)
EXTENDS VectorSync, TLAPS

Handling == {"record", "markSucceeded", "markFailed"}

\* The events of a run are events, and belong to it.
LEMMA OfTyped ==
    ASSUME NEW run
    PROVE  /\ Of(run) \subseteq Events
           /\ \A e \in Of(run) : e.run = run
           /\ Retryable(run) \subseteq Of(run)
  BY DEF Of, Retryable

\* Events are records with the fields of events.
LEMMA EventTyped ==
    ASSUME NEW e \in Events
    PROVE  /\ e.run \in Runs /\ e.record \in Records
           /\ e.op \in Operations /\ e.value \in Values
           /\ Effect(e) \in Values \union {None}
  BY EventsAssumption DEF Effect

-----------------------------------------------------------------------------
(* Types.                                                                  *)

\* What is listed belongs to the worker's run, a worker without work has nothing
\* listed, and the event it is at is listed no more: without this TypeOK is not inductive, as the event a worker
\* takes would not be known to be of its run.
ListedOK ==
    \A w \in Workers :
        /\ todo[w] \subseteq Of(scope[w])
        /\ pc[w] = "idle" => todo[w] = {}
        /\ pc[w] \in Handling => event[w] \notin todo[w]

Typed == TypeOK /\ ListedOK

\* Leaving resets everything a worker knows.
LEMMA LeaveTyped ==
    ASSUME Typed, NEW w \in Workers, Leave(w), UNCHANGED <<stores, calm>>
    PROVE  Typed'
  <1> USE DEF Typed, ListedOK, TypeOK, Leave, Goto, stores
  <1>1. /\ pc' \in [Workers -> Labels]
        /\ scope' \in [Workers -> Runs \union {None}]
        /\ mode' \in [Workers -> {"checkpoint", "final"}]
        /\ todo' \in [Workers -> SUBSET Events]
        /\ event' \in [Workers -> Events \union {Nothing}]
        /\ tally' \in [Workers -> SUBSET {"succeeded", "failed"}]
    BY DEF Labels
  <1>2. \A v \in Workers : pc'[v] \in Handling => event'[v] \in Of(scope'[v])
    BY DEF Handling
  <1> QED
    BY <1>1, <1>2 DEF Handling

\* A worker that only goes to another label keeps the types.
LEMMA GotoTyped ==
    ASSUME Typed, NEW w \in Workers, NEW l \in Labels \ {"idle"}, Goto(w, l),
           l \in Handling => pc[w] \in Handling, pc[w] # "idle",
           UNCHANGED <<stores, task, sweep, calm>>
    PROVE  Typed'
  BY DEF Typed, ListedOK, TypeOK, Goto, stores, task, sweep, Handling

\* Every step keeps the types.
LEMMA StepTyped == Typed /\ [Next]_vars => Typed'
  <1> SUFFICES ASSUME Typed, [Next]_vars PROVE Typed'
    OBVIOUS
  <1>1. ASSUME NEW w \in Workers, NEW run \in Runs, NEW m \in {"checkpoint", "final"},
               NEW E \in SUBSET Of(run), Commit(w, run, E, m)
        PROVE  Typed'
    <2>1. outbox' \in [Events -> {"none", "pending", "failed", "succeeded"}]
      BY <1>1 DEF Typed, ListedOK, TypeOK, Handling, Commit, Enqueue
    <2> QED
      BY <1>1, <2>1 DEF Typed, ListedOK, TypeOK, Handling, Commit, Goto, Labels, sweep
  <1>2. ASSUME NEW w \in Workers, List(w)
        PROVE  Typed'
    <2>1. PICK S \in SUBSET Retryable(scope[w]) : todo' = [todo EXCEPT ![w] = S]
      BY <1>2 DEF List
    <2>2. S \subseteq Of(scope[w]) /\ S \subseteq Events
      BY OfTyped
    <2> QED
      BY <1>2, <2>1, <2>2 DEF Typed, ListedOK, TypeOK, Handling, List, Goto, Labels, stores, task
  <1>3. ASSUME NEW w \in Workers, NEW e \in Events, Apply(w, e) \/ ApplyFails(w, e)
        PROVE  Typed'
    <2>1. /\ chroma' \in [Records -> Values \union {None}]
          /\ Take(w, e)
          /\ \E l \in {"record", "markFailed"} : Goto(w, l)
      BY <1>3, EventTyped DEF Typed, ListedOK, TypeOK, Handling, Apply, ApplyFails
    <2> QED
      BY <2>1 DEF Typed, ListedOK, TypeOK, Handling, Take, Goto, Labels, task
  <1>4. ASSUME NEW w \in Workers, Record(w)
        PROVE  Typed'
    <2>1. event[w] \in Events
      BY <1>4, OfTyped DEF Typed, ListedOK, TypeOK, Handling, Record
    <2>2. index' \in [Records -> Values \union {None}]
      BY <1>4, <2>1, EventTyped DEF Typed, ListedOK, TypeOK, Handling, Record
    <2> QED
      BY <1>4, <2>2 DEF Typed, ListedOK, TypeOK, Handling, Record, Goto, Labels, task, sweep
  <1>5. ASSUME NEW w \in Workers, NEW outcome \in {"succeeded", "failed"},
               Mark(w, outcome)
        PROVE  Typed'
    BY <1>5 DEF Typed, ListedOK, TypeOK, Handling, Mark, Goto, Labels, task
  <1>6. ASSUME NEW w \in Workers, Count(w)
        PROVE  Typed'
    <2>1. Judge(w) \in Labels \ (Handling \union {"idle"})
      BY DEF Judge, Labels, Handling
    <2> QED
      BY <1>6, <2>1, GotoTyped DEF Count
  <1>7. ASSUME NEW w \in Workers, RecordFails(w) \/ Raise(w)
        PROVE  Typed'
    BY <1>7, GotoTyped DEF RecordFails, Raise, Labels, Handling
  <1>8. ASSUME NEW w \in Workers, Return(w) \/ Crash(w)
        PROVE  Typed'
    BY <1>8, LeaveTyped DEF Return, Crash
  <1>9. CASE CalmDown \/ UNCHANGED vars
    BY <1>9 DEF Typed, ListedOK, TypeOK, Handling, CalmDown, vars, stores, task, sweep
  <1> QED
    BY <1>1, <1>2, <1>3, <1>4, <1>5, <1>6, <1>7, <1>8, <1>9
    DEF Next, Step, MarkSucceeded, MarkFailed

\* At first no worker has anything to do.
LEMMA InitTyped == Init => Typed
  <1> SUFFICES ASSUME Init PROVE Typed
    OBVIOUS
  <1>1. /\ outbox \in [Events -> {"none", "pending", "failed", "succeeded"}]
        /\ chroma \in [Records -> Values \union {None}]
        /\ index \in [Records -> Values \union {None}]
    BY DEF Init
  <1>2. /\ pc \in [Workers -> Labels]
        /\ scope \in [Workers -> Runs \union {None}]
        /\ mode \in [Workers -> {"checkpoint", "final"}]
    BY DEF Init, Labels
  <1>3. /\ todo \in [Workers -> SUBSET Events]
        /\ event \in [Workers -> Events \union {Nothing}]
        /\ tally \in [Workers -> SUBSET {"succeeded", "failed"}]
    BY DEF Init
  <1>4. \A w \in Workers : pc[w] = "idle" /\ todo[w] = {}
    BY DEF Init
  <1>5. calm \in BOOLEAN
    BY DEF Init
  <1> QED
    BY <1>1, <1>2, <1>3, <1>4, <1>5 DEF Typed, TypeOK, ListedOK, Handling

\* Every variable has its type, and an event under way is one of the worker's run.
THEOREM TypeCorrect == Spec => []TypeOK
  <1>1. Typed => TypeOK
    BY DEF Typed
  <1> QED
    BY <1>1, InitTyped, StepTyped, PTL DEF Spec

-----------------------------------------------------------------------------
(* What a worker may rely on while nobody else is at its records.          *)

Due(e) == outbox[e] \in {"pending", "failed"}

\* Two workers that are at work have no record in common.
Apart ==
    \A v, w \in Workers : v # w /\ pc[v] # "idle" /\ pc[w] # "idle" =>
        Touched(scope[v]) \cap Touched(scope[w]) = {}

\* What a worker has listed or taken is still to be done, what it has written so
\* far is still there, and what it was told is drained stays so.
WorkerSound(w) ==
    /\ \A e \in todo[w] : Due(e)
    /\ pc[w] \in Handling => Due(event[w])
    /\ pc[w] \in {"record", "markSucceeded"} =>
          chroma[event[w].record] = Effect(event[w])
    /\ pc[w] = "markSucceeded" => index[event[w].record] = Effect(event[w])
    /\ pc[w] = "drained" => \A e \in Of(scope[w]) : outbox[e] \in {"none", "succeeded"}

Sound ==
    /\ Typed /\ Apart
    /\ \A w \in Workers : WorkerSound(w)
    /\ SettledAgrees

\* The events of workers that are apart are of different records.
LEMMA ApartEvents ==
    ASSUME Apart, NEW v \in Workers, NEW w \in Workers, v # w,
           pc[v] # "idle", pc[w] # "idle",
           NEW e \in Of(scope[v]), NEW f \in Of(scope[w])
    PROVE  e.record # f.record
  BY DEF Apart, Touched

\* Only a commit sets a worker to work, and it keeps apart from the others.
LEMMA ApartStep == ~Overlap /\ Typed /\ Apart /\ [Next]_vars => Apart'
  <1> SUFFICES ASSUME ~Overlap, Typed, Apart, [Next]_vars PROVE Apart'
    OBVIOUS
  <1>1. ASSUME NEW w \in Workers, NEW run \in Runs, NEW m, NEW E,
               Commit(w, run, E, m)
        PROVE  Apart'
    <2>1. /\ pc' = [pc EXCEPT ![w] = "list"]
          /\ scope' = [scope EXCEPT ![w] = run]
          /\ \A v \in Workers : pc[v] = "idle" \/ Touched(scope[v]) \cap Touched(run) = {}
      BY <1>1 DEF Commit, Goto
    <2> QED
      BY <2>1 DEF Apart, Typed, TypeOK
  <1>2. ASSUME \A w \in Workers : pc'[w] # "idle" =>
                    pc[w] # "idle" /\ scope'[w] = scope[w]
        PROVE  Apart'
    BY <1>2 DEF Apart
  <1>3. ASSUME NEW w \in Workers, Step(w)
        PROVE  Apart'
    <2>1. CASE Return(w)
      BY <1>2, <2>1 DEF Return, Leave, Goto, Typed, TypeOK
    <2>2. CASE ~Return(w)
      BY <1>2, <1>3, <2>2
      DEF Step, List, Apply, Take, Record, MarkSucceeded, MarkFailed, Mark, Count,
          Goto, task, sweep, Typed, TypeOK
    <2> QED
      BY <2>1, <2>2
  <1>4. ASSUME NEW w \in Workers,
               RecordFails(w) \/ Raise(w) \/ Crash(w) \/ \E e \in Events : ApplyFails(w, e)
        PROVE  Apart'
    BY <1>2, <1>4
    DEF RecordFails, Raise, Crash, ApplyFails, Take, Leave, Goto, task, sweep,
        Typed, TypeOK
  <1>5. CASE CalmDown \/ UNCHANGED vars
    BY <1>2, <1>5 DEF CalmDown, vars, task
  <1> QED
    BY <1>1, <1>3, <1>4, <1>5 DEF Next
\* A step of w in its run changes nothing that another worker knows, or writes.
Within(w, run) ==
    /\ \A v \in Workers \ {w} :
          /\ pc'[v] = pc[v] /\ scope'[v] = scope[v]
          /\ todo'[v] = todo[v] /\ event'[v] = event[v]
          /\ pc[v] # "idle" => Touched(scope[v]) \cap Touched(run) = {}
    /\ \A e \in Events \ Of(run) : outbox'[e] = outbox[e]
    /\ \A r \in Records \ Touched(run) : chroma'[r] = chroma[r] /\ index'[r] = index[r]

\* The others are as sound after such a step as they were before.
LEMMA OthersSound ==
    ASSUME Typed, NEW w \in Workers, NEW run, Within(w, run),
           NEW v \in Workers, v # w, WorkerSound(v)
    PROVE  WorkerSound(v)'
  <1>1. CASE pc[v] = "idle"
    BY <1>1 DEF Within, WorkerSound, Typed, ListedOK, Handling
  <1>2. CASE pc[v] # "idle"
    <2>1. \A e \in Of(scope[v]) :
              /\ e \in Events /\ e.record \in Records
              /\ e \notin Of(run) /\ e.record \notin Touched(run)
      <3> TAKE e \in Of(scope[v])
      <3>1. e \in Events /\ e.record \in Records
        BY OfTyped, EventTyped
      <3>2. e.record \in Touched(scope[v])
        BY DEF Touched
      <3>3. e.record \notin Touched(run)
        BY <1>2, <3>2 DEF Within
      <3>4. e \notin Of(run)
        BY <3>3 DEF Touched
      <3> QED
        BY <3>1, <3>3, <3>4
    <2>2. \A e \in Of(scope[v]) :
              /\ outbox'[e] = outbox[e]
              /\ chroma'[e.record] = chroma[e.record]
              /\ index'[e.record] = index[e.record]
      BY <2>1 DEF Within
    <2>3. todo[v] \subseteq Of(scope[v])
      BY DEF Typed, ListedOK
    <2>4. pc[v] \in Handling => event[v] \in Of(scope[v])
      BY DEF Typed, TypeOK, Handling
    <2>5. /\ pc'[v] = pc[v] /\ scope'[v] = scope[v]
          /\ todo'[v] = todo[v] /\ event'[v] = event[v]
      BY DEF Within
    <2>6. \A e \in todo'[v] : Due(e)'
      BY <2>2, <2>3, <2>5 DEF WorkerSound, Due
    <2>7. pc'[v] \in Handling =>
              /\ Due(event[v])' /\ event'[v] = event[v]
              /\ chroma'[event[v].record] = chroma[event[v].record]
              /\ index'[event[v].record] = index[event[v].record]
      BY <2>2, <2>4, <2>5 DEF WorkerSound, Due
    <2>8. pc'[v] = "drained" => \A e \in Of(scope'[v]) : outbox'[e] \in {"none", "succeeded"}
      BY <2>2, <2>5 DEF WorkerSound
    <2>9. /\ pc'[v] \in {"record", "markSucceeded"} =>
                chroma'[event'[v].record] = Effect(event[v])
          /\ pc'[v] = "markSucceeded" => index'[event'[v].record] = Effect(event[v])
      BY <2>5, <2>7 DEF WorkerSound, Handling
    <2>10. pc'[v] \in Handling => Due(event[v])' /\ event'[v] = event[v]
      BY <2>7
    <2> QED
      BY <2>5, <2>6, <2>8, <2>9, <2>10 DEF WorkerSound, Handling, Due, Effect
  <1> QED
    BY <1>1, <1>2

\* Records whose events do not change their status, and which are not written,
\* are as sound as they were.
RecordSound(r) ==
    Settled(r) =>
        /\ chroma[r] = index[r]
        /\ Committed(r) # {} => \E e \in Committed(r) : chroma[r] = Effect(e)

LEMMA RecordKept ==
    ASSUME NEW r \in Records, RecordSound(r),
           \A e \in Events : e.record = r => outbox'[e] = outbox[e],
           chroma'[r] = chroma[r], index'[r] = index[r]
    PROVE  RecordSound(r)'
  <1>1. Committed(r)' = Committed(r)
    BY DEF Committed
  <1>2. Settled(r)' <=> Settled(r)
    BY <1>1 DEF Settled, Committed
  <1> QED
    BY <1>1, <1>2 DEF RecordSound, Effect

\* A record that has an event to be done is not settled.
LEMMA RecordDue ==
    ASSUME NEW e \in Events, outbox'[e] \in {"pending", "failed"}
    PROVE  RecordSound(e.record)'
  BY DEF RecordSound, Settled, Committed
\* A commit makes events due that had not been committed, and no more.
LEMMA CommitSound ==
    ASSUME ~Overlap, Sound, NEW w \in Workers, NEW run \in Runs, NEW m,
           NEW E \in SUBSET Of(run), Commit(w, run, E, m)
    PROVE  /\ \A v \in Workers : WorkerSound(v)'
           /\ \A r \in Records : RecordSound(r)'
  <1> USE DEF Sound, Typed, TypeOK, ListedOK
  <1>1. /\ pc[w] = "idle" /\ pc' = [pc EXCEPT ![w] = "list"]
        /\ scope' = [scope EXCEPT ![w] = run]
        /\ \A e \in Events :
              outbox'[e] = IF e \in E /\ outbox[e] = "none" THEN "pending" ELSE outbox[e]
        /\ chroma' = chroma /\ index' = index /\ todo' = todo /\ event' = event
    BY DEF Commit, Goto, Enqueue, sweep
  <1>2. \A v \in Workers : pc[v] = "idle" \/ Touched(scope[v]) \cap Touched(run) = {}
    BY DEF Commit
  <1>3. Within(w, run)
    BY <1>1, <1>2 DEF Within
  <1>4. WorkerSound(w)'
    BY <1>1 DEF WorkerSound, Handling
  <1>5. ASSUME NEW r \in Records
        PROVE  RecordSound(r)'
    <2>1. CASE \E e \in E : e.record = r /\ outbox[e] = "none"
      <3>1. PICK e \in E : e.record = r /\ outbox[e] = "none"
        BY <2>1
      <3>2. e \in Events /\ outbox'[e] = "pending"
        BY <1>1, <3>1, OfTyped
      <3> QED
        BY <3>1, <3>2, RecordDue
    <2>2. CASE ~\E e \in E : e.record = r /\ outbox[e] = "none"
      BY <1>1, <2>2, RecordKept DEF SettledAgrees, RecordSound
    <2> QED
      BY <2>1, <2>2
  <1> QED
    BY <1>3, <1>4, <1>5, OthersSound

\* The worker's own run: nobody else is at its records.
LEMMA OwnWithin ==
    ASSUME Sound, NEW w \in Workers, pc[w] # "idle",
           \A v \in Workers \ {w} :
              /\ pc'[v] = pc[v] /\ scope'[v] = scope[v]
              /\ todo'[v] = todo[v] /\ event'[v] = event[v],
           \A e \in Events \ Of(scope[w]) : outbox'[e] = outbox[e],
           \A r \in Records \ Touched(scope[w]) : chroma'[r] = chroma[r] /\ index'[r] = index[r]
    PROVE  Within(w, scope[w])
  BY DEF Sound, Apart, Within

\* The events a worker takes, and their records, are its run's.
LEMMA TakenTyped ==
    ASSUME Typed, NEW w \in Workers
    PROVE  /\ \A e \in todo[w] : /\ e \in Events /\ e \in Of(scope[w])
                                /\ e.record \in Records /\ e.record \in Touched(scope[w])
           /\ pc[w] \in Handling =>
                /\ event[w] \in Events /\ event[w] \in Of(scope[w])
                /\ event[w].record \in Records /\ event[w].record \in Touched(scope[w])
  <1>1. /\ todo[w] \subseteq Of(scope[w])
        /\ pc[w] \in Handling => event[w] \in Of(scope[w])
    BY DEF Typed, TypeOK, ListedOK, Handling
  <1> QED
    BY <1>1, OfTyped, EventTyped DEF Touched

\* Applying an event: its record has an event to be done, before and after.
LEMMA ApplySound ==
    ASSUME Sound, NEW w \in Workers, NEW e \in Events, Apply(w, e) \/ ApplyFails(w, e)
    PROVE  /\ \A v \in Workers : WorkerSound(v)'
           /\ \A r \in Records : RecordSound(r)'
  <1> USE DEF Sound, Typed, TypeOK, ListedOK
  <1>1. /\ pc[w] = "apply" /\ e \in todo[w]
        /\ event' = [event EXCEPT ![w] = e]
        /\ todo' = [todo EXCEPT ![w] = @ \ {e}]
        /\ outbox' = outbox /\ index' = index /\ scope' = scope
        /\ \/ /\ pc' = [pc EXCEPT ![w] = "record"]
              /\ chroma' = [chroma EXCEPT ![e.record] = Effect(e)]
           \/ /\ pc' = [pc EXCEPT ![w] = "markFailed"]
              /\ chroma' \in {chroma, [chroma EXCEPT ![e.record] = Effect(e)]}
    BY DEF Apply, ApplyFails, Take, Goto, task
  <1>2. /\ e \in Of(scope[w]) /\ e.record \in Records
        /\ e.record \in Touched(scope[w]) /\ Due(e)
    BY <1>1, TakenTyped DEF WorkerSound
  <1>3. \A r \in Records : r # e.record => chroma'[r] = chroma[r]
    BY <1>1
  <1>4. Within(w, scope[w])
    BY <1>1, <1>2, <1>3, OwnWithin
  <1>5. WorkerSound(w)'
    <2>1. event'[w] = e /\ todo'[w] \subseteq todo[w]
      BY <1>1
    <2>2. pc'[w] = "record" => chroma'[e.record] = Effect(e)
      BY <1>1, <1>2
    <2> QED
      BY <1>1, <1>2, <2>1, <2>2 DEF WorkerSound, Due, Handling, Effect
  <1>6. ASSUME NEW r \in Records
        PROVE  RecordSound(r)'
    <2>1. CASE r = e.record
      BY <1>1, <1>2, <2>1, RecordDue DEF Due
    <2>2. CASE r # e.record
      BY <1>1, <1>3, <2>2, RecordKept DEF SettledAgrees, RecordSound
    <2> QED
      BY <2>1, <2>2
  <1> QED
    BY <1>4, <1>5, <1>6, OthersSound
\* Recording an event: it is still to be done.
LEMMA RecordStepSound ==
    ASSUME Sound, NEW w \in Workers, Record(w)
    PROVE  /\ \A v \in Workers : WorkerSound(v)'
           /\ \A r \in Records : RecordSound(r)'
  <1> USE DEF Sound, Typed, TypeOK, ListedOK
  <1> DEFINE e == event[w]
  <1>1. /\ pc[w] = "record" /\ pc' = [pc EXCEPT ![w] = "markSucceeded"]
        /\ index' = [index EXCEPT ![e.record] = Effect(e)]
        /\ outbox' = outbox /\ chroma' = chroma
        /\ scope' = scope /\ todo' = todo /\ event' = event
    BY DEF Record, Goto, task, sweep
  <1>2. /\ e \in Events /\ e \in Of(scope[w]) /\ e.record \in Records
        /\ e.record \in Touched(scope[w]) /\ Due(e)
    BY <1>1, TakenTyped DEF WorkerSound, Handling
  <1>3. \A r \in Records : r # e.record => index'[r] = index[r]
    BY <1>1
  <1>4. Within(w, scope[w])
    BY <1>1, <1>2, <1>3, OwnWithin
  <1>5. WorkerSound(w)'
    <2>1. index'[e.record] = Effect(e) /\ chroma'[e.record] = Effect(e)
      BY <1>1, <1>2 DEF WorkerSound
    <2> QED
      BY <1>1, <1>2, <2>1 DEF WorkerSound, Due, Handling, Effect
  <1>6. ASSUME NEW r \in Records
        PROVE  RecordSound(r)'
    <2>1. CASE r = e.record
      BY <1>1, <1>2, <2>1, RecordDue DEF Due
    <2>2. CASE r # e.record
      BY <1>1, <1>3, <2>2, RecordKept DEF SettledAgrees, RecordSound
    <2> QED
      BY <2>1, <2>2
  <1> QED
    BY <1>4, <1>5, <1>6, OthersSound

\* Marking an event: what succeeded has been written to both stores.
LEMMA MarkSound ==
    ASSUME Sound, NEW w \in Workers, MarkSucceeded(w) \/ MarkFailed(w)
    PROVE  /\ \A v \in Workers : WorkerSound(v)'
           /\ \A r \in Records : RecordSound(r)'
  <1> USE DEF Sound, Typed, TypeOK, ListedOK
  <1> DEFINE e == event[w]
  <1>1. PICK outcome \in {"succeeded", "failed"} :
            /\ pc[w] \in {"markSucceeded", "markFailed"}
            /\ outcome = "succeeded" => pc[w] = "markSucceeded"
            /\ Mark(w, outcome)
    BY DEF MarkSucceeded, MarkFailed
  <1>2. /\ outbox' = [outbox EXCEPT ![e] = outcome]
        /\ pc' = [pc EXCEPT ![w] = "apply"]
        /\ event' = [event EXCEPT ![w] = Nothing]
        /\ chroma' = chroma /\ index' = index /\ scope' = scope /\ todo' = todo
    BY <1>1 DEF Mark, Goto, task
  <1>3. /\ e \in Events /\ e \in Of(scope[w]) /\ e.record \in Records
        /\ e.record \in Touched(scope[w])
    BY <1>1, TakenTyped DEF Handling
  <1>4. \A f \in Events : f # e => outbox'[f] = outbox[f]
    BY <1>2
  <1>5. Within(w, scope[w])
    BY <1>1, <1>2, <1>3, <1>4, OwnWithin
  <1>6. ASSUME NEW r \in Records
        PROVE  RecordSound(r)'
    <2>1. CASE r # e.record
      BY <1>2, <1>4, <2>1, RecordKept DEF SettledAgrees, RecordSound
    <2>2. CASE r = e.record /\ outcome = "failed"
      BY <1>2, <1>3, <2>2, RecordDue
    <2>3. CASE r = e.record /\ outcome = "succeeded"
      <3>1. chroma'[r] = Effect(e) /\ index'[r] = Effect(e)
        BY <1>1, <1>2, <2>3 DEF WorkerSound
      <3>2. e \in Committed(r)'
        BY <1>2, <1>3, <2>3 DEF Committed
      <3> QED
        BY <3>1, <3>2 DEF RecordSound, Effect
    <2> QED
      BY <2>1, <2>2, <2>3
  <1>7. e \notin todo[w]
    BY <1>1 DEF Handling
  <1>8. WorkerSound(w)'
    BY <1>2, <1>4, <1>7, TakenTyped DEF WorkerSound, Due, Handling
  <1> QED
    BY <1>5, <1>6, <1>8, OthersSound

\* A worker that lists, counts, leaves or gives up changes no store.
LEMMA QuietSound ==
    ASSUME Sound, NEW w \in Workers,
           \/ List(w) \/ Count(w) \/ RecordFails(w)
           \/ Raise(w) \/ Return(w) \/ Crash(w)
    PROVE  /\ \A v \in Workers : WorkerSound(v)'
           /\ \A r \in Records : RecordSound(r)'
  <1> USE DEF Sound, Typed, TypeOK, ListedOK
  <1>1. /\ pc[w] # "idle" /\ outbox' = outbox /\ chroma' = chroma /\ index' = index
        /\ \A v \in Workers \ {w} :
              /\ pc'[v] = pc[v] /\ scope'[v] = scope[v]
              /\ todo'[v] = todo[v] /\ event'[v] = event[v]
    BY DEF List, Count, RecordFails, Raise, Return, Crash, Leave, Goto, stores, task, sweep
  <1>2. Within(w, scope[w])
    BY <1>1, OwnWithin
  <1>3. \A r \in Records : RecordSound(r)'
    BY <1>1, RecordKept DEF SettledAgrees, RecordSound
  <1>4. WorkerSound(w)'
    <2>1. CASE List(w)
      <3>1. PICK S \in SUBSET Retryable(scope[w]) : todo' = [todo EXCEPT ![w] = S]
        BY <2>1 DEF List
      <3>2. pc'[w] = "apply"
        BY <2>1 DEF List, Goto
      <3> QED
        BY <1>1, <3>1, <3>2 DEF WorkerSound, Due, Handling, Retryable
    <2>2. CASE Count(w)
      <3>1. /\ pc'[w] = Judge(w) /\ todo' = todo /\ todo[w] = {} /\ scope' = scope
        BY <2>2 DEF Count, Goto, task, sweep
      <3>2. Judge(w) \notin Handling
        BY DEF Judge, Handling
      <3>3. Judge(w) = "drained" => Retryable(scope[w]) = {}
        BY DEF Judge
      <3>4. Judge(w) = "drained" => \A e \in Of(scope[w]) : outbox[e] \in {"none", "succeeded"}
        BY <3>3, OfTyped DEF Retryable
      <3> QED
        BY <1>1, <3>1, <3>2, <3>4 DEF WorkerSound, Handling
    <2>3. CASE RecordFails(w)
      BY <2>3 DEF RecordFails, Goto, stores, sweep, WorkerSound, Due, Handling
    <2>4. CASE Raise(w)
      BY <2>4 DEF Raise, Goto, stores, sweep, WorkerSound, Due, Handling
    <2>5. CASE Return(w) \/ Crash(w)
      BY <2>5 DEF Return, Crash, Leave, Goto, WorkerSound, Handling
    <2> QED
      BY <2>1, <2>2, <2>3, <2>4, <2>5
  <1> QED
    BY <1>2, <1>3, <1>4, OthersSound

\* The invariant is inductive.
LEMMA StepSound == ~Overlap /\ Sound /\ [Next]_vars => Sound'
  <1> SUFFICES ASSUME ~Overlap, Sound, [Next]_vars PROVE Sound'
    OBVIOUS
  <1>1. Typed' /\ Apart'
    BY StepTyped, ApartStep DEF Sound
  <1>2. /\ \A w \in Workers : WorkerSound(w)'
        /\ \A r \in Records : RecordSound(r)'
    <2>1. CASE CalmDown \/ UNCHANGED vars
      <3>1. UNCHANGED <<stores, pc, task, sweep>>
        BY <2>1 DEF CalmDown, vars
      <3>2. \A w \in Workers : WorkerSound(w)'
        BY <3>1 DEF Sound, WorkerSound, Due, Effect, stores, task, sweep, Handling
      <3>3. \A r \in Records : RecordSound(r)'
        BY <3>1, RecordKept DEF Sound, SettledAgrees, RecordSound, stores
      <3> QED
        BY <3>2, <3>3
    <2>2. ASSUME NEW w \in Workers, Step(w)
          PROVE  /\ \A v \in Workers : WorkerSound(v)'
                 /\ \A r \in Records : RecordSound(r)'
      BY <2>2, ApplySound, RecordStepSound, MarkSound, QuietSound DEF Step
    <2> QED
      BY <2>1, <2>2, CommitSound, ApplySound, QuietSound DEF Next
  <1>3. SettledAgrees'
    BY <1>2 DEF SettledAgrees, RecordSound
  <1> QED
    BY <1>1, <1>2, <1>3 DEF Sound

\* Nothing is committed, listed or written at first.
LEMMA InitSound == Init => Sound
  <1> SUFFICES ASSUME Init PROVE Sound
    OBVIOUS
  <1>1. Typed
    BY InitTyped
  <1>2. \A w \in Workers : pc[w] = "idle" /\ todo[w] = {}
    BY DEF Init
  <1>3. Apart /\ \A w \in Workers : WorkerSound(w)
    BY <1>2 DEF Apart, WorkerSound, Handling
  <1>4. SettledAgrees
    BY DEF Init, SettledAgrees, Committed
  <1> QED
    BY <1>1, <1>3, <1>4 DEF Sound

LEMMA SoundAlways ==
    ASSUME ~Overlap
    PROVE  Spec => []Sound
  BY InitSound, StepSound, PTL DEF Spec

\* Once the work on a record is settled, Chroma and the index state agree on it, and
\* hold what one of its events says.
THEOREM StoresAgree ==
    ASSUME ~Overlap
    PROVE  Spec => []SettledAgrees
  BY SoundAlways, PTL DEF Sound

\* What the service takes for drained has been applied and recorded in full.
THEOREM DrainedHolds ==
    ASSUME ~Overlap
    PROVE  Spec => []DrainedIsDone
  <1>1. Sound => DrainedIsDone
    BY DEF Sound, WorkerSound, DrainedIsDone
  <1> QED
    BY <1>1, SoundAlways, PTL

\* What has succeeded is not done again: a worker marks only what was due.
THEOREM SucceededForever ==
    ASSUME ~Overlap
    PROVE  Spec => SucceededIsFinal
  <1>1. Sound /\ [Next]_vars =>
          [\A e \in Events : outbox[e] = "succeeded" => outbox'[e] = "succeeded"]_vars
    <2> SUFFICES ASSUME Sound, Next, NEW e \in Events, outbox[e] = "succeeded"
                 PROVE  outbox'[e] = "succeeded"
      OBVIOUS
    <2>1. ASSUME NEW w \in Workers, NEW run, NEW E, NEW m, Commit(w, run, E, m)
          PROVE  outbox'[e] = "succeeded"
      BY <2>1 DEF Commit, Enqueue
    <2>2. ASSUME NEW w \in Workers, MarkSucceeded(w) \/ MarkFailed(w)
          PROVE  outbox'[e] = "succeeded"
      <3>1. Due(event[w])
        BY <2>2 DEF MarkSucceeded, MarkFailed, Sound, WorkerSound, Handling
      <3>2. e # event[w]
        BY <3>1 DEF Due
      <3> QED
        BY <2>2, <3>2 DEF MarkSucceeded, MarkFailed, Mark, Sound, Typed, TypeOK
    <2>3. ASSUME outbox' = outbox
          PROVE  outbox'[e] = "succeeded"
      BY <2>3
    <2> QED
      BY <2>1, <2>2, <2>3
      DEF Next, Step, List, Apply, ApplyFails, Take, Record, Count, Return, RecordFails,
          Raise, Crash, CalmDown, stores
  <1> QED
    BY <1>1, SoundAlways, PTL DEF Spec, SucceededIsFinal

\* Chroma changes for work that is due, and only then: nothing is played back.
THEOREM NothingReplayed ==
    ASSUME ~Overlap
    PROVE  Spec => NoReplay
  <1>1. Sound /\ [Next]_vars =>
          [\A r \in Records : chroma'[r] # chroma[r] =>
             \E e \in Events : /\ e.record = r
                               /\ outbox[e] \in {"pending", "failed"}
                               /\ chroma'[r] = Effect(e)]_vars
    <2> SUFFICES ASSUME Sound, Next, NEW r \in Records, chroma'[r] # chroma[r]
                 PROVE  \E e \in Events : /\ e.record = r
                                          /\ outbox[e] \in {"pending", "failed"}
                                          /\ chroma'[r] = Effect(e)
      OBVIOUS
    <2>1. PICK w \in Workers, e \in Events : Apply(w, e) \/ ApplyFails(w, e)
      BY DEF Next, Step, Commit, List, Record, MarkSucceeded, MarkFailed, Mark, Count, Return,
             RecordFails, Raise, Crash, CalmDown, stores
    <2>2. /\ e \in todo[w]
          /\ chroma' \in {chroma, [chroma EXCEPT ![e.record] = Effect(e)]}
      BY <2>1 DEF Apply, ApplyFails, Take
    <2>3. Due(e)
      BY <2>2 DEF Sound, WorkerSound
    <2>4. r = e.record /\ chroma'[r] = Effect(e)
      BY <2>2 DEF Sound, Typed, TypeOK
    <2> QED
      BY <2>3, <2>4 DEF Due
  <1> QED
    BY <1>1, SoundAlways, PTL DEF Spec, NoReplay
=============================================================================
