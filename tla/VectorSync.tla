----------------------------- MODULE VectorSync -----------------------------
(***************************************************************************)
(* The transactional outbox of vector work (tagging/vector_outbox.py), the *)
(* synchronisation that applies it to Chroma and records what it did       *)
(* (ingestion/vector_sync.py, ingestion/vector_state.py), and the two ways *)
(* in which the ingestion service drains it: after every chunk, until      *)
(* nothing is left, and once when the document is done                     *)
(* (ingestion/services.py).                                                *)
(*                                                                         *)
(* Three stores are written one after the other for every event: Chroma,   *)
(* the index state and the outbox.  No transaction spans two of them, and  *)
(* a worker may fail or die between any two writes.                        *)
(*                                                                         *)
(* An event is its own identity, as its identifier is a digest of what it  *)
(* says.  For the same reason the order of the identifiers, in which the   *)
(* outbox lists its events, has nothing to do with the order in which they *)
(* were committed: a worker takes them in any order.                       *)
(***************************************************************************)
EXTENDS Naturals, FiniteSets

CONSTANTS
    Runs,          \* ingestion runs
    Records,       \* Chroma records
    Values,        \* what an upsert writes
    Events,        \* the events a run may commit
    Workers,       \* processes that commit and synchronise
    Limit,         \* sync_limit
    Overlap,       \* whether workers may be at work on the same records at once
    CanCrash,      \* whether a worker may be killed
    None           \* no record

Operations == {"upsert", "delete"}

ASSUME EventsAssumption ==
    Events \subseteq [run : Runs, record : Records, op : Operations, value : Values]
ASSUME LimitAssumption == Limit \in Nat \ {0}
ASSUME NoneAssumption == None \notin Values

VARIABLES
    outbox,        \* the status of each event, "none" before it is committed
    chroma,        \* the records of the vector store
    index,         \* vector_index_state: what is believed to be there
    pc,            \* where each worker is
    scope,         \* the run it works for
    mode,          \* "checkpoint" or "final"
    todo,          \* the listed events it has not been through
    event,         \* the event it is at
    tally,         \* which of the counts of the sweep are positive
    calm           \* whether the environment has stopped producing faults

stores == <<outbox, chroma, index>>
task == <<scope, mode>>
sweep == <<todo, event, tally>>
vars == <<stores, pc, task, sweep, calm>>

Nothing == [run |-> None, record |-> None, op |-> None, value |-> None]

Init ==
    /\ outbox = [e \in Events |-> "none"]
    /\ chroma = [r \in Records |-> None]
    /\ index = [r \in Records |-> None]
    /\ pc = [w \in Workers |-> "idle"]
    /\ scope = [w \in Workers |-> None]
    /\ mode = [w \in Workers |-> "final"]
    /\ todo = [w \in Workers |-> {}]
    /\ event = [w \in Workers |-> Nothing]
    /\ tally = [w \in Workers |-> {}]
    /\ calm = FALSE

Goto(w, label) == pc' = [pc EXCEPT ![w] = label]

\* What a worker knew of its task is gone when it is back at "idle".
Leave(w) ==
    /\ Goto(w, "idle")
    /\ scope' = [scope EXCEPT ![w] = None]
    /\ mode' = [mode EXCEPT ![w] = "final"]
    /\ todo' = [todo EXCEPT ![w] = {}]
    /\ event' = [event EXCEPT ![w] = Nothing]
    /\ tally' = [tally EXCEPT ![w] = {}]

Of(run) == {e \in Events : e.run = run}
Touched(run) == {e.record : e \in Of(run)}

\* Fault: what has succeeded is listed again.
RetryableAll(run) == {e \in Of(run) : outbox[e] # "none"}

\* Fault: a failed event is not listed again.
RetryableFresh(run) == {e \in Of(run) : outbox[e] = "pending"}

\* The events of a run that list_pending and count_pending see.
Retryable(run) == {e \in Of(run) : outbox[e] \in {"pending", "failed"}}

\* What applying e leaves in its record.
Effect(e) == IF e.op = "upsert" THEN e.value ELSE None

\* Fault: an event committed again is scheduled again, whatever its status.
EnqueueAgain(E) ==
    outbox' = [e \in Events |-> IF e \in E THEN "pending" ELSE outbox[e]]

\* _enqueue_event: an event that is known already is left as it is.
Enqueue(E) ==
    outbox' = [e \in Events |->
                IF e \in E /\ outbox[e] = "none" THEN "pending" ELSE outbox[e]]

-----------------------------------------------------------------------------
(* A worker commits events of its run and synchronises them.               *)

Commit(w, run, E, m) ==
    /\ pc[w] = "idle"
    /\ \/ Overlap
       \/ \A v \in Workers : pc[v] = "idle" \/ Touched(scope[v]) \cap Touched(run) = {}
    /\ Enqueue(E)
    /\ scope' = [scope EXCEPT ![w] = run]
    /\ mode' = [mode EXCEPT ![w] = m]
    /\ Goto(w, "list")
    /\ UNCHANGED <<chroma, index, sweep, calm>>

\* sync_pending lists at most Limit events.
List(w) ==
    LET P == Retryable(scope[w])
        n == IF Cardinality(P) < Limit THEN Cardinality(P) ELSE Limit
    IN  /\ pc[w] = "list"
        /\ \E S \in SUBSET P : Cardinality(S) = n /\ todo' = [todo EXCEPT ![w] = S]
        /\ tally' = [tally EXCEPT ![w] = {}]
        /\ Goto(w, "apply")
        /\ UNCHANGED <<stores, task, event, calm>>

Take(w, e) ==
    /\ pc[w] = "apply"
    /\ e \in todo[w]
    /\ event' = [event EXCEPT ![w] = e]
    /\ todo' = [todo EXCEPT ![w] = @ \ {e}]
    /\ UNCHANGED <<outbox, index, task, tally, calm>>

\* Chroma takes the event.
Apply(w, e) ==
    /\ Take(w, e)
    /\ chroma' = [chroma EXCEPT ![e.record] = Effect(e)]
    /\ Goto(w, "record")

\* Chroma raises; the write may have happened all the same.
ApplyFails(w, e) ==
    /\ ~calm
    /\ Take(w, e)
    /\ chroma' \in {chroma, [chroma EXCEPT ![e.record] = Effect(e)]}
    /\ Goto(w, "markFailed")

\* mark_synced or remove_record.
Record(w) ==
    /\ pc[w] = "record"
    /\ index' = [index EXCEPT ![event[w].record] = Effect(event[w])]
    /\ Goto(w, "markSucceeded")
    /\ UNCHANGED <<outbox, chroma, task, sweep, calm>>

RecordFails(w) ==
    /\ ~calm
    /\ pc[w] = "record"
    /\ Goto(w, "markFailed")
    /\ UNCHANGED <<stores, task, sweep, calm>>

\* The outbox is told the outcome of the event.
Mark(w, outcome) ==
    /\ outbox' = [outbox EXCEPT ![event[w]] = outcome]
    /\ tally' = [tally EXCEPT ![w] = @ \union {outcome}]
    /\ event' = [event EXCEPT ![w] = Nothing]
    /\ Goto(w, "apply")
    /\ UNCHANGED <<chroma, index, task, todo, calm>>

MarkSucceeded(w) == pc[w] = "markSucceeded" /\ Mark(w, "succeeded")

\* Fault: the exception is swallowed.
SucceededAnyway(w) == pc[w] = "markFailed" /\ Mark(w, "succeeded")

MarkFailed(w) == pc[w] = "markFailed" /\ Mark(w, "failed")

\* Fault: the service trusts a sweep without counting what it left over.
JudgeUncounted(w) == IF "failed" \in tally[w] THEN "failed" ELSE "drained"

\* What the service makes of a sweep: an event failed; nothing is left; some is
\* left, and the checkpoint goes on or has made no progress.
Judge(w) ==
    IF "failed" \in tally[w] THEN "failed"
    ELSE IF Retryable(scope[w]) = {} THEN "drained"
    ELSE IF mode[w] = "checkpoint" /\ "succeeded" \in tally[w] THEN "list"
    ELSE "left"

\* The sweep is over: failures and pending_count decide.
Count(w) ==
    /\ pc[w] = "apply"
    /\ todo[w] = {}
    /\ Goto(w, Judge(w))
    /\ UNCHANGED <<stores, task, sweep, calm>>

\* The outbox itself raises out of sync_pending.
Raise(w) ==
    /\ ~calm
    /\ \/ pc[w] \in {"list", "markSucceeded", "markFailed"}
       \/ pc[w] = "apply" /\ todo[w] = {}
    /\ Goto(w, "failed")
    /\ UNCHANGED <<stores, task, sweep, calm>>

\* The run goes on with its next chunk, becomes ready, or has failed.
Return(w) ==
    /\ pc[w] \in {"drained", "left", "failed"}
    /\ Leave(w)
    /\ UNCHANGED <<stores, calm>>

\* The worker is killed.
Crash(w) ==
    /\ CanCrash /\ ~calm
    /\ pc[w] # "idle"
    /\ Leave(w)
    /\ UNCHANGED <<stores, calm>>

\* From now on: no errors and no crashes.
CalmDown ==
    /\ ~calm
    /\ calm' = TRUE
    /\ UNCHANGED <<stores, pc, task, sweep>>

Step(w) ==
    \/ List(w)
    \/ \E e \in Events : Apply(w, e)
    \/ Record(w) \/ MarkSucceeded(w) \/ MarkFailed(w)
    \/ Count(w) \/ Return(w)

Next ==
    \/ \E w \in Workers :
        \/ \E run \in Runs, m \in {"checkpoint", "final"} :
            \E E \in SUBSET Of(run) : Commit(w, run, E, m)
        \/ Step(w)
        \/ \E e \in Events : ApplyFails(w, e)
        \/ RecordFails(w)
        \/ Raise(w)
        \/ Crash(w)
    \/ CalmDown

Spec == Init /\ [][Next]_vars

\* Workers go on, every run is resumed again and again, the faults stop some day.
Fairness ==
    /\ WF_vars(CalmDown)
    /\ \A w \in Workers :
        /\ WF_vars(Step(w))
        /\ \A run \in Runs : SF_vars(Commit(w, run, {}, "final"))

FairSpec == Spec /\ Fairness

-----------------------------------------------------------------------------
(* Properties.                                                             *)

Labels == {"idle", "list", "apply", "record", "markSucceeded", "markFailed",
           "drained", "left", "failed"}

\* Every variable has its type; an event under way belongs to the worker's run.
TypeOK ==
    /\ outbox \in [Events -> {"none", "pending", "failed", "succeeded"}]
    /\ chroma \in [Records -> Values \union {None}]
    /\ index \in [Records -> Values \union {None}]
    /\ pc \in [Workers -> Labels]
    /\ scope \in [Workers -> Runs \union {None}]
    /\ mode \in [Workers -> {"checkpoint", "final"}]
    /\ todo \in [Workers -> SUBSET Events]
    /\ event \in [Workers -> Events \union {Nothing}]
    /\ tally \in [Workers -> SUBSET {"succeeded", "failed"}]
    /\ calm \in BOOLEAN
    /\ \A w \in Workers : pc[w] \in {"record", "markSucceeded", "markFailed"} =>
        event[w] \in Of(scope[w])

Committed(r) == {e \in Events : e.record = r /\ outbox[e] # "none"}
Settled(r) == \A e \in Committed(r) : outbox[e] = "succeeded"

\* Once all work on a record is settled, Chroma and the index state agree on it,
\* and what they hold is what one of its events says: no failure or crash between
\* the three writes leaves a difference that no pending event would repair ("The
\* durable identity and embedding inputs for one indexed entity.",
\* ingestion/vector_state.py).
SettledAgrees ==
    \A r \in Records : Settled(r) =>
        /\ chroma[r] = index[r]
        /\ Committed(r) # {} => \E e \in Committed(r) : chroma[r] = Effect(e)

\* When the service goes on to the next chunk, or to mark_ready, every event the
\* run has committed is in Chroma.
DrainedIsDone ==
    \A w \in Workers : pc[w] = "drained" =>
        \A e \in Of(scope[w]) : outbox[e] \in {"none", "succeeded"}

\* An event is done once and for all: what has succeeded is not applied again by
\* a later commit of the same work ("idempotent work items for vector
\* synchronization", tagging/vector_outbox.py).
SucceededIsFinal ==
    [][\A e \in Events : outbox[e] = "succeeded" => outbox'[e] = "succeeded"]_vars

\* Chroma changes only for an event that is still to be done, and then to what
\* the event says: what was done is never played back, as an upsert would be that
\* comes again after the record has been deleted (list_pending).
NoReplay ==
    [][\A r \in Records : chroma'[r] # chroma[r] =>
        \E e \in Events : /\ e.record = r
                          /\ outbox[e] \in {"pending", "failed"}
                          /\ chroma'[r] = Effect(e)]_vars

\* Every committed event is applied in the end, whatever fails on the way.
WorkIsDone == \A e \in Events : outbox[e] = "pending" ~> outbox[e] = "succeeded"
=============================================================================
