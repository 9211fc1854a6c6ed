--------------------------- MODULE ContentLedger ---------------------------
(***************************************************************************)
(* The content-addressed reuse ledger (ingestion/content_ledger.py) and    *)
(* the batches of chunks that claim, tag, embed, complete and release its  *)
(* rows (DocumentChunkTaggingService in ingestion/use_cases.py).           *)
(*                                                                         *)
(* One ledger row exists per key: the content digest together with the     *)
(* tagging input, the tagging profile and the embedding profile.  Every    *)
(* _reserve, _complete and _fail is one SQLite transaction and hence one   *)
(* action.  What happens between two of them is not atomic: each one is    *)
(* awaited on a worker thread, other processors run meanwhile, and a       *)
(* processor can be cancelled or die at any of those points.               *)
(*                                                                         *)
(* Time is relative.  A row carries its age, counted in ticks since the    *)
(* clock value stored in updated_at; a processor about to run _reserve     *)
(* carries the age of the clock value it read before it was handed to the  *)
(* worker thread.  Ages saturate where no comparison can tell them apart,  *)
(* so the state space is finite without a bound on time.                   *)
(***************************************************************************)
EXTENDS Naturals, Sequences, FiniteSets

CONSTANTS
    Keys,          \* identities of chunk content (ContentReservation.identity)
    Results,       \* tagging results a provider may return
    Processors,    \* concurrent ingestion processes and tasks
    Batches,       \* the sequences of keys a processor may be asked to prepare
    Tokens,        \* reservation tokens (uuid4); enough that one is always free
    Timeout,       \* processing_timeout, in ticks
    MaxHop,        \* longest time, in ticks, from clock read to transaction
    CanCrash,      \* whether a processor may die
    CanCancel,     \* whether a processor may be cancelled inside a transaction
    None           \* NULL

ASSUME BatchesAssumption == Batches \subseteq Seq(Keys) \ {<<>>}
ASSUME TimeoutAssumption == Timeout \in Nat \ {0}
ASSUME MaxHopAssumption  == MaxHop \in Nat
ASSUME NoneAssumption    == None \notin Results \union Tokens

VARIABLES
    ledger,        \* processed_chunk_content: one row per key
    pc,            \* where each processor is
    batch,         \* the chunks it prepares, by key
    at,            \* the chunk it works on
    readAge,       \* age of the clock value read for the pending _reserve
    slot,          \* its reservations: a token, or None when it holds no claim
    run            \* its tagging results, None until known

vars == <<ledger, pc, batch, at, readAge, slot, run>>
procVars == <<pc, batch, at, readAge, slot, run>>

-----------------------------------------------------------------------------
(* Rows.                                                                   *)

MaxAge == Timeout + MaxHop

\* Seeded faults for the mutation runs stand before the definition they break.
\* Fault: completion forgets to store the result.
ReadyWithoutResult(r) ==
    [status |-> "ready", token |-> None, result |-> None, age |-> 0]

Absent == [status |-> "absent", token |-> None, result |-> None, age |-> 0]
Ready(r) == [status |-> "ready", token |-> None, result |-> r, age |-> 0]
Failed == [status |-> "failed", token |-> None, result |-> None, age |-> 0]
Processing(t, a) ==
    [status |-> "processing", token |-> t, result |-> None, age |-> a]

IsReady(k) == ledger[k].status = "ready"

\* Fault: an off-by-one lets a claim go one tick early.
InFlightOffByOne(k, a) ==
    /\ ledger[k].status = "processing"
    /\ ledger[k].age + 1 < Timeout + a

\* Fault: a claim never goes stale.
InFlightForever(k, a) == ledger[k].status = "processing"

\* A row is in flight for a clock value of age a when that value is less
\* than the timeout after updated_at.
InFlight(k, a) ==
    /\ ledger[k].status = "processing"
    /\ ledger[k].age < Timeout + a

\* Fault: the READY answer is forgotten, finished content is claimed again.
ClaimableReady(k, a) == ~InFlight(k, a)

\* Everything else is up for a claim: no row, a failed row, a stale claim.
Claimable(k, a) == ~IsReady(k) /\ ~InFlight(k, a)

\* Fault: the WHERE clause forgets the token.
OwnsAnyToken(k, t) == ledger[k].status = "processing"

\* Fault: a stale claim counts as lost before anybody took it over.
OwnsWhileFresh(k, t) ==
    /\ ledger[k].status = "processing"
    /\ ledger[k].token = t
    /\ ledger[k].age < Timeout

\* The WHERE clause of _complete and _fail.
Owns(k, t) == ledger[k].status = "processing" /\ ledger[k].token = t

InUse ==
    {ledger[k].token : k \in Keys}
        \union UNION {{slot[p][i] : i \in DOMAIN slot[p]} : p \in Processors}

\* Fault: tokens are not unique.
AnyTokens == Tokens

\* uuid4().hex: a token nobody holds.
FreshTokens == Tokens \ InUse

-----------------------------------------------------------------------------
(* Processors.                                                             *)

NoSlots(b) == [i \in DOMAIN b |-> None]

Init ==
    /\ ledger = [k \in Keys |-> Absent]
    /\ pc = [p \in Processors |-> "idle"]
    /\ batch = [p \in Processors |-> <<>>]
    /\ at = [p \in Processors |-> 1]
    /\ readAge = [p \in Processors |-> 0]
    /\ slot = [p \in Processors |-> <<>>]
    /\ run = [p \in Processors |-> <<>>]

Key(p) == batch[p][at[p]]

\* Fault: local reuse looks at the batch but not at the key.
LocalRunsAnyKey(p) ==
    {i \in DOMAIN batch[p] : i < at[p] /\ run[p][i] # None}

\* The positions whose run local_runs holds for the current chunk's key.
LocalRuns(p) ==
    {i \in DOMAIN batch[p] :
        i < at[p] /\ batch[p][i] = Key(p) /\ run[p][i] # None}

Goto(p, label, position) ==
    /\ pc' = [pc EXCEPT ![p] = label]
    /\ at' = [at EXCEPT ![p] = position]

Forget(p, label) ==
    /\ Goto(p, label, 1)
    /\ batch' = [batch EXCEPT ![p] = <<>>]
    /\ slot' = [slot EXCEPT ![p] = <<>>]
    /\ run' = [run EXCEPT ![p] = <<>>]
    /\ readAge' = [readAge EXCEPT ![p] = 0]

\* Chunk i of the batch now has run r (None: skipped); move to the next chunk.
\* A batch with a skipped chunk is given up: its claims are released.
NextChunk(p, r) ==
    LET runs == [run[p] EXCEPT ![at[p]] = r]
    IN  /\ run' = [run EXCEPT ![p] = runs]
        /\ \/ /\ at[p] < Len(batch[p])
              /\ Goto(p, "clock", at[p] + 1)
           \/ /\ at[p] = Len(batch[p])
              /\ IF \E i \in DOMAIN runs : runs[i] = None
                    THEN Goto(p, "failing", 1)
                    ELSE Goto(p, "embed", 1)

\* A caller asks for a batch to be prepared.
Begin(p, b) ==
    /\ pc[p] = "idle"
    /\ Goto(p, "clock", 1)
    /\ batch' = [batch EXCEPT ![p] = b]
    /\ slot' = [slot EXCEPT ![p] = NoSlots(b)]
    /\ run' = [run EXCEPT ![p] = NoSlots(b)]
    /\ UNCHANGED <<ledger, readAge>>

\* reserve() reads the clock, then hands the transaction to a worker thread.
ReadClock(p) ==
    /\ pc[p] = "clock"
    /\ pc' = [pc EXCEPT ![p] = "reserve"]
    /\ readAge' = [readAge EXCEPT ![p] = 0]
    /\ UNCHANGED <<ledger, batch, at, slot, run>>

\* The row _reserve leaves behind for key k: untouched when the content is
\* ready or in flight, else claimed with a fresh token.
Reserve(p, k) ==
    IF Claimable(k, readAge[p])
        THEN \E t \in FreshTokens :
                ledger' = [ledger EXCEPT ![k] = Processing(t, readAge[p])]
        ELSE UNCHANGED ledger

\* An earlier chunk of the batch has the same key: its run is reused, and
\* whatever _reserve answered is dropped.
ReserveLocal(p) ==
    /\ pc[p] = "reserve"
    /\ LocalRuns(p) # {}
    /\ Reserve(p, Key(p))
    /\ \E i \in LocalRuns(p) : NextChunk(p, run[p][i])
    /\ UNCHANGED <<batch, readAge, slot>>

\* The content was completed before: its cached result is reused.
ReserveReady(p) ==
    /\ pc[p] = "reserve"
    /\ LocalRuns(p) = {}
    /\ IsReady(Key(p))
    /\ NextChunk(p, ledger[Key(p)].result)
    /\ UNCHANGED <<ledger, batch, readAge, slot>>

\* Another claim is in flight: the chunk is skipped.
ReserveInFlight(p) ==
    /\ pc[p] = "reserve"
    /\ LocalRuns(p) = {}
    /\ InFlight(Key(p), readAge[p])
    /\ NextChunk(p, None)
    /\ UNCHANGED <<ledger, batch, readAge, slot>>

\* The claim is granted.
ReserveClaim(p) ==
    /\ pc[p] = "reserve"
    /\ LocalRuns(p) = {}
    /\ Claimable(Key(p), readAge[p])
    /\ \E t \in FreshTokens :
        /\ ledger' = [ledger EXCEPT ![Key(p)] = Processing(t, readAge[p])]
        /\ slot' = [slot EXCEPT ![p][at[p]] = t]
    /\ pc' = [pc EXCEPT ![p] = "tag"]
    /\ UNCHANGED <<batch, at, readAge, run>>

\* The provider answers.
Tag(p) ==
    /\ pc[p] = "tag"
    /\ \E r \in Results : NextChunk(p, r)
    /\ UNCHANGED <<ledger, batch, readAge, slot>>

\* The index records are embedded.
Embed(p) ==
    /\ pc[p] = "embed"
    /\ Goto(p, "complete", 1)
    /\ UNCHANGED <<ledger, batch, readAge, slot, run>>

\* complete() walks the reservations; a claim taken over meanwhile raises
\* "content reservation is no longer owned by this processor".
Complete(p) ==
    LET i == at[p]
        k == Key(p)
        next == IF i = Len(batch[p]) THEN Goto(p, "done", 1)
                                     ELSE Goto(p, "complete", i + 1)
    IN  /\ pc[p] = "complete"
        /\ \/ /\ slot[p][i] = None
              /\ next
              /\ UNCHANGED ledger
           \/ /\ slot[p][i] # None
              /\ Owns(k, slot[p][i])
              /\ ledger' = [ledger EXCEPT ![k] = Ready(run[p][i])]
              /\ next
           \/ /\ slot[p][i] # None
              /\ ~Owns(k, slot[p][i])
              /\ Goto(p, "failing", 1)
              /\ UNCHANGED ledger
        /\ UNCHANGED <<batch, readAge, slot, run>>

\* A provider error, a SQLite error or a cancellation that no transaction
\* survives: the reservations recorded so far are released.
Abort(p) ==
    /\ pc[p] \in {"clock", "reserve", "tag", "embed", "complete"}
    /\ Goto(p, "failing", 1)
    /\ UNCHANGED <<ledger, batch, readAge, slot, run>>

\* A cancellation reaches the awaiting task while its worker thread goes on
\* to commit the claim: the reservation is granted to nobody.
AbandonReserve(p) ==
    /\ CanCancel
    /\ pc[p] = "reserve"
    /\ Claimable(Key(p), readAge[p])
    /\ Reserve(p, Key(p))
    /\ Goto(p, "failing", 1)
    /\ UNCHANGED <<batch, readAge, slot, run>>

\* fail() walks the reservations; one that is no longer owned is left alone.
Fail(p) ==
    LET i == at[p]
        k == Key(p)
    IN  /\ pc[p] = "failing"
        /\ ledger' = IF slot[p][i] # None /\ Owns(k, slot[p][i])
                        THEN [ledger EXCEPT ![k] = Failed]
                        ELSE ledger
        /\ IF i = Len(batch[p])
              THEN Forget(p, "idle")
              ELSE /\ Goto(p, "failing", i + 1)
                   /\ UNCHANGED <<batch, readAge, slot, run>>

\* The caller has the completed batch.
Return(p) ==
    /\ pc[p] = "done"
    /\ Forget(p, "idle")
    /\ UNCHANGED ledger

\* The process dies and nothing in memory survives; or a cancellation reaches a
\* batch past prepare, or an error fail() itself, where no handler releases it.
Crash(p) ==
    /\ CanCrash
    /\ pc[p] \notin {"idle", "down"}
    /\ Forget(p, "down")
    /\ UNCHANGED ledger

Restart(p) ==
    /\ pc[p] = "down"
    /\ Forget(p, "idle")
    /\ UNCHANGED ledger

\* Time passes.  A transaction starts within MaxHop of its clock read.
Tick ==
    /\ \A p \in Processors : pc[p] = "reserve" => readAge[p] < MaxHop
    /\ ledger' = [k \in Keys |->
                    IF ledger[k].status = "processing" /\ ledger[k].age < MaxAge
                        THEN [ledger[k] EXCEPT !.age = @ + 1]
                        ELSE ledger[k]]
    /\ readAge' = [p \in Processors |->
                    IF pc[p] = "reserve" THEN readAge[p] + 1 ELSE readAge[p]]
    /\ UNCHANGED <<pc, batch, at, slot, run>>

RunReserve(p) ==
    \/ ReserveLocal(p)
    \/ ReserveReady(p)
    \/ ReserveInFlight(p)
    \/ ReserveClaim(p)

\* The steps of the code, as opposed to its callers, its clock and its faults.
Work(p) ==
    \/ ReadClock(p)
    \/ RunReserve(p)
    \/ Tag(p)
    \/ Embed(p)
    \/ Complete(p)
    \/ Fail(p)
    \/ Return(p)

Next ==
    \/ \E p \in Processors :
        \/ \E b \in Batches : Begin(p, b)
        \/ Work(p)
        \/ Abort(p)
        \/ AbandonReserve(p)
        \/ Crash(p)
        \/ Restart(p)
    \/ Tick

Spec == Init /\ [][Next]_vars

\* The processors run on, the clock advances, callers that were refused a batch
\* come back with it, and faults do not hit every single attempt before it
\* reaches its transaction.
Fairness ==
    /\ SF_vars(Tick)
    /\ \A p \in Processors :
        /\ WF_vars(Work(p))
        /\ SF_vars(ReadClock(p))
        /\ SF_vars(RunReserve(p))
        /\ WF_vars(Restart(p))
        /\ \A b \in Batches : SF_vars(Begin(p, b))

FairSpec == Spec /\ Fairness

-----------------------------------------------------------------------------
(* Properties.                                                             *)

Rows ==
    [status : {"absent", "processing", "ready", "failed"},
     token : Tokens \union {None},
     result : Results \union {None},
     age : 0..MaxAge]

Labels == {"idle", "clock", "reserve", "tag", "embed", "complete", "failing",
           "done", "down"}

\* Every variable has its type, and a row's columns fit its status: a token
\* exactly while it is processing, a result exactly once it is ready.
TypeOK ==
    /\ ledger \in [Keys -> Rows]
    /\ pc \in [Processors -> Labels]
    /\ batch \in [Processors -> Batches \union {<<>>}]
    /\ at \in [Processors -> Nat \ {0}]
    /\ readAge \in [Processors -> 0..MaxHop]
    /\ DOMAIN slot = Processors /\ DOMAIN run = Processors
    /\ \A p \in Processors :
        /\ slot[p] \in [DOMAIN batch[p] -> Tokens \union {None}]
        /\ run[p] \in [DOMAIN batch[p] -> Results \union {None}]
    /\ \A k \in Keys :
        /\ (ledger[k].token # None) <=> (ledger[k].status = "processing")
        /\ (ledger[k].result # None) <=> (ledger[k].status = "ready")

\* At most one chunk of one processor can complete a row: a claim that took a
\* stale one over shares nothing with it.
OneOwner ==
    \A k \in Keys : \A p, q \in Processors :
        \A i \in DOMAIN slot[p] : \A j \in DOMAIN slot[q] :
            /\ ledger[k].status = "processing"
            /\ slot[p][i] = ledger[k].token
            /\ slot[q][j] = ledger[k].token
            => p = q /\ i = j

\* What a completed batch hands to its caller is, chunk by chunk, what the
\* ledger hands to everyone who asks for that content later.
CompletedAgrees ==
    \A p \in Processors : pc[p] = "done" =>
        \A i \in DOMAIN batch[p] :
            /\ IsReady(batch[p][i])
            /\ ledger[batch[p][i]].result = run[p][i]

\* Completed content is never tagged again, failed or overwritten.
ReadyIsFinal ==
    [][\A k \in Keys : IsReady(k) => ledger'[k] = ledger[k]]_vars

\* Only the processor whose claim is current publishes a result, and it
\* publishes its own: the late answer of a superseded claim never lands.
PublishedByOwner ==
    [][\A k \in Keys :
        ~IsReady(k) /\ IsReady(k)' =>
            \E p \in Processors : \E i \in DOMAIN slot[p] :
                /\ batch[p][i] = k
                /\ slot[p][i] = ledger[k].token
                /\ slot[p][i] # None
                /\ ledger'[k].result = run[p][i]]_vars

\* A claim is taken from its holder by another claim only when it is stale on
\* the true clock, however long the taker's own clock value is out of date.
NoEarlyTakeover ==
    [][\A k \in Keys :
        /\ ledger[k].status = "processing"
        /\ ledger'[k].status = "processing"
        /\ ledger'[k].token # ledger[k].token
        => ledger[k].age >= Timeout]_vars

\* A processor that gave its batch up in an orderly way leaves none of its
\* recorded claims behind.
FailureReleases ==
    [][\A p \in Processors :
        pc[p] = "failing" /\ pc'[p] = "idle" =>
            \A k \in Keys : \A i \in DOMAIN slot[p] :
                slot[p][i] # None => ledger'[k].token # slot[p][i]]_vars

\* A batch that was given up in an orderly way leaves its chunks retryable: no
\* chunk of it stays claimed by a token nobody holds ("Release reservations so
\* provider failures remain retryable.", ingestion/use_cases.py).
FailureIsRetryable ==
    [][\A p \in Processors :
        pc[p] = "failing" /\ pc'[p] = "idle" =>
            \A i \in DOMAIN batch[p] :
                ledger'[batch[p][i]].status = "processing" =>
                    \E q \in Processors : \E j \in DOMAIN slot'[q] :
                        slot'[q][j] = ledger'[batch[p][i]].token]_vars

\* No claim blocks its content forever, not even one whose holder died.
ClaimsEnd ==
    \A k \in Keys : \A t \in Tokens :
        (ledger[k].token = t) ~> (ledger[k].token # t)

-----------------------------------------------------------------------------
(* What the ledger promises: a write-once cache.                           *)

\* The content a processor hands to its caller when its batch is done.
Delivered(p) ==
    [k \in Keys |->
        IF pc[p] = "done" /\ \E i \in DOMAIN batch[p] : batch[p][i] = k
            THEN run[p][CHOOSE i \in DOMAIN batch[p] : batch[p][i] = k]
            ELSE None]

Cache == INSTANCE ReuseCache WITH
    cache <- [k \in Keys |-> ledger[k].result],
    answer <- [p \in Processors |-> Delivered(p)]

\* Whatever claims, leases, crashes and retries do, the ledger implements the
\* write-once cache.
ImplementsCache == Cache!Spec
=============================================================================
