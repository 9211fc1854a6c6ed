---------------------------- MODULE ReuseProofs ----------------------------
(***************************************************************************)
(* Theorems about what is computed once and kept: the results of chunks    *)
(* (ContentLedger), for any set of keys, processors, results, batches and  *)
(* tokens and any timeout; the pages of the PDF viewer (LayoutJobs), for   *)
(* any jobs, posts and number of pages; and the vectors of the index       *)
(* (DocumentIndex), for any calls, versions and chunks.                    *)
(***************************************************************************)
EXTENDS ContentLedger, LayoutJobs, DocumentIndex, SequenceFacts

-----------------------------------------------------------------------------
(***************************************************************************)
(* ContentLedger                                                           *)
(***************************************************************************)

Busy == {"clock", "reserve", "tag", "embed", "complete", "failing"}

\* A processor at work stands at a chunk of its batch.
PositionOK == \A p \in Processors : pc[p] \in Busy => at[p] \in DOMAIN batch[p]

\* From embedding on, every chunk of the batch has its tagging result.
RunsKnown ==
    \A p \in Processors : pc[p] \in {"embed", "complete", "done"} =>
        \A i \in DOMAIN batch[p] : run[p][i] # None

Typed == TypeOK /\ PositionOK /\ RunsKnown

\* A batch is a non-empty sequence of keys.
LEMMA BatchSeq ==
    ASSUME NEW b \in Batches
    PROVE  /\ b \in Seq(Keys) /\ b # <<>>
           /\ DOMAIN b = 1..Len(b)
           /\ Len(b) \in Nat \ {0}
           /\ 1 \in DOMAIN b
           /\ \A i \in DOMAIN b : b[i] \in Keys
  <1>1. b \in Seq(Keys) /\ b # <<>>
    BY BatchesAssumption
  <1>2. Len(b) \in Nat /\ DOMAIN b = 1..Len(b) /\ \A i \in DOMAIN b : b[i] \in Keys
    BY <1>1
  <1>3. Len(b) # 0
    BY <1>1
  <1> QED
    BY <1>1, <1>2, <1>3

\* A processor at work has a batch of the caller's.
LEMMA BusyBatch ==
    ASSUME Typed, NEW p \in Processors, pc[p] \in Busy
    PROVE  /\ batch[p] \in Batches
           /\ DOMAIN batch[p] = 1..Len(batch[p])
           /\ Len(batch[p]) \in Nat \ {0}
           /\ at[p] \in 1..Len(batch[p])
           /\ Key(p) \in Keys
           /\ slot[p] \in [DOMAIN batch[p] -> Tokens \union {None}]
           /\ run[p] \in [DOMAIN batch[p] -> Results \union {None}]
  <1>1. at[p] \in DOMAIN batch[p]
    BY DEF Typed, PositionOK
  <1>2. batch[p] \in Batches \union {<<>>}
    BY DEF Typed, TypeOK
  <1>3. batch[p] # <<>>
    BY <1>1
  <1>4. batch[p] \in Batches
    BY <1>2, <1>3
  <1>5. /\ DOMAIN batch[p] = 1..Len(batch[p])
        /\ Len(batch[p]) \in Nat \ {0}
        /\ \A i \in DOMAIN batch[p] : batch[p][i] \in Keys
    BY <1>4, BatchSeq
  <1> QED
    BY <1>1, <1>4, <1>5 DEF Typed, TypeOK, Key

\* Each row that _reserve, _complete and _fail write has the type of a row.
LEMMA RowTypes ==
    /\ Absent \in Rows /\ Failed \in Rows
    /\ \A r \in Results : Ready(r) \in Rows
    /\ \A t \in Tokens, a \in 0..MaxHop : Processing(t, a) \in Rows
  <1>1. 0 \in 0..MaxAge /\ \A a \in 0..MaxHop : a \in 0..MaxAge
    BY TimeoutAssumption, MaxHopAssumption DEF MaxAge
  <1> QED
    BY <1>1 DEF Rows, Absent, Failed, Ready, Processing

\* The ledger's part of the type invariant and the processors' part.
LedgerTyped ==
    /\ ledger \in [Keys -> Rows]
    /\ \A k \in Keys :
        /\ (ledger[k].token # None) <=> (ledger[k].status = "processing")
        /\ (ledger[k].result # None) <=> (ledger[k].status = "ready")

ProcessorsTyped ==
    /\ pc \in [Processors -> Labels]
    /\ batch \in [Processors -> Batches \union {<<>>}]
    /\ at \in [Processors -> Nat \ {0}]
    /\ readAge \in [Processors -> 0..MaxHop]
    /\ DOMAIN slot = Processors /\ DOMAIN run = Processors
    /\ \A p \in Processors :
        /\ slot[p] \in [DOMAIN batch[p] -> Tokens \union {None}]
        /\ run[p] \in [DOMAIN batch[p] -> Results \union {None}]
    /\ PositionOK

\* The type invariant is that of the ledger and that of the processors.
LEMMA TypedParts == Typed <=> LedgerTyped /\ ProcessorsTyped /\ RunsKnown
  BY DEF Typed, TypeOK, LedgerTyped, ProcessorsTyped

\* Writing one well-formed row keeps the ledger well-formed.
LEMMA ClaimTyped ==
    ASSUME Typed, NEW k \in Keys, NEW t \in Tokens, NEW a \in 0..MaxHop,
           ledger' = [ledger EXCEPT ![k] = Processing(t, a)]
    PROVE  LedgerTyped'
  <1>1. Processing(t, a) \in Rows
    BY RowTypes
  <1>2. t # None
    BY NoneAssumption
  <1> QED
    BY <1>1, <1>2 DEF Typed, TypeOK, LedgerTyped, Processing

\* Writing a completed row keeps the ledger well-formed.
LEMMA ReadyTyped ==
    ASSUME Typed, NEW k \in Keys, NEW r \in Results,
           ledger' = [ledger EXCEPT ![k] = Ready(r)]
    PROVE  LedgerTyped'
  <1>1. Ready(r) \in Rows
    BY RowTypes
  <1>2. r # None
    BY NoneAssumption
  <1> QED
    BY <1>1, <1>2 DEF Typed, TypeOK, LedgerTyped, Ready

\* Writing a failed row keeps the ledger well-formed.
LEMMA FailedTyped ==
    ASSUME Typed, NEW k \in Keys, ledger' = [ledger EXCEPT ![k] = Failed]
    PROVE  LedgerTyped'
  BY RowTypes DEF Typed, TypeOK, LedgerTyped, Failed

\* Moving a processor to a chunk of its batch keeps the processors well-formed.
LEMMA GotoTyped ==
    ASSUME Typed, NEW p \in Processors, NEW label \in Labels,
           NEW position \in Nat \ {0}, Goto(p, label, position),
           label \in Busy => position \in DOMAIN batch[p], batch' = batch
    PROVE  /\ pc' \in [Processors -> Labels]
           /\ at' \in [Processors -> Nat \ {0}]
           /\ PositionOK'
  <1> USE DEF Typed, TypeOK
  <1>1. /\ pc' = [pc EXCEPT ![p] = label]
        /\ at' = [at EXCEPT ![p] = position]
    BY DEF Goto
  <1>2. ASSUME NEW q \in Processors, pc'[q] \in Busy
        PROVE  at'[q] \in DOMAIN batch[q]
    <2>1. CASE q = p
      BY <1>1, <1>2, <2>1
    <2>2. CASE q # p
      BY <1>1, <1>2, <2>2 DEF PositionOK
    <2> QED
      BY <2>1, <2>2
  <1> QED
    BY <1>1, <1>2 DEF PositionOK

\* Moving on to the next chunk keeps the processors well-formed.
LEMMA NextChunkTyped ==
    ASSUME Typed, NEW p \in Processors, pc[p] \in Busy,
           NEW r \in Results \union {None}, NextChunk(p, r),
           batch' = batch, readAge' = readAge, slot' = slot
    PROVE  ProcessorsTyped'
  <1> USE DEF Typed, TypeOK
  <1>1. /\ DOMAIN batch[p] = 1..Len(batch[p])
        /\ Len(batch[p]) \in Nat \ {0}
        /\ at[p] \in 1..Len(batch[p])
        /\ run[p] \in [DOMAIN batch[p] -> Results \union {None}]
    BY BusyBatch
  <1>2. /\ DOMAIN run' = Processors
        /\ \A q \in Processors :
            run'[q] \in [DOMAIN batch[q] -> Results \union {None}]
    BY <1>1 DEF NextChunk
  <1>3. /\ pc' \in [Processors -> Labels]
        /\ at' \in [Processors -> Nat \ {0}]
        /\ PositionOK'
    <2>1. CASE at[p] < Len(batch[p])
      <3>1. Goto(p, "clock", at[p] + 1)
        BY <1>1, <2>1 DEF NextChunk
      <3>2. at[p] + 1 \in DOMAIN batch[p] /\ at[p] + 1 \in Nat \ {0}
        BY <1>1, <2>1
      <3> QED
        BY <3>1, <3>2, GotoTyped DEF Labels
    <2>2. CASE at[p] = Len(batch[p])
      <3>1. Goto(p, "failing", 1) \/ Goto(p, "embed", 1)
        BY <1>1, <2>2 DEF NextChunk
      <3>2. 1 \in DOMAIN batch[p]
        BY <1>1
      <3> QED
        BY <3>1, <3>2, GotoTyped DEF Labels
    <2> QED
      BY <1>1, <2>1, <2>2
  <1> QED
    BY <1>1, <1>2, <1>3 DEF ProcessorsTyped

\* So does forgetting a batch.
LEMMA ForgetTyped ==
    ASSUME Typed, NEW p \in Processors, NEW label \in {"idle", "down"},
           Forget(p, label)
    PROVE  ProcessorsTyped'
  <1> USE DEF Typed, TypeOK
  <1>1. /\ pc' = [pc EXCEPT ![p] = label]
        /\ at' = [at EXCEPT ![p] = 1]
        /\ batch' = [batch EXCEPT ![p] = <<>>]
        /\ slot' = [slot EXCEPT ![p] = <<>>]
        /\ run' = [run EXCEPT ![p] = <<>>]
        /\ readAge' = [readAge EXCEPT ![p] = 0]
    BY DEF Forget, Goto
  <1>2. /\ pc' \in [Processors -> Labels]
        /\ at' \in [Processors -> Nat \ {0}]
        /\ batch' \in [Processors -> Batches \union {<<>>}]
        /\ readAge' \in [Processors -> 0..MaxHop]
        /\ DOMAIN slot' = Processors /\ DOMAIN run' = Processors
    BY <1>1, MaxHopAssumption DEF Labels
  <1>3. <<>> \in [DOMAIN <<>> -> Tokens \union {None}]
        /\ <<>> \in [DOMAIN <<>> -> Results \union {None}]
    OBVIOUS
  <1>4. ASSUME NEW q \in Processors
        PROVE  /\ slot'[q] \in [DOMAIN batch'[q] -> Tokens \union {None}]
               /\ run'[q] \in [DOMAIN batch'[q] -> Results \union {None}]
    <2>1. CASE q = p
      BY <1>1, <1>3, <2>1
    <2>2. CASE q # p
      BY <1>1, <2>2
    <2> QED
      BY <2>1, <2>2
  <1>5. PositionOK'
    BY <1>1 DEF PositionOK, Busy
  <1> QED
    BY <1>2, <1>4, <1>5 DEF ProcessorsTyped

\* Recording a reservation keeps the slots well-formed.
LEMMA SlotTyped ==
    ASSUME Typed, NEW p \in Processors, pc[p] \in Busy, NEW t \in Tokens,
           slot' = [slot EXCEPT ![p][at[p]] = t],
           batch' = batch
    PROVE  /\ DOMAIN slot' = Processors
           /\ \A q \in Processors :
                slot'[q] \in [DOMAIN batch'[q] -> Tokens \union {None}]
  <1>1. at[p] \in DOMAIN batch[p]
    BY BusyBatch
  <1> QED
    BY <1>1 DEF Typed, TypeOK

-----------------------------------------------------------------------------
(* The type invariant.                                                     *)

\* The type invariant holds initially: no rows, no batches.
LEMMA InitTyped == Init => Typed
  <1> SUFFICES ASSUME Init PROVE Typed
    OBVIOUS
  <1>1. <<>> \in [DOMAIN <<>> -> Tokens \union {None}]
        /\ <<>> \in [DOMAIN <<>> -> Results \union {None}]
    OBVIOUS
  <1>2. ProcessorsTyped
    BY <1>1, MaxHopAssumption
    DEF Init, ProcessorsTyped, Labels, PositionOK, Busy
  <1>3. LedgerTyped
    BY RowTypes DEF Init, LedgerTyped, Absent
  <1>4. RunsKnown
    BY DEF Init, RunsKnown
  <1> QED
    BY <1>2, <1>3, <1>4, TypedParts

\* A processor reaches embedding only from its last chunk, with no chunk
\* skipped, and completes and returns only what it embedded.
LEMMA StepRunsKnown == Typed /\ [Next]_vars => RunsKnown'
  <1> SUFFICES ASSUME Typed, [Next]_vars,
                      NEW p \in Processors, pc'[p] \in {"embed", "complete", "done"},
                      NEW i \in DOMAIN batch'[p]
               PROVE  run'[p][i] # None
    BY DEF RunsKnown
  <1> USE DEF Typed, TypeOK
  <1>1. CASE UNCHANGED <<pc, batch, run>>
    BY <1>1 DEF RunsKnown
  <1>2. ASSUME NEW q \in Processors, NEW r, NextChunk(q, r), batch' = batch
        PROVE  run'[p][i] # None
    <2>1. CASE q # p
      BY <1>2, <2>1 DEF NextChunk, Goto, RunsKnown
    <2>2. CASE q = p
      BY <1>2, <2>2 DEF NextChunk, Goto
    <2> QED
      BY <2>1, <2>2
  <1>3. ASSUME NEW q \in Processors, NEW label, NEW position,
               Goto(q, label, position), UNCHANGED <<batch, run>>,
               label \in {"embed", "complete", "done"} =>
                    pc[q] \in {"embed", "complete"}
        PROVE  run'[p][i] # None
    BY <1>3 DEF Goto, RunsKnown
  <1>4. ASSUME NEW q \in Processors, NEW label \in {"idle", "down"},
               Forget(q, label)
        PROVE  run'[p][i] # None
    BY <1>4 DEF Forget, Goto, RunsKnown
  <1>5. ASSUME NEW q \in Processors, NEW b \in Batches, Begin(q, b)
        PROVE  run'[p][i] # None
    BY <1>5 DEF Begin, Goto, RunsKnown
  <1>6. ASSUME NEW q \in Processors, Work(q)
        PROVE  run'[p][i] # None
    <2>1. CASE ReadClock(q)
      BY <2>1 DEF ReadClock, RunsKnown
    <2>2. CASE RunReserve(q)
      <3>1. CASE ReserveClaim(q)
        BY <3>1 DEF ReserveClaim, RunsKnown
      <3> QED
        BY <1>2, <2>2, <3>1
        DEF RunReserve, ReserveLocal, ReserveReady, ReserveInFlight
    <2>3. CASE Tag(q)
      BY <1>2, <2>3 DEF Tag
    <2>4. CASE Embed(q)
      BY <1>3, <2>4 DEF Embed
    <2>5. CASE Complete(q)
      BY <1>3, <2>5 DEF Complete
    <2>6. CASE Fail(q)
      BY <1>3, <1>4, <2>6 DEF Fail
    <2>7. CASE Return(q)
      BY <1>4, <2>7 DEF Return
    <2> QED
      BY <1>6, <2>1, <2>2, <2>3, <2>4, <2>5, <2>6, <2>7 DEF Work
  <1>7. ASSUME NEW q \in Processors, Abort(q) \/ AbandonReserve(q)
        PROVE  run'[p][i] # None
    BY <1>3, <1>7 DEF Abort, AbandonReserve
  <1>8. ASSUME NEW q \in Processors, Crash(q) \/ Restart(q)
        PROVE  run'[p][i] # None
    BY <1>4, <1>8 DEF Crash, Restart
  <1> QED
    BY <1>1, <1>5, <1>6, <1>7, <1>8 DEF Next, Tick, vars

\* One case per action: what it writes is well-formed, the rest is unchanged.
LEMMA StepTyped == Typed /\ [Next]_vars => Typed'
  <1> SUFFICES ASSUME Typed, [Next]_vars PROVE LedgerTyped' /\ ProcessorsTyped'
    BY TypedParts, StepRunsKnown DEF Typed, TypeOK, PositionOK, RunsKnown, LedgerTyped, ProcessorsTyped, Rows
  <1>0. LedgerTyped /\ ProcessorsTyped
    BY TypedParts
  <1>1. ASSUME ledger' = ledger PROVE LedgerTyped'
    BY <1>0, <1>1 DEF LedgerTyped
  <1>2. ASSUME NEW p \in Processors, NEW b \in Batches, Begin(p, b)
        PROVE  LedgerTyped' /\ ProcessorsTyped'
    <2>1. ledger' = ledger
      BY <1>2 DEF Begin
    <2>2. 1 \in DOMAIN b
      BY BatchSeq
    <2>3. NoSlots(b) \in [DOMAIN b -> Tokens \union {None}]
          /\ NoSlots(b) \in [DOMAIN b -> Results \union {None}]
      BY DEF NoSlots
    <2>4. /\ pc' = [pc EXCEPT ![p] = "clock"]
          /\ at' = [at EXCEPT ![p] = 1]
          /\ batch' = [batch EXCEPT ![p] = b]
          /\ slot' = [slot EXCEPT ![p] = NoSlots(b)]
          /\ run' = [run EXCEPT ![p] = NoSlots(b)]
          /\ readAge' = readAge
      BY <1>2 DEF Begin, Goto
    <2>5. PositionOK'
      BY <1>0, <2>2, <2>4 DEF ProcessorsTyped, PositionOK
    <2>6. ASSUME NEW q \in Processors
          PROVE  /\ slot'[q] \in [DOMAIN batch'[q] -> Tokens \union {None}]
                 /\ run'[q] \in [DOMAIN batch'[q] -> Results \union {None}]
      BY <1>0, <2>3, <2>4 DEF ProcessorsTyped
    <2> QED
      BY <1>0, <1>1, <2>1, <2>4, <2>5, <2>6 DEF ProcessorsTyped, Labels
  <1>3. ASSUME NEW p \in Processors, ReadClock(p)
        PROVE  LedgerTyped' /\ ProcessorsTyped'
    <2>1. ledger' = ledger
      BY <1>3 DEF ReadClock
    <2>2. PositionOK'
      BY <1>0, <1>3 DEF ReadClock, ProcessorsTyped, PositionOK, Busy
    <2> QED
      BY <1>0, <1>1, <1>3, <2>1, <2>2, MaxHopAssumption
      DEF ReadClock, ProcessorsTyped, Labels
  <1>4. ASSUME NEW p \in Processors, pc[p] = "reserve", Reserve(p, Key(p))
        PROVE  LedgerTyped'
    <2>1. Key(p) \in Keys /\ readAge[p] \in 0..MaxHop
      BY <1>0, <1>4, BusyBatch DEF Busy, ProcessorsTyped
    <2> QED
      BY <1>1, <1>4, <2>1, ClaimTyped DEF Reserve, FreshTokens
  <1>5. ASSUME NEW p \in Processors, ReserveLocal(p)
        PROVE  LedgerTyped' /\ ProcessorsTyped'
    <2>1. PICK i \in LocalRuns(p) : NextChunk(p, run[p][i])
      BY <1>5 DEF ReserveLocal
    <2>2. run[p][i] \in Results \union {None}
      BY <1>0 DEF ProcessorsTyped, LocalRuns
    <2> QED
      BY <1>4, <1>5, <2>1, <2>2, NextChunkTyped DEF ReserveLocal, Busy
  <1>6. ASSUME NEW p \in Processors, ReserveReady(p)
        PROVE  LedgerTyped' /\ ProcessorsTyped'
    <2>1. ledger[Key(p)].result \in Results \union {None}
      BY <1>0, <1>6, BusyBatch DEF ReserveReady, Busy, LedgerTyped, Rows
    <2> QED
      BY <1>1, <1>6, <2>1, NextChunkTyped DEF ReserveReady, Busy
  <1>7. ASSUME NEW p \in Processors, ReserveInFlight(p)
        PROVE  LedgerTyped' /\ ProcessorsTyped'
    BY <1>1, <1>7, NextChunkTyped DEF ReserveInFlight, Busy
  <1>8. ASSUME NEW p \in Processors, ReserveClaim(p)
        PROVE  LedgerTyped' /\ ProcessorsTyped'
    <2>1. PICK t \in Tokens :
            /\ ledger' = [ledger EXCEPT ![Key(p)] = Processing(t, readAge[p])]
            /\ slot' = [slot EXCEPT ![p][at[p]] = t]
      BY <1>8 DEF ReserveClaim, FreshTokens
    <2>2. /\ pc[p] \in Busy
          /\ pc' = [pc EXCEPT ![p] = "tag"]
          /\ batch' = batch /\ at' = at /\ readAge' = readAge /\ run' = run
      BY <1>8 DEF ReserveClaim, Busy
    <2>3. LedgerTyped'
      BY <1>0, <2>1, <2>2, BusyBatch, ClaimTyped DEF ProcessorsTyped
    <2>4. PositionOK'
      BY <1>0, <2>2 DEF ProcessorsTyped, PositionOK, Busy
    <2>5. /\ DOMAIN slot' = Processors
          /\ \A q \in Processors :
                slot'[q] \in [DOMAIN batch'[q] -> Tokens \union {None}]
      BY <2>1, <2>2, SlotTyped
    <2> QED
      BY <1>0, <2>2, <2>3, <2>4, <2>5 DEF ProcessorsTyped, Labels
  <1>9. ASSUME NEW p \in Processors, Tag(p)
        PROVE  LedgerTyped' /\ ProcessorsTyped'
    BY <1>1, <1>9, NextChunkTyped DEF Tag, Busy
  <1>10. ASSUME NEW p \in Processors, pc[p] \in Busy, NEW label \in Labels,
                Goto(p, label, 1),
                UNCHANGED <<batch, readAge, slot, run>>
         PROVE  ProcessorsTyped'
    <2>1. 1 \in DOMAIN batch[p]
      BY <1>10, BusyBatch
    <2> QED
      BY <1>0, <1>10, <2>1, GotoTyped DEF ProcessorsTyped
  <1>11. ASSUME NEW p \in Processors, Embed(p)
         PROVE  LedgerTyped' /\ ProcessorsTyped'
    BY <1>1, <1>10, <1>11 DEF Embed, Busy, Labels
  <1>12. ASSUME NEW p \in Processors, pc[p] \in Busy, NEW label \in Labels,
                at[p] # Len(batch[p]), Goto(p, label, at[p] + 1),
                UNCHANGED <<batch, readAge, slot, run>>
         PROVE  ProcessorsTyped'
    <2>1. at[p] + 1 \in DOMAIN batch[p] /\ at[p] + 1 \in Nat \ {0}
      BY <1>12, BusyBatch
    <2> QED
      BY <1>0, <1>12, <2>1, GotoTyped DEF ProcessorsTyped
  <1>13. ASSUME NEW p \in Processors, Complete(p)
         PROVE  LedgerTyped' /\ ProcessorsTyped'
    <2>1. pc[p] \in Busy /\ UNCHANGED <<batch, readAge, slot, run>>
      BY <1>13 DEF Complete, Busy
    <2>2. \/ Goto(p, "done", 1)
          \/ at[p] # Len(batch[p]) /\ Goto(p, "complete", at[p] + 1)
          \/ Goto(p, "failing", 1)
      BY <1>13 DEF Complete
    <2>3. ProcessorsTyped'
      BY <1>10, <1>12, <2>1, <2>2 DEF Labels
    <2>4. run[p][at[p]] \in Results
      BY <1>13, BusyBatch DEF Complete, Busy, Typed, RunsKnown
    <2>5. CASE ledger' = ledger
      BY <1>1, <2>3, <2>5
    <2>6. CASE ledger' = [ledger EXCEPT ![Key(p)] = Ready(run[p][at[p]])]
      BY <2>1, <2>3, <2>4, <2>6, BusyBatch, ReadyTyped
    <2> QED
      BY <1>13, <2>5, <2>6 DEF Complete
  <1>14. ASSUME NEW p \in Processors, Fail(p)
         PROVE  LedgerTyped' /\ ProcessorsTyped'
    <2>1. pc[p] \in Busy /\ Key(p) \in Keys
      BY <1>14, BusyBatch DEF Fail, Busy
    <2>2. LedgerTyped'
      BY <1>1, <1>14, <2>1, FailedTyped DEF Fail
    <2>3. \/ Forget(p, "idle")
          \/ /\ at[p] # Len(batch[p])
             /\ Goto(p, "failing", at[p] + 1)
             /\ UNCHANGED <<batch, readAge, slot, run>>
      BY <1>14 DEF Fail
    <2> QED
      BY <1>12, <2>1, <2>2, <2>3, ForgetTyped DEF Labels
  <1>15. ASSUME NEW p \in Processors, Return(p) \/ Crash(p) \/ Restart(p)
         PROVE  LedgerTyped' /\ ProcessorsTyped'
    BY <1>1, <1>15, ForgetTyped DEF Return, Crash, Restart
  <1>16. ASSUME NEW p \in Processors, Abort(p)
         PROVE  LedgerTyped' /\ ProcessorsTyped'
    BY <1>1, <1>10, <1>16 DEF Abort, Busy, Labels
  <1>17. ASSUME NEW p \in Processors, AbandonReserve(p)
         PROVE  LedgerTyped' /\ ProcessorsTyped'
    BY <1>4, <1>10, <1>17 DEF AbandonReserve, Busy, Labels
  <1>18. ASSUME Tick
         PROVE  LedgerTyped' /\ ProcessorsTyped'
    <2>1. \A k \in Keys :
            /\ ledger'[k] \in Rows
            /\ ledger'[k].status = ledger[k].status
            /\ ledger'[k].token = ledger[k].token
            /\ ledger'[k].result = ledger[k].result
      BY <1>0, <1>18, TimeoutAssumption, MaxHopAssumption
      DEF Tick, LedgerTyped, Rows, MaxAge
    <2>2. LedgerTyped'
      BY <1>0, <1>18, <2>1 DEF LedgerTyped, Tick
    <2>3. readAge' \in [Processors -> 0..MaxHop]
      BY <1>0, <1>18, MaxHopAssumption DEF Tick, ProcessorsTyped
    <2> QED
      BY <1>0, <1>18, <2>2, <2>3 DEF Tick, ProcessorsTyped, PositionOK
  <1>19. CASE UNCHANGED vars
    BY <1>0, <1>19 DEF vars, LedgerTyped, ProcessorsTyped, PositionOK
  <1> QED
    BY <1>2, <1>3, <1>5, <1>6, <1>7, <1>8, <1>9, <1>11, <1>13, <1>14, <1>15,
       <1>16, <1>17, <1>18, <1>19
    DEF Next, Work, RunReserve

\* In every reachable state every variable has its type, and the columns of
\* every ledger row fit its status.
THEOREM TypeCorrect == Spec => []TypeOK
  <1>1. Spec => []Typed
    BY InitTyped, StepTyped, PTL DEF Spec
  <1>2. Typed => TypeOK
    BY DEF Typed
  <1> QED
    BY <1>1, <1>2, PTL

-----------------------------------------------------------------------------
(* What a step may do to the ledger.                                       *)

ClaimStep ==
    \E p \in Processors : \E t \in FreshTokens :
        /\ pc[p] = "reserve"
        /\ Claimable(Key(p), readAge[p])
        /\ ledger' = [ledger EXCEPT ![Key(p)] = Processing(t, readAge[p])]

CompleteStep ==
    \E p \in Processors :
        /\ pc[p] = "complete"
        /\ slot[p][at[p]] # None
        /\ Owns(Key(p), slot[p][at[p]])
        /\ ledger' = [ledger EXCEPT ![Key(p)] = Ready(run[p][at[p]])]

FailStep ==
    \E p \in Processors :
        /\ pc[p] = "failing"
        /\ Owns(Key(p), slot[p][at[p]])
        /\ ledger' = [ledger EXCEPT ![Key(p)] = Failed]

\* The ledger changes only by a claim, a completion, a release or the clock.
LEMMA LedgerChange ==
    ASSUME [Next]_vars
    PROVE  ledger' = ledger \/ ClaimStep \/ CompleteStep \/ FailStep \/ Tick
  <1>1. ASSUME NEW p \in Processors, Work(p)
        PROVE  ledger' = ledger \/ ClaimStep \/ CompleteStep \/ FailStep
    <2>1. CASE RunReserve(p)
      <3>1. CASE ReserveLocal(p)
        BY <3>1 DEF ReserveLocal, Reserve, ClaimStep
      <3>2. CASE ReserveClaim(p)
        BY <3>2 DEF ReserveClaim, ClaimStep
      <3> QED
        BY <2>1, <3>1, <3>2 DEF RunReserve, ReserveReady, ReserveInFlight
    <2>2. CASE Complete(p)
      BY <2>2 DEF Complete, CompleteStep, Key
    <2>3. CASE Fail(p)
      <3>1. CASE slot[p][at[p]] # None /\ Owns(Key(p), slot[p][at[p]])
        BY <2>3, <3>1 DEF Fail, FailStep
      <3>2. CASE ~(slot[p][at[p]] # None /\ Owns(Key(p), slot[p][at[p]]))
        BY <2>3, <3>2 DEF Fail
      <3> QED
        BY <3>1, <3>2
    <2> QED
      BY <1>1, <2>1, <2>2, <2>3 DEF Work, ReadClock, Tag, Embed, Return
  <1>2. ASSUME NEW p \in Processors, AbandonReserve(p)
        PROVE  ledger' = ledger \/ ClaimStep
    BY <1>2 DEF AbandonReserve, Reserve, ClaimStep
  <1> QED
    BY <1>1, <1>2 DEF Next, vars, Begin, Abort, Crash, Restart

\* No step changes a ready row: a claim needs one that is not ready, completion
\* and failure need one that is processing.
LEMMA ReadyStep ==
    ASSUME Typed, [Next]_vars, NEW k \in Keys, IsReady(k)
    PROVE  ledger'[k] = ledger[k]
  <1> USE DEF Typed, TypeOK, IsReady
  <1>1. CASE ClaimStep
    BY <1>1 DEF ClaimStep, Claimable
  <1>2. CASE CompleteStep
    BY <1>2 DEF CompleteStep, Owns
  <1>3. CASE FailStep
    BY <1>3 DEF FailStep, Owns
  <1>4. CASE Tick
    BY <1>4 DEF Tick
  <1> QED
    BY <1>1, <1>2, <1>3, <1>4, LedgerChange

\* Completed content is never tagged again, failed or overwritten.
THEOREM ReadyForever == Spec => ReadyIsFinal
  <1>1. Typed /\ [Next]_vars =>
            [\A k \in Keys : IsReady(k) => ledger'[k] = ledger[k]]_vars
    BY ReadyStep
  <1>2. Spec => []Typed
    BY InitTyped, StepTyped, PTL DEF Spec
  <1> QED
    BY <1>1, <1>2, PTL DEF Spec, ReadyIsFinal

\* A step that changes the token of a claim is _reserve on a stale row.
LEMMA TakeoverStep ==
    ASSUME Typed, [Next]_vars, NEW k \in Keys,
           ledger[k].status = "processing",
           ledger'[k].status = "processing",
           ledger'[k].token # ledger[k].token
    PROVE  ledger[k].age >= Timeout
  <1> USE DEF Typed, TypeOK
  <1>1. CASE ClaimStep
    <2>1. PICK p \in Processors :
            /\ Claimable(Key(p), readAge[p])
            /\ k = Key(p)
      BY <1>1 DEF ClaimStep
    <2>2. ~(ledger[k].age < Timeout + readAge[p])
      BY <2>1 DEF Claimable, InFlight
    <2> QED
      BY <2>2, TimeoutAssumption, MaxHopAssumption DEF Rows, MaxAge
  <1>2. CASE CompleteStep
    BY <1>2 DEF CompleteStep, Ready
  <1>3. CASE FailStep
    BY <1>3 DEF FailStep, Failed
  <1>4. CASE Tick
    BY <1>4 DEF Tick, Rows
  <1> QED
    BY <1>1, <1>2, <1>3, <1>4, LedgerChange

\* A claim is superseded only when it is stale on the true clock.
THEOREM LeaseHonoured == Spec => NoEarlyTakeover
  <1>1. Typed /\ [Next]_vars =>
            [\A k \in Keys :
                /\ ledger[k].status = "processing"
                /\ ledger'[k].status = "processing"
                /\ ledger'[k].token # ledger[k].token
                => ledger[k].age >= Timeout]_vars
    BY TakeoverStep
  <1>2. Spec => []Typed
    BY InitTyped, StepTyped, PTL DEF Spec
  <1> QED
    BY <1>1, <1>2, PTL DEF Spec, NoEarlyTakeover

\* A step that makes a row ready is the completion by the row's owner.
LEMMA PublishStep ==
    ASSUME Typed, [Next]_vars, NEW k \in Keys, ~IsReady(k), IsReady(k)'
    PROVE  \E p \in Processors : \E i \in DOMAIN slot[p] :
                /\ batch[p][i] = k
                /\ slot[p][i] = ledger[k].token
                /\ slot[p][i] # None
                /\ ledger'[k].result = run[p][i]
  <1> USE DEF Typed, TypeOK, IsReady
  <1>1. CASE ClaimStep
    BY <1>1 DEF ClaimStep, Processing
  <1>2. CASE CompleteStep
    <2>1. PICK p \in Processors :
            /\ pc[p] = "complete"
            /\ slot[p][at[p]] # None
            /\ Owns(Key(p), slot[p][at[p]])
            /\ ledger' = [ledger EXCEPT ![Key(p)] = Ready(run[p][at[p]])]
      BY <1>2 DEF CompleteStep
    <2>2. k = Key(p)
      BY <2>1
    <2>3. at[p] \in DOMAIN slot[p]
      BY <2>1, BusyBatch DEF Busy
    <2> QED
      BY <2>1, <2>2, <2>3 DEF Owns, Ready, Key
  <1>3. CASE FailStep
    BY <1>3 DEF FailStep, Failed
  <1>4. CASE Tick
    BY <1>4 DEF Tick
  <1> QED
    BY <1>1, <1>2, <1>3, <1>4, LedgerChange

\* Only the holder of the current claim publishes, and it publishes its own
\* result.
THEOREM OwnerPublishes == Spec => PublishedByOwner
  <1>1. Typed /\ [Next]_vars =>
            [\A k \in Keys :
                ~IsReady(k) /\ IsReady(k)' =>
                    \E p \in Processors : \E i \in DOMAIN slot[p] :
                        /\ batch[p][i] = k
                        /\ slot[p][i] = ledger[k].token
                        /\ slot[p][i] # None
                        /\ ledger'[k].result = run[p][i]]_vars
    BY PublishStep
  <1>2. Spec => []Typed
    BY InitTyped, StepTyped, PTL DEF Spec
  <1> QED
    BY <1>1, <1>2, PTL DEF Spec, PublishedByOwner

-----------------------------------------------------------------------------
(* Claims are held by one chunk of one processor.                          *)

TokensUnique ==
    \A p, q \in Processors : \A i \in DOMAIN slot[p] : \A j \in DOMAIN slot[q] :
        slot[p][i] # None /\ slot[p][i] = slot[q][j] => p = q /\ i = j

\* Tokens stay unique: the only new one comes from uuid4.
LEMMA TokensStep == Typed /\ TokensUnique /\ [Next]_vars => TokensUnique'
  <1> SUFFICES ASSUME Typed, TokensUnique, [Next]_vars PROVE TokensUnique'
    OBVIOUS
  <1> USE DEF Typed, TypeOK
  <1>1. CASE slot' = slot
    BY <1>1 DEF TokensUnique
  <1>2. ASSUME NEW p \in Processors, NEW b, slot' = [slot EXCEPT ![p] = NoSlots(b)]
        PROVE  TokensUnique'
    BY <1>2 DEF TokensUnique, NoSlots
  <1>3. ASSUME NEW p \in Processors, slot' = [slot EXCEPT ![p] = <<>>]
        PROVE  TokensUnique'
    BY <1>3 DEF TokensUnique
  <1>4. ASSUME NEW p \in Processors, ReserveClaim(p)
        PROVE  TokensUnique'
    <2>1. PICK t \in FreshTokens : slot' = [slot EXCEPT ![p][at[p]] = t]
      BY <1>4 DEF ReserveClaim
    <2>2. \A q \in Processors : \A i \in DOMAIN slot[q] : slot[q][i] # t
      BY <2>1 DEF FreshTokens, InUse
    <2> QED
      BY <2>1, <2>2 DEF TokensUnique
  <1>5. ASSUME NEW p \in Processors, Work(p)
        PROVE  TokensUnique'
    BY <1>1, <1>3, <1>4, <1>5
    DEF Work, RunReserve, ReadClock, ReserveLocal, ReserveReady,
        ReserveInFlight, Tag, Embed, Complete, Fail, Return, Forget
  <1> QED
    BY <1>1, <1>2, <1>3, <1>5
    DEF Next, vars, Begin, Abort, AbandonReserve, Crash, Restart, Forget, Tick

\* No two chunks, of one processor or of two, can both complete a row.
THEOREM SingleOwner == Spec => []OneOwner
  <1>1. Init => TokensUnique
    BY DEF Init, TokensUnique
  <1>2. Spec => []Typed
    BY InitTyped, StepTyped, PTL DEF Spec
  <1>3. Typed /\ TokensUnique => OneOwner
    BY DEF Typed, TypeOK, TokensUnique, OneOwner
  <1> QED
    BY <1>1, <1>2, <1>3, TokensStep, PTL DEF Spec

-----------------------------------------------------------------------------
(* What a batch delivers.                                                  *)

Agrees(p, i) ==
    /\ IsReady(batch[p][i])
    /\ ledger[batch[p][i]].result = run[p][i]

\* A result that stands on no claim of its own was read from a ready row, or
\* stands on the claim of another chunk of the batch with the same key.
Backed(p, i) ==
    \/ slot[p][i] # None
    \/ Agrees(p, i)
    \/ \E j \in DOMAIN batch[p] :
        /\ batch[p][j] = batch[p][i]
        /\ slot[p][j] # None
        /\ run[p][j] = run[p][i]

Preparing == {"clock", "reserve", "tag"}

\* The strengthening behind CompletedAgrees, for one processor.
Deliverable(p) ==
    /\ pc[p] = "tag" => slot[p][at[p]] # None
    /\ pc[p] \in Preparing =>
        \A i \in DOMAIN batch[p] : i >= at[p] => run[p][i] = None
    /\ pc[p] \in Preparing \union {"embed", "complete", "done"} =>
        \A i \in DOMAIN batch[p] : run[p][i] # None => Backed(p, i)
    /\ pc[p] = "complete" =>
        \A i \in DOMAIN batch[p] : i < at[p] /\ slot[p][i] # None => Agrees(p, i)
    /\ pc[p] = "done" =>
        \A i \in DOMAIN batch[p] : slot[p][i] # None => Agrees(p, i)

\* An agreement, once reached, lasts as long as the batch.
LEMMA AgreesStable ==
    ASSUME Typed, [Next]_vars, NEW p \in Processors, NEW i \in DOMAIN batch[p],
           batch'[p] = batch[p], run'[p][i] = run[p][i], Agrees(p, i)
    PROVE  Agrees(p, i)'
  <1>1. batch[p] \in Batches
    BY DEF Typed, TypeOK
  <1>2. batch[p][i] \in Keys
    BY <1>1, BatchSeq
  <1>3. ledger'[batch[p][i]] = ledger[batch[p][i]]
    BY <1>2, ReadyStep DEF Agrees
  <1> QED
    BY <1>3 DEF Agrees, IsReady

\* A backed result stays backed while the batch, its claims and the results
\* it had are kept.
LEMMA BackedStable ==
    ASSUME Typed, [Next]_vars, NEW p \in Processors, NEW i \in DOMAIN batch[p],
           batch'[p] = batch[p],
           \A j \in DOMAIN batch[p] :
               slot[p][j] # None => slot'[p][j] # None,
           \A j \in DOMAIN batch[p] : run[p][j] # None => run'[p][j] = run[p][j],
           run[p][i] # None, Backed(p, i)
    PROVE  Backed(p, i)'
  <1>1. CASE slot[p][i] # None
    BY <1>1 DEF Backed
  <1>2. CASE Agrees(p, i)
    BY <1>2, AgreesStable DEF Backed
  <1>3. CASE \E j \in DOMAIN batch[p] :
                /\ batch[p][j] = batch[p][i]
                /\ slot[p][j] # None
                /\ run[p][j] = run[p][i]
    BY <1>3 DEF Backed
  <1> QED
    BY <1>1, <1>2, <1>3 DEF Backed

\* A processor that does not move keeps what it has.
LEMMA DeliverableIdle ==
    ASSUME Typed, [Next]_vars, NEW p \in Processors, Deliverable(p),
           pc'[p] = pc[p], at'[p] = at[p], batch'[p] = batch[p],
           slot'[p] = slot[p], run'[p] = run[p]
    PROVE  Deliverable(p)'
  <1>1. \A i \in DOMAIN batch[p] : Agrees(p, i) => Agrees(p, i)'
    BY AgreesStable
  <1>2. \A i \in DOMAIN batch[p] :
            run[p][i] # None /\ Backed(p, i) => Backed(p, i)'
    BY BackedStable
  <1> QED
    BY <1>1, <1>2 DEF Deliverable

\* Recording result r for the current chunk, when r is itself backed.
LEMMA DeliverableNext ==
    ASSUME Typed, [Next]_vars, NEW p \in Processors, Deliverable(p),
           pc[p] \in {"reserve", "tag"}, NEW r \in Results \union {None},
           NextChunk(p, r), batch' = batch, slot' = slot,
           \/ slot[p][at[p]] # None
           \/ r = None
           \/ IsReady(Key(p)) /\ ledger[Key(p)].result = r
           \/ \E i \in LocalRuns(p) : run[p][i] = r
    PROVE  Deliverable(p)'
  <1> USE DEF Typed, TypeOK
  <1>1. /\ at[p] \in DOMAIN batch[p]
        /\ DOMAIN batch[p] = 1..Len(batch[p])
        /\ Len(batch[p]) \in Nat
        /\ Key(p) \in Keys
        /\ DOMAIN run[p] = DOMAIN batch[p]
    BY BusyBatch DEF Busy
  <1> PICK n \in DOMAIN batch[p] : n = at[p]
    BY <1>1
  <1>2. run'[p] = [run[p] EXCEPT ![n] = r]
    BY DEF NextChunk
  <1>3. \/ pc'[p] = "clock" /\ at'[p] = at[p] + 1
        \/ pc'[p] = "embed"
        \/ pc'[p] = "failing"
    BY DEF NextChunk, Goto
  <1>4. run[p][n] = None
    BY <1>1 DEF Deliverable, Preparing
  <1>5. \A j \in DOMAIN batch[p] : run[p][j] # None => run'[p][j] = run[p][j]
    BY <1>1, <1>2, <1>4
  <1>6. \A i \in DOMAIN batch[p] :
            run[p][i] # None => Backed(p, i) /\ Backed(p, i)'
    BY <1>5, BackedStable DEF Deliverable, Preparing
  <1>7. r # None => Backed(p, n)'
    <2>1. CASE slot[p][n] # None
      BY <2>1 DEF Backed
    <2>2. CASE IsReady(Key(p)) /\ ledger[Key(p)].result = r
      <3>1. ledger'[Key(p)] = ledger[Key(p)]
        BY <1>1, <2>2, ReadyStep
      <3> QED
        BY <1>1, <1>2, <2>2, <3>1 DEF Backed, Agrees, IsReady, Key
    <2>3. CASE r # None /\ \E i \in LocalRuns(p) : run[p][i] = r
      <3>1. PICK i \in LocalRuns(p) : run[p][i] = r
        BY <2>3
      <3>2. /\ i \in DOMAIN batch[p] /\ batch[p][i] = batch[p][n]
            /\ i # n /\ run[p][i] # None
        BY <1>1, <3>1 DEF LocalRuns, Key
      <3>3. Backed(p, i)' /\ run'[p][i] = r /\ run'[p][n] = r
        BY <1>1, <1>2, <1>6, <3>1, <3>2
      <3> QED
        BY <3>2, <3>3 DEF Backed, Agrees, IsReady
    <2> QED
      BY <2>1, <2>2, <2>3
  <1>8. \A i \in DOMAIN batch'[p] : run'[p][i] # None => Backed(p, i)'
    BY <1>1, <1>2, <1>6, <1>7
  <1>9. pc'[p] = "clock" =>
            \A i \in DOMAIN batch'[p] : i >= at'[p] => run'[p][i] = None
    BY <1>1, <1>2, <1>3 DEF Deliverable, Preparing
  <1> QED
    BY <1>3, <1>8, <1>9 DEF Deliverable, Preparing

\* Completing the chunks in order: each one that holds a claim ends up agreeing
\* with its row.
LEMMA DeliverableComplete ==
    ASSUME Typed, [Next]_vars, NEW p \in Processors, Deliverable(p), Complete(p)
    PROVE  Deliverable(p)'
  <1> USE DEF Typed, TypeOK
  <1>1. /\ at[p] \in DOMAIN batch[p]
        /\ DOMAIN batch[p] = 1..Len(batch[p])
        /\ Len(batch[p]) \in Nat
        /\ Key(p) \in Keys
    BY BusyBatch DEF Busy, Complete
  <1>2. pc[p] = "complete" /\ batch' = batch /\ slot' = slot /\ run' = run
    BY DEF Complete
  <1>3. \A i \in DOMAIN batch[p] : Agrees(p, i) => Agrees(p, i)'
    BY <1>2, AgreesStable
  <1>4. \A i \in DOMAIN batch[p] : run'[p][i] # None => Backed(p, i)'
    BY <1>2, BackedStable DEF Deliverable
  <1>5. CASE pc'[p] = "failing"
    BY <1>5 DEF Deliverable, Preparing
  <1>6. CASE pc'[p] # "failing"
    <2> PICK n \in DOMAIN batch[p] : n = at[p]
      BY <1>1
    <2>1. slot[p][n] # None => Agrees(p, n)'
      BY <1>1, <1>2, <1>6 DEF Complete, Goto, Agrees, IsReady, Ready, Key
    <2>2. \A i \in DOMAIN batch[p] :
            i <= at[p] /\ slot[p][i] # None => Agrees(p, i)'
      BY <1>1, <1>2, <1>3, <2>1 DEF Deliverable
    <2>3. \/ pc'[p] = "done" /\ at[p] = Len(batch[p])
          \/ pc'[p] = "complete" /\ at'[p] = at[p] + 1
      BY <1>6 DEF Complete, Goto
    <2> QED
      BY <1>1, <1>2, <1>4, <2>2, <2>3 DEF Deliverable, Preparing
  <1> QED
    BY <1>5, <1>6

\* What a processor has completed so far stays deliverable: completed rows never
\* change, and completion itself adds the row of the chunk it is at.
LEMMA DeliverableStep ==
    ASSUME Typed, [Next]_vars, \A q \in Processors : Deliverable(q),
           NEW p \in Processors
    PROVE  Deliverable(p)'
  <1> USE DEF Typed, TypeOK
  <1>1. CASE /\ pc'[p] = pc[p] /\ at'[p] = at[p] /\ batch'[p] = batch[p]
             /\ slot'[p] = slot[p] /\ run'[p] = run[p]
    BY <1>1, DeliverableIdle
  <1>2. CASE pc'[p] \in {"idle", "down", "failing"}
    BY <1>2 DEF Deliverable, Preparing
  <1>3. ASSUME NEW b \in Batches, Begin(p, b)
        PROVE  Deliverable(p)'
    BY <1>3 DEF Begin, Goto, NoSlots, Deliverable, Preparing
  <1>4. ASSUME ReadClock(p)
        PROVE  Deliverable(p)'
    <2>1. \A i \in DOMAIN batch[p] : run'[p][i] # None => Backed(p, i)'
      BY <1>4, BackedStable DEF ReadClock, Deliverable, Preparing
    <2> QED
      BY <1>4, <2>1 DEF ReadClock, Deliverable, Preparing
  <1>5. ASSUME RunReserve(p)
        PROVE  Deliverable(p)'
    <2>1. CASE ReserveLocal(p)
      <3>1. PICK i \in LocalRuns(p) : NextChunk(p, run[p][i])
        BY <2>1 DEF ReserveLocal
      <3>2. run[p][i] \in Results \union {None}
        BY <3>1 DEF LocalRuns
      <3> QED
        BY <2>1, <3>1, <3>2, DeliverableNext DEF ReserveLocal
    <2>2. CASE ReserveReady(p)
      <3>1. ledger[Key(p)].result \in Results \union {None}
        BY <2>2, BusyBatch DEF ReserveReady, Busy, Rows
      <3> QED
        BY <2>2, <3>1, DeliverableNext DEF ReserveReady
    <2>3. CASE ReserveInFlight(p)
      BY <2>3, DeliverableNext DEF ReserveInFlight
    <2>4. CASE ReserveClaim(p)
      <3>1. PICK t \in FreshTokens : slot' = [slot EXCEPT ![p][at[p]] = t]
        BY <2>4 DEF ReserveClaim
      <3>2. t # None
        BY <3>1, NoneAssumption DEF FreshTokens
      <3>3. \A j \in DOMAIN batch[p] : slot[p][j] # None => slot'[p][j] # None
        BY <3>1, <3>2
      <3>4. \A i \in DOMAIN batch[p] : run'[p][i] # None => Backed(p, i)'
        BY <2>4, <3>3, BackedStable DEF ReserveClaim, Deliverable, Preparing
      <3>5. slot'[p][at[p]] # None
        BY <2>4, <3>1, <3>2, BusyBatch DEF ReserveClaim, Busy
      <3> QED
        BY <2>4, <3>4, <3>5 DEF ReserveClaim, Deliverable, Preparing
    <2> QED
      BY <1>5, <2>1, <2>2, <2>3, <2>4 DEF RunReserve
  <1>6. ASSUME Tag(p)
        PROVE  Deliverable(p)'
    <2>1. PICK r \in Results : NextChunk(p, r)
      BY <1>6 DEF Tag
    <2>2. slot[p][at[p]] # None
      BY <1>6 DEF Tag, Deliverable
    <2> QED
      BY <1>6, <2>1, <2>2, DeliverableNext DEF Tag
  <1>7. ASSUME Embed(p)
        PROVE  Deliverable(p)'
    <2>1. pc'[p] = "complete" /\ at'[p] = 1 /\ batch' = batch
          /\ slot' = slot /\ run' = run
      BY <1>7 DEF Embed, Goto
    <2>2. \A i \in DOMAIN batch[p] : run'[p][i] # None => Backed(p, i)'
      BY <1>7, <2>1, BackedStable DEF Embed, Deliverable, Preparing
    <2>3. \A i \in DOMAIN batch[p] : ~(i < 1)
      BY <1>7, BusyBatch DEF Embed, Busy
    <2> QED
      BY <2>1, <2>2, <2>3 DEF Deliverable, Preparing
  <1>8. ASSUME NEW q \in Processors, q # p,
               \/ \E b \in Batches : Begin(q, b)
               \/ Work(q) \/ Abort(q) \/ AbandonReserve(q)
               \/ Crash(q) \/ Restart(q)
        PROVE  Deliverable(p)'
    <2>1. /\ pc'[p] = pc[p] /\ at'[p] = at[p] /\ batch'[p] = batch[p]
          /\ slot'[p] = slot[p] /\ run'[p] = run[p]
      BY <1>8 DEF Begin, Work, RunReserve, ReadClock, ReserveLocal, ReserveReady,
                  ReserveInFlight, ReserveClaim, Tag, Embed, Complete, Fail,
                  Return, Abort, AbandonReserve, Crash, Restart, Forget, Goto,
                  NextChunk
    <2> QED
      BY <1>1, <2>1
  <1>9. ASSUME Work(p)
        PROVE  Deliverable(p)'
    <2>1. CASE Fail(p)
      BY <1>2, <2>1 DEF Fail, Forget, Goto
    <2>2. CASE Return(p)
      BY <1>2, <2>2 DEF Return, Forget, Goto
    <2> QED
      BY <1>4, <1>5, <1>6, <1>7, <1>9, <2>1, <2>2, DeliverableComplete DEF Work
  <1>10. CASE Abort(p) \/ AbandonReserve(p) \/ Crash(p) \/ Restart(p)
    BY <1>2, <1>10 DEF Abort, AbandonReserve, Crash, Restart, Forget, Goto
  <1>11. CASE Tick \/ UNCHANGED vars
    BY <1>1, <1>11 DEF Tick, vars
  <1> QED
    BY <1>3, <1>8, <1>9, <1>10, <1>11 DEF Next

Deliverables == \A p \in Processors : Deliverable(p)

\* When all its claims have been completed, a batch agrees with the ledger.
LEMMA DoneAgrees == Typed /\ Deliverables => CompletedAgrees
  <1> SUFFICES ASSUME Typed, Deliverables, NEW p \in Processors, pc[p] = "done",
                      NEW i \in DOMAIN batch[p]
               PROVE  Agrees(p, i)
    BY DEF CompletedAgrees, Agrees
  <1>1. run[p][i] # None
    BY DEF Typed, RunsKnown
  <1>2. Backed(p, i)
    BY <1>1 DEF Deliverables, Deliverable
  <1>3. \A j \in DOMAIN batch[p] : slot[p][j] # None => Agrees(p, j)
    BY DEF Deliverables, Deliverable
  <1> QED
    BY <1>2, <1>3 DEF Backed, Agrees, IsReady

\* The strengthened invariant is inductive.
LEMMA DeliverablesAlways == Spec => [](Typed /\ Deliverables)
  <1>1. Init => Deliverables
    BY DEF Init, Deliverables, Deliverable, Preparing
  <1>2. Typed /\ Deliverables /\ [Next]_vars => Deliverables'
    BY DeliverableStep DEF Deliverables
  <1> QED
    BY <1>1, <1>2, InitTyped, StepTyped, PTL DEF Spec

\* What a completed batch hands to its caller is what the ledger holds.
THEOREM Delivery == Spec => []CompletedAgrees
  BY DeliverablesAlways, DoneAgrees, PTL

-----------------------------------------------------------------------------
(* What a batch leaves behind when it is given up.                         *)

\* A token that a chunk of a batch holds stands in no row but that of the chunk.
AtHome ==
    \A p \in Processors : \A i \in DOMAIN slot[p] : \A k \in Keys :
        slot[p][i] # None /\ ledger[k].token = slot[p][i] => k = batch[p][i]

\* What fail() has walked past is in no row any more.
Released ==
    \A p \in Processors : pc[p] = "failing" =>
        \A i \in DOMAIN slot[p] : i < at[p] /\ slot[p][i] # None =>
            \A k \in Keys : ledger[k].token # slot[p][i]

\* A token that appears in a row is a fresh one, which no chunk had before.
LEMMA NewToken ==
    ASSUME Typed, [Next]_vars, NEW k \in Keys, ledger'[k].token # None,
           ledger'[k].token # ledger[k].token
    PROVE  /\ ledger'[k].token \in FreshTokens
           /\ \E p \in Processors : pc[p] = "reserve" /\ k = Key(p)
           /\ \A l \in Keys : l # k => ledger'[l] = ledger[l]
  <1> USE DEF Typed, TypeOK
  <1>1. CASE ClaimStep
    BY <1>1 DEF ClaimStep, Processing
  <1>2. CASE CompleteStep
    BY <1>2 DEF CompleteStep, Ready
  <1>3. CASE FailStep
    BY <1>3 DEF FailStep, Failed
  <1>4. CASE Tick
    BY <1>4 DEF Tick, Rows
  <1> QED
    BY <1>1, <1>2, <1>3, <1>4, LedgerChange

\* A processor keeps its claims and its batch, has none, or gets the one it claims.
LEMMA SlotChange ==
    ASSUME Typed, [Next]_vars, NEW p \in Processors
    PROVE  \/ slot'[p] = slot[p] /\ batch'[p] = batch[p]
           \/ \A i \in DOMAIN slot'[p] : slot'[p][i] = None
           \/ ReserveClaim(p)
  <1> USE DEF Typed, TypeOK
  <1>1. ASSUME NEW q \in Processors, NEW b, Begin(q, b)
        PROVE  \/ slot'[p] = slot[p] /\ batch'[p] = batch[p]
               \/ \A i \in DOMAIN slot'[p] : slot'[p][i] = None
    BY <1>1 DEF Begin, NoSlots
  <1>2. ASSUME NEW q \in Processors, NEW l, Forget(q, l)
        PROVE  \/ slot'[p] = slot[p] /\ batch'[p] = batch[p]
               \/ \A i \in DOMAIN slot'[p] : slot'[p][i] = None
    BY <1>2 DEF Forget
  <1>3. ASSUME NEW q \in Processors, ReserveClaim(q), q # p
        PROVE  slot'[p] = slot[p] /\ batch'[p] = batch[p]
    BY <1>3 DEF ReserveClaim
  <1>4. ASSUME NEW q \in Processors, Work(q)
        PROVE  \/ slot'[p] = slot[p] /\ batch'[p] = batch[p]
               \/ \A i \in DOMAIN slot'[p] : slot'[p][i] = None
               \/ ReserveClaim(p)
    BY <1>2, <1>3, <1>4
    DEF Work, RunReserve, ReadClock, ReserveLocal, ReserveReady,
        ReserveInFlight, Tag, Embed, Complete, Fail, Return
  <1> QED
    BY <1>1, <1>2, <1>4
    DEF Next, vars, Abort, AbandonReserve, Crash, Restart, Tick

\* A recorded claim is in use, so that no fresh token is equal to it.
LEMMA HeldNotFresh ==
    ASSUME NEW p \in Processors, NEW i \in DOMAIN slot[p]
    PROVE  slot[p][i] \notin FreshTokens
  BY DEF FreshTokens, InUse

\* A claim goes to the row of the chunk that it is for.
LEMMA AtHomeStep == Typed /\ AtHome /\ [Next]_vars => AtHome'
  <1> SUFFICES ASSUME Typed, AtHome, [Next]_vars,
                      NEW p \in Processors, NEW i \in DOMAIN slot'[p], NEW k \in Keys,
                      slot'[p][i] # None, ledger'[k].token = slot'[p][i]
               PROVE  k = batch'[p][i]
    BY DEF AtHome
  <1>1. ASSUME i \in DOMAIN slot[p], slot'[p][i] = slot[p][i], batch'[p] = batch[p]
        PROVE  k = batch'[p][i]
    <2>1. ledger'[k].token = ledger[k].token
      BY <1>1, NewToken, HeldNotFresh
    <2> QED
      BY <1>1, <2>1 DEF AtHome
  <1>2. CASE ReserveClaim(p)
    <2>1. PICK t \in FreshTokens :
            /\ ledger' = [ledger EXCEPT ![Key(p)] = Processing(t, readAge[p])]
            /\ slot' = [slot EXCEPT ![p][at[p]] = t]
      BY <1>2 DEF ReserveClaim
    <2>2. batch' = batch /\ DOMAIN slot'[p] = DOMAIN slot[p]
      BY <1>2, <2>1 DEF ReserveClaim, Typed, TypeOK
    <2>3. CASE i # at[p]
      BY <1>1, <2>1, <2>2, <2>3 DEF Typed, TypeOK
    <2>4. CASE i = at[p]
      <3>1. slot'[p][i] = t
        BY <2>1, <2>2, <2>4 DEF Typed, TypeOK
      <3>2. k = Key(p)
        BY <2>1, <3>1 DEF FreshTokens, InUse, Typed, TypeOK
      <3> QED
        BY <2>2, <2>4, <3>2 DEF Key
    <2> QED
      BY <2>3, <2>4
  <1> QED
    BY <1>1, <1>2, SlotChange

\* What a failing processor does: it goes on with its next chunk, with this one's
\* claim in no row, or its claims are forgotten.
LEMMA FailReleases ==
    ASSUME Typed, AtHome, NEW p \in Processors, Fail(p)
    PROVE  slot[p][at[p]] # None =>
              \A k \in Keys : ledger'[k].token # slot[p][at[p]]
  <1> USE DEF Typed, TypeOK
  <1> SUFFICES ASSUME slot[p][at[p]] # None, NEW k \in Keys
               PROVE  ledger'[k].token # slot[p][at[p]]
    OBVIOUS
  <1>1. /\ at[p] \in DOMAIN slot[p]
        /\ Key(p) \in Keys
    BY BusyBatch DEF Fail, Busy
  <1>2. CASE Owns(Key(p), slot[p][at[p]])
    <2>1. ledger' = [ledger EXCEPT ![Key(p)] = Failed]
      BY <1>2 DEF Fail
    <2>2. CASE k = Key(p)
      BY <1>1, <2>1, <2>2 DEF Failed
    <2>3. CASE k # Key(p)
      BY <1>1, <2>1, <2>3 DEF AtHome, Key
    <2> QED
      BY <2>2, <2>3
  <1>3. CASE ~Owns(Key(p), slot[p][at[p]])
    <2>1. ledger' = ledger
      BY <1>3 DEF Fail
    <2> QED
      BY <1>1, <1>3, <2>1 DEF AtHome, Key, Owns
  <1> QED
    BY <1>2, <1>3

\* A claim that is in no row gets into none.
LEMMA GoneStaysGone ==
    ASSUME Typed, [Next]_vars, NEW p \in Processors, NEW i \in DOMAIN slot[p],
           slot[p][i] # None, NEW k \in Keys, ledger[k].token # slot[p][i]
    PROVE  ledger'[k].token # slot[p][i]
  BY NewToken, HeldNotFresh

\* A batch is failing because its release begins, because nothing happened to it
\* or because fail() went on to its next chunk.
LEMMA FailingMove ==
    ASSUME Typed, [Next]_vars, NEW p \in Processors, pc'[p] = "failing"
    PROVE  \/ at'[p] = 1
           \/ /\ pc[p] = "failing" /\ slot'[p] = slot[p]
              /\ at'[p] = at[p] \/ (Fail(p) /\ at'[p] = at[p] + 1)
  <1> USE DEF Typed, TypeOK
  <1> DEFINE Goal == \/ at'[p] = 1
                     \/ /\ pc[p] = "failing" /\ slot'[p] = slot[p]
                        /\ at'[p] = at[p] \/ (Fail(p) /\ at'[p] = at[p] + 1)
  <1>1. ASSUME NEW q \in Processors, NEW b, Begin(q, b)
        PROVE  Goal
    BY <1>1 DEF Begin, Goto
  <1>2. ASSUME NEW q \in Processors, NEW l, Forget(q, l)
        PROVE  Goal
    BY <1>2 DEF Forget, Goto
  <1>3. ASSUME NEW q \in Processors, NEW r, NextChunk(q, r), slot' = slot
        PROVE  Goal
    BY <1>3 DEF NextChunk, Goto
  <1>4. ASSUME NEW q \in Processors, Fail(q)
        PROVE  Goal
    BY <1>2, <1>4 DEF Fail, Goto
  <1>5. ASSUME NEW q \in Processors, Complete(q)
        PROVE  Goal
    BY <1>5 DEF Complete, Goto
  <1>6. ASSUME NEW q \in Processors, ReserveClaim(q)
        PROVE  Goal
    BY <1>6 DEF ReserveClaim
  <1>7. ASSUME NEW q \in Processors, Work(q)
        PROVE  Goal
    BY <1>2, <1>3, <1>4, <1>5, <1>6, <1>7
    DEF Work, RunReserve, ReadClock, ReserveLocal, ReserveReady,
        ReserveInFlight, Tag, Embed, Goto, Return
  <1>8. ASSUME NEW q \in Processors,
               Abort(q) \/ AbandonReserve(q) \/ Crash(q) \/ Restart(q)
        PROVE  Goal
    BY <1>2, <1>8 DEF Abort, AbandonReserve, Crash, Restart, Goto
  <1> QED
    BY <1>1, <1>7, <1>8 DEF Next, vars, Tick

\* fail() leaves no claim behind among those it has walked past.
LEMMA ReleasedStep ==
    Typed /\ AtHome /\ Released /\ [Next]_vars => Released'
  <1> SUFFICES ASSUME Typed, AtHome, Released, [Next]_vars,
                      NEW p \in Processors, pc'[p] = "failing",
                      NEW i \in DOMAIN slot'[p], i < at'[p], slot'[p][i] # None,
                      NEW k \in Keys
               PROVE  ledger'[k].token # slot'[p][i]
    BY DEF Released
  <1>1. \A j \in DOMAIN slot'[p] : j \in Nat \ {0}
    <2>1. DOMAIN slot'[p] = DOMAIN batch'[p]
          /\ batch'[p] \in Batches \union {<<>>}
      BY StepTyped DEF Typed, TypeOK
    <2> QED
      BY <2>1, BatchSeq
  <1>2. at'[p] # 1
    BY <1>1
  <1>3. /\ pc[p] = "failing" /\ slot'[p] = slot[p]
        /\ at'[p] = at[p] \/ (Fail(p) /\ at'[p] = at[p] + 1)
    BY <1>2, FailingMove
  <1>4. CASE i < at[p]
    BY <1>3, <1>4, GoneStaysGone DEF Released
  <1>5. CASE ~(i < at[p])
    <2>1. Fail(p) /\ i = at[p]
      BY <1>1, <1>3, <1>5 DEF Typed, TypeOK
    <2> QED
      BY <1>3, <2>1, FailReleases
  <1> QED
    BY <1>4, <1>5

\* The step that ends a release is that of its last chunk.
LEMMA ReleaseEnds ==
    ASSUME Typed, AtHome, Released, [Next]_vars, NEW p \in Processors,
           pc[p] = "failing", pc'[p] = "idle",
           NEW k \in Keys, NEW i \in DOMAIN slot[p], slot[p][i] # None
    PROVE  ledger'[k].token # slot[p][i]
  <1> USE DEF Typed, TypeOK
  <1>1. ASSUME NEW q \in Processors, NEW r, NextChunk(q, r), pc[q] # "failing"
        PROVE  FALSE
    BY <1>1 DEF NextChunk, Goto
  <1>2. ASSUME NEW q \in Processors, Complete(q)
        PROVE  FALSE
    BY <1>2 DEF Complete, Goto
  <1>3. ASSUME NEW q \in Processors, Work(q)
        PROVE  Fail(p)
    BY <1>1, <1>2, <1>3
    DEF Work, RunReserve, ReadClock, ReserveLocal, ReserveReady, ReserveInFlight,
        ReserveClaim, Tag, Embed, Return, Fail, Forget, Goto
  <1>4. Fail(p)
    BY <1>3 DEF Next, vars, Begin, Abort, AbandonReserve, Crash, Restart, Tick,
                Forget, Goto
  <1>5. at[p] = Len(batch[p])
    BY <1>4 DEF Fail, Goto
  <1>6. i \in 1..at[p]
    BY <1>4, <1>5, BusyBatch DEF Fail, Busy
  <1>7. CASE i < at[p]
    BY <1>7, GoneStaysGone DEF Released
  <1>8. CASE i = at[p]
    BY <1>4, <1>8, FailReleases
  <1> QED
    BY <1>6, <1>7, <1>8

\* A batch given up in an orderly way leaves none of its recorded claims behind.
THEOREM GivenUpIsReleased == Spec => FailureReleases
  <1>1. Init => AtHome /\ Released
    BY DEF Init, AtHome, Released
  <1>2. Typed /\ AtHome /\ Released /\ [Next]_vars =>
            [\A p \in Processors :
                pc[p] = "failing" /\ pc'[p] = "idle" =>
                    \A k \in Keys : \A i \in DOMAIN slot[p] :
                        slot[p][i] # None => ledger'[k].token # slot[p][i]]_vars
    BY ReleaseEnds
  <1>3. Spec => []Typed
    BY InitTyped, StepTyped, PTL DEF Spec
  <1> QED
    BY <1>1, <1>2, <1>3, AtHomeStep, ReleasedStep, PTL DEF Spec, FailureReleases

-----------------------------------------------------------------------------
(* The ledger implements the write-once cache.                             *)

\* A processor that is not done, before the step and after it, hands nothing to
\* its caller; one that does not move hands over what it did.
LEMMA DeliveredSame ==
    ASSUME NEW p \in Processors,
           \/ pc[p] # "done" /\ pc'[p] # "done"
           \/ pc'[p] = pc[p] /\ batch'[p] = batch[p] /\ run'[p] = run[p]
    PROVE  Delivered(p)' = Delivered(p)
  BY DEF Delivered

\* Only the completion of a claim gives a row its result, the run of its chunk.
LEMMA CacheWritten ==
    ASSUME Typed, [Next]_vars
    PROVE  \/ \A k \in Keys : ledger'[k].result = ledger[k].result
           \/ \E k \in Keys, r \in Results :
                /\ ledger[k].result = None
                /\ ledger' = [ledger EXCEPT ![k] = Ready(r)]
  <1> USE DEF Typed, TypeOK
  <1>1. CASE ClaimStep
    BY <1>1 DEF ClaimStep, Claimable, IsReady, Processing
  <1>2. CASE CompleteStep
    <2>1. PICK p \in Processors :
            /\ pc[p] = "complete"
            /\ slot[p][at[p]] # None
            /\ Owns(Key(p), slot[p][at[p]])
            /\ ledger' = [ledger EXCEPT ![Key(p)] = Ready(run[p][at[p]])]
      BY <1>2 DEF CompleteStep
    <2>2. Key(p) \in Keys /\ run[p][at[p]] \in Results
      BY <2>1, BusyBatch DEF Busy, RunsKnown
    <2>3. ledger[Key(p)].result = None
      BY <2>1, <2>2 DEF Owns
    <2> QED
      BY <2>1, <2>2, <2>3
  <1>3. CASE FailStep
    BY <1>3 DEF FailStep, Owns, Failed
  <1>4. CASE Tick
    BY <1>4 DEF Tick, Rows
  <1> QED
    BY <1>1, <1>2, <1>3, <1>4, LedgerChange

\* Seen from the cache, that is a write or nothing.
LEMMA CacheEffect ==
    ASSUME Typed, [Next]_vars
    PROVE  \/ Cache!Write
           \/ UNCHANGED [k \in Keys |-> ledger[k].result]
  <1>1. CASE \A k \in Keys : ledger'[k].result = ledger[k].result
    BY <1>1
  <1>2. ASSUME NEW k \in Keys, NEW r \in Results, ledger[k].result = None,
               ledger' = [ledger EXCEPT ![k] = Ready(r)]
        PROVE  Cache!Write
    <2>1. \A l \in Keys :
            ledger'[l].result = IF l = k THEN r ELSE ledger[l].result
      BY <1>2 DEF Ready, Typed, TypeOK
    <2>2. [l \in Keys |-> ledger'[l].result] =
            [[l \in Keys |-> ledger[l].result] EXCEPT ![k] = r]
      BY <2>1
    <2> QED
      BY <1>2, <2>2 DEF Cache!Write
  <1> QED
    BY <1>1, <1>2, CacheWritten

\* A processor that forgets its batch withdraws its answer.
LEMMA ForgetEffect ==
    ASSUME NEW p \in Processors, NEW label \in {"idle", "down"}, Typed,
           Forget(p, label)
    PROVE  [q \in Processors |-> Delivered(q)]' =
              [[q \in Processors |-> Delivered(q)] EXCEPT ![p] = Cache!NoAnswer]
  <1> USE DEF Typed, TypeOK
  <1>1. Delivered(p)' = Cache!NoAnswer
    BY DEF Forget, Goto, Delivered, Cache!NoAnswer
  <1>2. \A q \in Processors : q # p => Delivered(q)' = Delivered(q)
    BY DeliveredSame DEF Forget, Goto
  <1> QED
    BY <1>1, <1>2

\* A processor that is done answers with what the cache holds.
LEMMA AnswerEffect ==
    ASSUME Typed, Deliverables, [Next]_vars, NEW p \in Processors, Complete(p),
           pc'[p] = "done"
    PROVE  Cache!Answer(p)
  <1> USE DEF Typed, TypeOK
  <1> DEFINE S == {k \in Keys : \E i \in DOMAIN batch'[p] : batch'[p][i] = k}
  <1>1. Delivered(p) = Cache!NoAnswer
    BY DEF Complete, Delivered, Cache!NoAnswer
  <1>2. Typed' /\ Deliverables'
    BY StepTyped, DeliverableStep DEF Deliverables
  <1>3. CompletedAgrees'
    BY <1>2, DoneAgrees, PTL
  <1>4. \A k \in S :
            LET i == CHOOSE i \in DOMAIN batch'[p] : batch'[p][i] = k
            IN  /\ i \in DOMAIN batch'[p]
                /\ ledger'[k].result = run'[p][i]
                /\ run'[p][i] # None
    BY <1>2, <1>3 DEF CompletedAgrees, RunsKnown
  <1>5. Delivered(p)' =
            [k \in Keys |-> IF k \in S THEN ledger'[k].result ELSE None]
    BY <1>4 DEF Delivered
  <1>6. \A q \in Processors : q # p => Delivered(q)' = Delivered(q)
    BY DeliveredSame DEF Complete, Goto
  <1>7. [q \in Processors |-> Delivered(q)]' =
            [[q \in Processors |-> Delivered(q)] EXCEPT ![p] =
                [k \in Keys |-> IF k \in S THEN ledger'[k].result ELSE None]]
    BY <1>5, <1>6
  <1>8. \A k \in Keys : [l \in Keys |-> ledger[l].result]'[k] = ledger'[k].result
    OBVIOUS
  <1>9. S \in SUBSET Keys /\ \A k \in S : ledger'[k].result # None
    BY <1>4
  <1> HIDE DEF S
  <1>10. [q \in Processors |-> Delivered(q)]' =
            [[q \in Processors |-> Delivered(q)] EXCEPT ![p] =
                [k \in Keys |->
                    IF k \in S THEN [l \in Keys |-> ledger[l].result]'[k]
                               ELSE None]]
    BY <1>7, <1>8
  <1>11. [q \in Processors |-> Delivered(q)][p] = Cache!NoAnswer
    BY <1>1
  <1> QED
    BY <1>8, <1>9, <1>10, <1>11, CacheEffect DEF Cache!Answer

\* Any other step keeps every answer.
LEMMA AnswersKept ==
    ASSUME Typed, [Next]_vars
    PROVE  \/ \A q \in Processors : Delivered(q)' = Delivered(q)
           \/ \E p \in Processors : Complete(p) /\ pc'[p] = "done"
           \/ \E p \in Processors : \E l \in {"idle", "down"} :
                Forget(p, l) /\ (Fail(p) \/ Return(p) \/ Crash(p) \/ Restart(p))
  <1> USE DEF Typed, TypeOK
  <1>1. ASSUME NEW p \in Processors,
               pc[p] # "done", pc'[p] # "done",
               \A q \in Processors : q # p =>
                    pc'[q] = pc[q] /\ batch'[q] = batch[q] /\ run'[q] = run[q]
        PROVE  \A q \in Processors : Delivered(q)' = Delivered(q)
    BY <1>1, DeliveredSame
  <1>2. ASSUME NEW p \in Processors, NEW b \in Batches, Begin(p, b)
        PROVE  \A q \in Processors : Delivered(q)' = Delivered(q)
    BY <1>1, <1>2 DEF Begin, Goto
  <1>3. ASSUME NEW p \in Processors, NEW r, NextChunk(p, r), batch' = batch,
               pc[p] # "done"
        PROVE  \A q \in Processors : Delivered(q)' = Delivered(q)
    BY <1>1, <1>3 DEF NextChunk, Goto
  <1>4. ASSUME NEW p \in Processors, ReadClock(p) \/ RunReserve(p) \/ Tag(p) \/ Embed(p)
        PROVE  \A q \in Processors : Delivered(q)' = Delivered(q)
    <2>1. CASE ReadClock(p) \/ ReserveClaim(p) \/ Embed(p)
      BY <1>1, <2>1 DEF ReadClock, ReserveClaim, Embed, Goto
    <2> QED
      BY <1>3, <1>4, <2>1
      DEF RunReserve, ReserveLocal, ReserveReady, ReserveInFlight, Tag
  <1>5. ASSUME NEW p \in Processors, Complete(p), pc'[p] # "done"
        PROVE  \A q \in Processors : Delivered(q)' = Delivered(q)
    BY <1>1, <1>5 DEF Complete, Goto
  <1>6. ASSUME NEW p \in Processors, Fail(p), ~Forget(p, "idle")
        PROVE  \A q \in Processors : Delivered(q)' = Delivered(q)
    BY <1>1, <1>6 DEF Fail, Goto
  <1>7. ASSUME NEW p \in Processors, Abort(p) \/ AbandonReserve(p)
        PROVE  \A q \in Processors : Delivered(q)' = Delivered(q)
    BY <1>1, <1>7 DEF Abort, AbandonReserve, Goto
  <1>8. CASE Tick \/ UNCHANGED vars
    BY <1>8, DeliveredSame DEF Tick, vars
  <1>9. ASSUME NEW p \in Processors, Return(p) \/ Crash(p) \/ Restart(p)
        PROVE  \E l \in {"idle", "down"} : Forget(p, l)
    BY <1>9 DEF Return, Crash, Restart
  <1> QED
    BY <1>2, <1>4, <1>5, <1>6, <1>7, <1>8, <1>9 DEF Next, Work

\* The ledger starts as the empty cache.
LEMMA CacheInit == Init => Cache!Init
  <1> SUFFICES ASSUME Init PROVE Cache!Init
    OBVIOUS
  <1>1. \A k \in Keys : ledger[k].result = None
    BY DEF Init, Absent
  <1>2. \A p \in Processors : Delivered(p) = Cache!NoAnswer
    BY DEF Init, Delivered, Cache!NoAnswer
  <1> QED
    BY <1>1, <1>2 DEF Cache!Init, Cache!NoAnswer

\* Each step of the ledger is one of the cache or leaves it alone.
LEMMA CacheStep == Typed /\ Deliverables /\ [Next]_vars => [Cache!Next]_Cache!vars
  <1> SUFFICES ASSUME Typed, Deliverables, [Next]_vars
               PROVE  \/ Cache!Next
                      \/ UNCHANGED <<[k \in Keys |-> ledger[k].result],
                                     [p \in Processors |-> Delivered(p)]>>
    BY DEF Cache!vars
  <1>1. CASE \A q \in Processors : Delivered(q)' = Delivered(q)
    <2>1. UNCHANGED [p \in Processors |-> Delivered(p)]
      BY <1>1
    <2> QED
      BY <2>1, CacheEffect DEF Cache!Next
  <1>2. ASSUME NEW p \in Processors, Complete(p), pc'[p] = "done"
        PROVE  Cache!Next
    BY <1>2, AnswerEffect DEF Cache!Next
  <1>3. ASSUME NEW p \in Processors, NEW l \in {"idle", "down"}, Forget(p, l),
               Fail(p) \/ Return(p) \/ Crash(p) \/ Restart(p)
        PROVE  Cache!Next
    <2>1. \A k \in Keys : ledger'[k].result = ledger[k].result
      <3>1. CASE /\ Owns(Key(p), slot[p][at[p]])
                 /\ ledger' = [ledger EXCEPT ![Key(p)] = Failed]
        BY <3>1 DEF Owns, Failed, Typed, TypeOK
      <3>2. CASE ledger' = ledger
        BY <3>2
      <3> QED
        BY <1>3, <3>1, <3>2 DEF Fail, Return, Crash, Restart
    <2>2. UNCHANGED [k \in Keys |-> ledger[k].result]
      BY <2>1
    <2> QED
      BY <1>3, <2>2, ForgetEffect DEF Cache!Next, Cache!Forget
  <1> QED
    BY <1>1, <1>2, <1>3, AnswersKept

\* Whatever claims, leases, crashes, cancellations and retries do, the ledger is
\* a write-once cache whose readers all get what was written.
THEOREM WriteOnceCache == Spec => ImplementsCache
  BY DeliverablesAlways, CacheInit, CacheStep, PTL
  DEF Spec, ImplementsCache, Cache!Spec

-----------------------------------------------------------------------------
(***************************************************************************)
(* LayoutJobs                                                              *)
(***************************************************************************)

Statuses == {"uploaded", "queued", "running", "completed", "failed"}
JobPhases == Statuses \cup {"initializing", "extracting", "rendering"}
States == [status : Statuses, phase : JobPhases, done : 0..Pages]
Files == States \cup {NoFile, Garbled}
Ats == {"idle", "read", "open", "fill", "replace", "lock", "predict", "saving", "render",
        "done", "refused", "raised", "killed"}
Doings == {"queue", "start", "extracting", "page", "rendering", "complete", "fail"}
Handles == {"none", "tmp", "file"}
PostRecords == [at : Ats, job : Jobs, doing : Doings, mine : Files, handle : Handles, page : 0..Pages]

\* Every variable has its type; a post is for a job its client has been told of.
LayoutTyped ==
    /\ jobFile \in [Jobs -> Files] /\ jobTmp \in [Jobs -> Files]
    /\ known \in SUBSET Jobs
    /\ layoutPages \in [Jobs -> SUBSET AllPages]
    /\ pageImages \in [Jobs -> BOOLEAN]
    /\ posts \in [Posts -> PostRecords]
    /\ ocrLock \in Posts \cup {Nobody}
    /\ overlapped \in SUBSET Jobs /\ abandoned \in SUBSET Jobs
    /\ viewed \in [Jobs -> SUBSET AllPages]
    /\ \A a \in Posts : /\ posts[a].at # "idle" => posts[a].job \in known
                        /\ posts[a].at = "saving" => posts[a].page # 0

-----------------------------------------------------------------------------
(* The lock.                                                               *)

Charged(p) == p.doing \in {"extracting", "page", "rendering"}

\* Where a thread can be in what it does; it has no page before it has the lock.
Placed(p) ==
    /\ p.at = "lock" => p.doing = "start"
    /\ p.at \in {"predict", "saving"} => p.doing \in {"extracting", "page"}
    /\ p.at = "render" => p.doing = "rendering"
    /\ p.doing \in {"queue", "start"} => p.page = 0

\* A thread that writes pages, or reports them, has the lock.
LockHeld ==
    \A a \in Posts : /\ Placed(posts[a])
                     /\ Live(posts[a]) /\ Charged(posts[a]) => ocrLock = a

-----------------------------------------------------------------------------
(* The file of a job that was not queued twice at once.                    *)

\* A post that is past the reading that may refuse it, or its thread.
Holds(p) == Live(p) /\ ~(p.at = "read" /\ p.doing = "queue")
Holder(a, j) == posts[a].job = j /\ Holds(posts[a])

\* The status that an update writes.
StatusOf(doing) ==
    CASE doing = "queue"    -> "queued"
      [] doing = "complete" -> "completed"
      [] doing = "fail"     -> "failed"
      [] OTHER              -> "running"

\* What the holder knows: what the file says, what it is about to say, and the
\* pages that are there.
Held(p, j) ==
    /\ p.doing = "queue" => Queueable(jobFile[j].status)
    /\ p.doing = "start" => jobFile[j].status = IF p.at = "lock" THEN "running" ELSE "queued"
    /\ p.doing \notin {"queue", "start"} => jobFile[j].status = "running"
    /\ p.at \in {"open", "fill", "replace"} =>
         /\ p.mine \in States /\ p.mine.status = StatusOf(p.doing)
         /\ p.mine.status # "running" => p.mine.phase = p.mine.status
    /\ p.at = "fill" => p.handle = "tmp"
    /\ p.at = "replace" => jobTmp[j] = p.mine
    /\ p.doing # "fail" => \A n \in 1..p.page : n \in layoutPages[j] \/ (p.at = "saving" /\ n = p.page)
    /\ p.doing \in {"rendering", "complete"} => p.page = Pages
    /\ p.doing = "complete" => pageImages[j]

\* What the file of a job says of it.
Told(j) ==
    /\ jobFile[j] \in States
    /\ jobFile[j].status # "running" => jobFile[j].phase = jobFile[j].status
    /\ jobFile[j].status = "completed" => layoutPages[j] = AllPages /\ pageImages[j]

Lone(j) ==
    /\ \A a, b \in Posts : Holder(a, j) /\ Holder(b, j) => a = b
    /\ \A a \in Posts : Holder(a, j) => Held(posts[a], j)
    /\ \A a \in Posts : posts[a].job = j => posts[a].at # "raised"
    /\ Told(j)
    /\ jobFile[j].status \in {"queued", "running"} => (\E a \in Posts : Holder(a, j)) \/ j \in abandoned

\* A job nobody has been told of is as it was uploaded.
Uploaded == [status |-> "uploaded", phase |-> "uploaded", done |-> 0]
Fresh(j) == jobFile[j] \in {NoFile, Uploaded} /\ viewed[j] = {}

Kept(j) ==
    /\ j \notin known => Fresh(j)
    /\ Apart(j) => (j \in known => Lone(j)) /\ viewed[j] \in {{}, AllPages}

\* A file that a client was told of stays: only a state takes its place.
FilesStay ==
    /\ \A a \in Posts : posts[a].at \in {"open", "fill"} => posts[a].mine # NoFile
    /\ \A j \in known : jobFile[j] # NoFile

JobsInv == LayoutTyped /\ LockHeld /\ FilesStay /\ \A j \in Jobs : Kept(j)

-----------------------------------------------------------------------------
(* Types.                                                                  *)

LEMMA FileIs ==
    /\ NoFile \in Files /\ Garbled \in Files /\ States \subseteq Files
    /\ \A f \in Files : Readable(f) => f \in States
    /\ \A f \in States : Readable(f) /\ f # NoFile /\ f # Garbled
    /\ Uploaded \in States
  <1>1. NoFile \in Files /\ Garbled \in Files /\ States \subseteq Files
    BY DEF Files
  <1>2. ASSUME NEW f \in States
        PROVE  f.status \in Statuses
    BY DEF States
  <1>3. NoFile.status = "no file" /\ Garbled.status = "garbled"
    BY DEF NoFile, Garbled
  <1>4. \A f \in States : Readable(f) /\ f # NoFile /\ f # Garbled
    BY <1>2, <1>3 DEF Readable, Statuses
  <1>5. \A f \in Files : Readable(f) => f \in States
    BY <1>3 DEF Files, Readable
  <1>6. Uploaded \in States
    BY PagesAssumption DEF States, Statuses, JobPhases, Uploaded
  <1> QED
    BY <1>1, <1>4, <1>5, <1>6

LEMMA PatchedIs ==
    ASSUME NEW s \in States, NEW p \in PostRecords
    PROVE  /\ Patched(s, p) \in States
           /\ p.doing \notin {"extracting", "page", "rendering"} =>
                Patched(s, p).status = StatusOf(p.doing)
           /\ p.doing \in {"extracting", "page", "rendering"} =>
                Patched(s, p).status = s.status
           /\ p.doing \in {"queue", "complete", "fail"} =>
                Patched(s, p).phase = Patched(s, p).status
  <1>1. p.doing \in Doings /\ p.page \in 0..Pages /\ 0 \in 0..Pages /\ Pages \in 0..Pages
    BY PagesAssumption DEF PostRecords
  <1>2. s = [status |-> s.status, phase |-> s.phase, done |-> s.done]
        /\ s.status \in Statuses /\ s.phase \in JobPhases /\ s.done \in 0..Pages
    BY DEF States
  <1>3. CASE p.doing = "queue"
    BY <1>1, <1>3 DEF Patched, States, Statuses, JobPhases, StatusOf
  <1>4. CASE p.doing = "start"
    BY <1>1, <1>4 DEF Patched, States, Statuses, JobPhases, StatusOf
  <1>5. CASE p.doing \in {"extracting", "page", "rendering"}
    BY <1>1, <1>2, <1>5 DEF Patched, States, JobPhases
  <1>6. CASE p.doing = "complete"
    BY <1>1, <1>6 DEF Patched, States, Statuses, JobPhases, StatusOf
  <1>7. CASE p.doing = "fail"
    BY <1>1, <1>2, <1>7 DEF Patched, States, Statuses, JobPhases, StatusOf
  <1> QED
    BY <1>1, <1>3, <1>4, <1>5, <1>6, <1>7 DEF Doings

\* After an update, or an exception, the record is the same but for where it is.
LEMMA AfterIs ==
    ASSUME NEW p \in PostRecords
    PROVE  /\ After(p) \in PostRecords
           /\ After(p).job = p.job /\ After(p).page = p.page
           /\ p.doing = "queue" => After(p).doing = "start" /\ After(p).at = "read"
           /\ p.doing # "queue" => After(p).doing = p.doing
           /\ p.doing = "start" => After(p).at = "lock"
           /\ p.doing \in {"extracting", "page"} => After(p).at = "predict"
           /\ p.doing = "rendering" => After(p).at = "render"
           /\ p.doing \in {"complete", "fail"} => After(p).at = "done"
  BY DEF After, PostRecords, Ats, Doings

LEMMA RaisedIs ==
    ASSUME NEW p \in PostRecords
    PROVE  /\ Raised(p) \in PostRecords
           /\ Raised(p).job = p.job
           /\ p.doing \in {"queue", "start", "fail"} =>
                Raised(p).at = "raised" /\ Raised(p).doing = p.doing /\ Raised(p).page = p.page
           /\ p.doing \notin {"queue", "start", "fail"} =>
                Raised(p).doing = "fail" /\ Raised(p).at = "read"
  BY DEF Raised, PostRecords, Ats, Doings

-----------------------------------------------------------------------------
(* What each step does to the post that takes it.                          *)

Only(a) == posts' \in [Posts -> PostRecords] /\ \A b \in Posts \ {a} : posts'[b] = posts[b]

\* The record at a, where only what is named is new.
At(a, place, doing, page) ==
    /\ posts'[a].at = place /\ posts'[a].doing = doing /\ posts'[a].page = page
    /\ posts'[a].job = posts[a].job

LEMMA PostIs ==
    ASSUME LayoutTyped, NEW a \in Posts
    PROVE  /\ posts[a] \in PostRecords /\ posts[a].job \in Jobs
           /\ posts[a].at \in Ats /\ posts[a].doing \in Doings /\ posts[a].page \in 0..Pages
           /\ posts[a].mine \in Files
           /\ posts[a] = [at |-> posts[a].at, job |-> posts[a].job, doing |-> posts[a].doing,
                          mine |-> posts[a].mine, handle |-> posts[a].handle, page |-> posts[a].page]
           /\ jobFile[posts[a].job] \in Files /\ jobTmp[posts[a].job] \in Files
  BY DEF LayoutTyped, PostRecords

LEMMA SetIs ==
    ASSUME LayoutTyped, NEW a \in Posts, NEW r \in PostRecords, posts' = [posts EXCEPT ![a] = r]
    PROVE  Only(a) /\ posts'[a] = r
  BY DEF LayoutTyped, Only

LEMMA IdleIs ==
    Idle \in PostRecords /\ Idle.at = "idle"
  <1>1. (CHOOSE j \in Jobs : TRUE) \in Jobs
    BY JobsAssumption
  <1> QED
    BY <1>1, FileIs, PagesAssumption DEF Idle, PostRecords, Ats, Doings, Handles

LEMMA PostExtractIs ==
    ASSUME LayoutTyped, NEW a \in Posts, NEW j \in Jobs, PostExtract(a, j)
    PROVE  /\ Only(a) /\ posts[a].at = "idle"
           /\ posts'[a].at = "read" /\ posts'[a].doing = "queue" /\ posts'[a].job = j
  <1> DEFINE r == [Idle EXCEPT !.at = "read", !.job = j]
  <1>1. r \in PostRecords /\ r.at = "read" /\ r.doing = "queue" /\ r.job = j /\ Idle.page = 0
    <2>1. Idle.doing = "queue" /\ Idle.page = 0
      BY DEF Idle
    <2> QED
      BY <2>1, IdleIs DEF PostRecords, Ats
  <1> HIDE DEF r
  <1> QED
    BY <1>1, SetIs DEF PostExtract, r

LEMMA RaiseIs ==
    ASSUME LayoutTyped, NEW a \in Posts, Raise(a)
    PROVE  /\ Only(a) /\ posts'[a] = Raised(posts[a]) /\ posts'[a].job = posts[a].job
           /\ ocrLock' = IF ocrLock = a THEN Nobody ELSE ocrLock
  <1>1. posts' = [posts EXCEPT ![a] = Raised(posts[a])]
    BY DEF Raise
  <1>2. Raised(posts[a]) \in PostRecords /\ Raised(posts[a]).job = posts[a].job
    BY PostIs, RaisedIs
  <1>3. Only(a) /\ posts'[a] = Raised(posts[a])
    BY <1>1, <1>2, SetIs
  <1> QED
    BY <1>2, <1>3 DEF Raise

\* A state is read by a post that may queue the job, and by a thread that reports.
LEMMA ReadIs ==
    ASSUME LayoutTyped, NEW a \in Posts, ReadState(a), Readable(jobFile[posts[a].job]),
           ~(posts[a].doing = "queue" /\ ~Queueable(jobFile[posts[a].job].status))
    PROVE  /\ Only(a) /\ At(a, "open", posts[a].doing, posts[a].page)
           /\ posts'[a].mine = Patched(jobFile[posts[a].job], posts[a])
           /\ UNCHANGED ocrLock
  <1> DEFINE p == posts[a]
             m == Patched(jobFile[p.job], p)
             r == [p EXCEPT !.at = "open", !.mine = m]
  <1>1. m \in Files
    BY PostIs, FileIs, PatchedIs
  <1>2. posts' = [posts EXCEPT ![a].at = "open", ![a].mine = m] /\ UNCHANGED ocrLock
    BY DEF ReadState
  <1> HIDE DEF m
  <1>3. r \in PostRecords /\ r.at = "open" /\ r.mine = m /\ r.doing = p.doing /\ r.page = p.page /\ r.job = p.job
    BY <1>1, PostIs DEF PostRecords, Ats
  <1>4. posts' = [posts EXCEPT ![a] = r]
    BY <1>2, PostIs DEF LayoutTyped
  <1> HIDE DEF r
  <1> QED
    BY <1>2, <1>3, <1>4, SetIs DEF At, m

LEMMA RefusedIs ==
    ASSUME LayoutTyped, NEW a \in Posts, ReadState(a), Readable(jobFile[posts[a].job]),
           posts[a].doing = "queue", ~Queueable(jobFile[posts[a].job].status)
    PROVE  /\ Only(a) /\ At(a, "refused", "queue", posts[a].page)
           /\ UNCHANGED <<ocrLock, overlapped>>
  <1>1. posts' = [posts EXCEPT ![a].at = "refused"] /\ UNCHANGED <<ocrLock, overlapped>>
    BY DEF ReadState
  <1> QED
    BY <1>1, PostIs DEF LayoutTyped, Only, At, PostRecords, Ats

LEMMA UnreadableIs ==
    ASSUME LayoutTyped, NEW a \in Posts, ReadState(a), ~Readable(jobFile[posts[a].job])
    PROVE  Raise(a)
  BY DEF ReadState

LEMMA OpenIs ==
    ASSUME LayoutTyped, NEW a \in Posts, OpenTmp(a)
    PROVE  /\ Only(a) /\ At(a, "fill", posts[a].doing, posts[a].page)
           /\ posts'[a].mine = posts[a].mine /\ posts'[a].handle = "tmp"
  BY PostIs DEF OpenTmp, LayoutTyped, Only, At, PostRecords, Ats, Handles

LEMMA FillIs ==
    ASSUME LayoutTyped, NEW a \in Posts, FillTmp(a)
    PROVE  /\ Only(a) /\ At(a, "replace", posts[a].doing, posts[a].page)
           /\ posts'[a].mine = posts[a].mine
  BY PostIs DEF FillTmp, LayoutTyped, Only, At, PostRecords, Ats, Handles

LEMMA ReplaceIs ==
    ASSUME LayoutTyped, NEW a \in Posts, ReplaceFile(a), jobTmp[posts[a].job] # NoFile
    PROVE  /\ posts' \in [Posts -> PostRecords]
           /\ posts'[a] = After(posts[a])
           /\ \A b \in Posts \ {a} :
                /\ posts'[b].at = posts[b].at /\ posts'[b].job = posts[b].job
                /\ posts'[b].doing = posts[b].doing /\ posts'[b].page = posts[b].page
                /\ posts'[b].mine = posts[b].mine
                /\ posts[b].job # posts[a].job => posts'[b] = posts[b]
  <1> DEFINE j == posts[a].job
             r(b) == IF b = a THEN After(posts[a])
                     ELSE IF posts[b].job = j THEN [posts[b] EXCEPT !.handle = Moved(@)] ELSE posts[b]
  <1>1. posts' = [b \in Posts |-> r(b)]
    BY DEF ReplaceFile
  <1>2. ASSUME NEW b \in Posts
        PROVE  [posts[b] EXCEPT !.handle = Moved(@)] \in PostRecords
    BY PostIs DEF PostRecords, Handles, Moved
  <1>3. After(posts[a]) \in PostRecords
    BY PostIs, AfterIs
  <1>4. \A b \in Posts : r(b) \in PostRecords
    BY <1>2, <1>3, PostIs
  <1>5. posts'[a] = After(posts[a])
    BY <1>1
  <1>6. ASSUME NEW b \in Posts \ {a}
        PROVE  /\ posts'[b].at = posts[b].at /\ posts'[b].job = posts[b].job
               /\ posts'[b].doing = posts[b].doing /\ posts'[b].page = posts[b].page
               /\ posts'[b].mine = posts[b].mine
               /\ posts[b].job # j => posts'[b] = posts[b]
    BY <1>1, PostIs
  <1> QED
    BY <1>1, <1>4, <1>5, <1>6

LEMMA TakeLockIs ==
    ASSUME LayoutTyped, NEW a \in Posts, TakeLock(a)
    PROVE  Only(a) /\ At(a, "read", "extracting", posts[a].page)
  BY PostIs DEF TakeLock, Goes, LayoutTyped, Only, At, PostRecords, Ats, Doings

LEMMA SavePageIs ==
    ASSUME LayoutTyped, NEW a \in Posts, SavePage(a)
    PROVE  Only(a) /\ At(a, "saving", posts[a].doing, posts[a].page + 1)
           /\ posts[a].page + 1 \in 1..Pages
  <1> DEFINE r == [posts[a] EXCEPT !.at = "saving", !.page = @ + 1]
  <1>0. posts[a].page < Pages /\ posts[a].page \in 0..Pages
    BY PostIs DEF SavePage
  <1>1. posts[a].page + 1 \in 1..Pages /\ posts[a].page + 1 \in 0..Pages
    BY <1>0, PagesAssumption
  <1>2. r \in PostRecords /\ r.at = "saving" /\ r.doing = posts[a].doing /\ r.job = posts[a].job
        /\ r.page = posts[a].page + 1
    BY <1>1, PostIs DEF PostRecords, Ats
  <1>3. posts' = [posts EXCEPT ![a] = r]
    BY DEF SavePage, Goes
  <1> HIDE DEF r
  <1> QED
    BY <1>1, <1>2, <1>3, SetIs DEF At

LEMMA ReportPageIs ==
    ASSUME LayoutTyped, NEW a \in Posts, ReportPage(a)
    PROVE  Only(a) /\ At(a, "read", "page", posts[a].page)
  BY PostIs DEF ReportPage, Goes, LayoutTyped, Only, At, PostRecords, Ats, Doings

LEMMA PagesEndIs ==
    ASSUME LayoutTyped, NEW a \in Posts, PagesEnd(a)
    PROVE  Only(a) /\ At(a, "read", "rendering", posts[a].page)
  BY PostIs DEF PagesEnd, Goes, LayoutTyped, Only, At, PostRecords, Ats, Doings

LEMMA RenderPagesIs ==
    ASSUME LayoutTyped, NEW a \in Posts, RenderPages(a)
    PROVE  Only(a) /\ At(a, "read", "complete", posts[a].page)
  BY PostIs DEF RenderPages, Goes, LayoutTyped, Only, At, PostRecords, Ats, Doings

LEMMA ExtractionFailsIs ==
    ASSUME LayoutTyped, NEW a \in Posts, ExtractionFails(a)
    PROVE  Only(a) /\ At(a, "read", "fail", posts[a].page)
  BY PostIs DEF ExtractionFails, LayoutTyped, Only, At, PostRecords, Ats, Doings

LEMMA ServerStopsIs ==
    ASSUME LayoutTyped, ServerStops
    PROVE  /\ posts' \in [Posts -> PostRecords]
           /\ \A a \in Posts : /\ posts'[a].job = posts[a].job
                               /\ ~Live(posts[a])' /\ ~(posts'[a].at \in {"idle", "raised"} /\ posts'[a].at # posts[a].at)
                               /\ Live(posts[a]) => posts'[a].at = "killed" /\ posts[a].job \in abandoned'
                               /\ ~Live(posts[a]) => posts'[a] = posts[a]
           /\ abandoned \subseteq abandoned'
  BY PostIs DEF ServerStops, LayoutTyped, Live, PostRecords, Ats

Acts(a) ==
    \/ ReadState(a) \/ OpenTmp(a) \/ FillTmp(a) \/ ReplaceFile(a)
    \/ TakeLock(a) \/ SavePage(a) \/ ReportPage(a) \/ PagesEnd(a) \/ RenderPages(a)
    \/ ExtractionFails(a)

\* No step of a post is for another job, or begins anything.
LEMMA ActsIs ==
    ASSUME LayoutTyped, NEW a \in Posts, Acts(a)
    PROVE  /\ posts[a].at # "idle" /\ Live(posts[a]) /\ posts'[a].job = posts[a].job
           /\ posts' \in [Posts -> PostRecords]
           /\ \A b \in Posts \ {a} :
                /\ posts'[b].at = posts[b].at /\ posts'[b].job = posts[b].job
                /\ posts'[b].doing = posts[b].doing /\ posts'[b].page = posts[b].page
                /\ posts'[b].mine = posts[b].mine
                /\ posts[b].job # posts[a].job => posts'[b] = posts[b]
           /\ posts'[a].at = "saving" => posts'[a].page # 0
           /\ UNCHANGED <<known, abandoned, viewed>>
  <1> DEFINE Good == /\ posts'[a].job = posts[a].job /\ posts' \in [Posts -> PostRecords]
                     /\ posts'[a].at = "saving" => posts'[a].page # 0
                     /\ \A b \in Posts \ {a} :
                          /\ posts'[b].at = posts[b].at /\ posts'[b].job = posts[b].job
                          /\ posts'[b].doing = posts[b].doing /\ posts'[b].page = posts[b].page
                          /\ posts'[b].mine = posts[b].mine
                          /\ posts[b].job # posts[a].job => posts'[b] = posts[b]
  <1>0. /\ posts[a].at # "idle" /\ Live(posts[a])
        /\ UNCHANGED <<known, abandoned, viewed>>
    BY DEF Acts, ReadState, OpenTmp, FillTmp, ReplaceFile, TakeLock, SavePage, ReportPage, PagesEnd,
           RenderPages, ExtractionFails, Live
  <1>1. Only(a) /\ posts'[a].job = posts[a].job /\ posts'[a].at # "saving" => Good
    BY DEF Only
  <1> HIDE DEF Good
  <1>2. ASSUME ReadState(a) PROVE Good
    <2>1. CASE ~Readable(jobFile[posts[a].job])
      <3>1. Raise(a)
        BY <1>2, <2>1, UnreadableIs
      <3>2. posts'[a].at # "saving" /\ Only(a) /\ posts'[a].job = posts[a].job
        BY <3>1, RaiseIs, PostIs, RaisedIs
      <3> QED
        BY <1>1, <3>2
    <2>2. CASE Readable(jobFile[posts[a].job])
      <3>1. Only(a) /\ (At(a, "open", posts[a].doing, posts[a].page) \/ At(a, "refused", "queue", posts[a].page))
        BY <1>2, <2>2, ReadIs, RefusedIs
      <3> QED
        BY <1>1, <3>1 DEF At
    <2> QED
      BY <2>1, <2>2
  <1>3. ASSUME ReplaceFile(a) PROVE Good
    <2>1. CASE jobTmp[posts[a].job] = NoFile
      <3>1. Raise(a)
        BY <1>3, <2>1 DEF ReplaceFile
      <3>2. posts'[a].at # "saving" /\ Only(a) /\ posts'[a].job = posts[a].job
        BY <3>1, RaiseIs, PostIs, RaisedIs
      <3> QED
        BY <1>1, <3>2
    <2>2. CASE jobTmp[posts[a].job] # NoFile
      <3>1. posts[a] \in PostRecords /\ posts[a].doing \in Doings
        BY PostIs
      <3>2. After(posts[a]).job = posts[a].job /\ After(posts[a]).at # "saving"
        BY <3>1, AfterIs DEF Doings
      <3>3. posts'[a] = After(posts[a])
        BY <1>3, <2>2, ReplaceIs
      <3> QED
        BY <1>3, <2>2, <3>2, <3>3, ReplaceIs DEF Good
    <2> QED
      BY <2>1, <2>2
  <1>4. ASSUME SavePage(a) PROVE Good
    <2>1. Only(a) /\ At(a, "saving", posts[a].doing, posts[a].page + 1) /\ posts[a].page + 1 # 0
      BY <1>4, SavePageIs
    <2> QED
      BY <2>1 DEF At, Only, Good
  <1>5. ASSUME OpenTmp(a) \/ FillTmp(a) \/ TakeLock(a) \/ ReportPage(a) \/ PagesEnd(a)
               \/ RenderPages(a) \/ ExtractionFails(a)
        PROVE  Good
    <2>1. Only(a) /\ posts'[a].job = posts[a].job /\ posts'[a].at # "saving"
      BY <1>5, OpenIs, FillIs, TakeLockIs, ReportPageIs, PagesEndIs, RenderPagesIs,
         ExtractionFailsIs DEF At
    <2> QED
      BY <1>1, <2>1
  <1> QED
    <2>1. Good
      BY <1>2, <1>3, <1>4, <1>5 DEF Acts
    <2> QED
      BY <1>0, <2>1 DEF Good

LEMMA LayoutInitTyped == LayoutInit => LayoutTyped
  BY FileIs, IdleIs DEF LayoutInit, LayoutTyped

\* What the posts write has the types of what they hold.
LEMMA ActsTyped ==
    ASSUME LayoutTyped, NEW a \in Posts, Acts(a)
    PROVE  LayoutTyped'
  <1> DEFINE j == posts[a].job
  <1>1. /\ j \in known
        /\ \A b \in Posts : /\ posts'[b].at # "idle" => posts'[b].job \in known
                            /\ posts'[b].at = "saving" => posts'[b].page # 0
    BY ActsIs DEF LayoutTyped
  <1>2. posts' \in [Posts -> PostRecords] /\ UNCHANGED <<known, abandoned, viewed>>
    BY ActsIs
  <1>3. j \in Jobs /\ posts[a].mine \in Files /\ jobTmp[j] \in Files /\ posts[a].page \in 0..Pages
    BY PostIs
  <1>4. ocrLock' \in Posts \cup {Nobody}
    BY DEF Acts, ReadState, OpenTmp, FillTmp, ReplaceFile, TakeLock, SavePage, ReportPage, PagesEnd,
           RenderPages, ExtractionFails, Raise, LayoutTyped
  <1>5. jobFile' \in [Jobs -> Files] /\ jobTmp' \in [Jobs -> Files]
    <2>1. jobFile' \in {jobFile, [jobFile EXCEPT ![j] = posts[a].mine], [jobFile EXCEPT ![j] = jobTmp[j]]}
      BY DEF Acts, ReadState, OpenTmp, FillTmp, ReplaceFile, TakeLock, SavePage, ReportPage, PagesEnd,
             RenderPages, ExtractionFails
    <2>2. jobTmp' \in {jobTmp, [jobTmp EXCEPT ![j] = posts[a].mine], [jobTmp EXCEPT ![j] = NoFile],
                       [jobTmp EXCEPT ![j] = Garbled]}
      BY DEF Acts, ReadState, OpenTmp, FillTmp, ReplaceFile, TakeLock, SavePage, ReportPage, PagesEnd,
             RenderPages, ExtractionFails
    <2> QED
      BY <1>3, <2>1, <2>2, FileIs DEF LayoutTyped
  <1>6. overlapped' \in SUBSET Jobs
    BY <1>3 DEF Acts, ReadState, OpenTmp, FillTmp, ReplaceFile, TakeLock, SavePage, ReportPage, PagesEnd,
             RenderPages, ExtractionFails, LayoutTyped
  <1>7. pageImages' \in [Jobs -> BOOLEAN]
    BY <1>3 DEF Acts, ReadState, OpenTmp, FillTmp, ReplaceFile, TakeLock, SavePage, ReportPage, PagesEnd,
             RenderPages, ExtractionFails, LayoutTyped
  <1>8. layoutPages' \in [Jobs -> SUBSET AllPages]
    <2>1. CASE ReportPage(a)
      <3>1. posts[a].page # 0
        BY <2>1 DEF ReportPage, LayoutTyped
      <3>2. posts[a].page \in 1..Pages
        BY <1>3, <3>1, PagesAssumption
      <3> QED
        BY <1>3, <2>1, <3>2 DEF ReportPage, LayoutTyped, AllPages
    <2>2. CASE ~ReportPage(a)
      <3>1. layoutPages' = layoutPages \/ layoutPages' = [layoutPages EXCEPT ![j] = @ \ {posts[a].page + 1}]
        BY <2>2 DEF Acts, ReadState, OpenTmp, FillTmp, ReplaceFile, TakeLock, SavePage, ReportPage, PagesEnd,
             RenderPages, ExtractionFails
      <3> QED
        BY <1>3, <3>1 DEF LayoutTyped
    <2> QED
      BY <2>1, <2>2
  <1> QED
    BY <1>1, <1>2, <1>4, <1>5, <1>6, <1>7, <1>8 DEF LayoutTyped

LEMMA LayoutStepTyped == LayoutTyped /\ [LayoutNext]_layoutVars => LayoutTyped'
  <1> SUFFICES ASSUME LayoutTyped, [LayoutNext]_layoutVars
               PROVE  LayoutTyped'
    OBVIOUS
  <1>1. ASSUME NEW j \in Jobs, CreateJob(j) \/ SaveUpload(j) \/ DiscardUpload(j) \/ ShowLayout(j)
        PROVE  LayoutTyped'
    BY <1>1, FileIs DEF CreateJob, SaveUpload, DiscardUpload, ShowLayout, LayoutTyped, Uploaded
  <1>2. ASSUME NEW a \in Posts, NEW j \in Jobs, PostExtract(a, j)
        PROVE  LayoutTyped'
    <2>1. /\ posts' \in [Posts -> PostRecords]
          /\ \A b \in Posts : /\ posts'[b].at # "idle" => posts'[b].job \in known
                              /\ posts'[b].at = "saving" => posts'[b].page # 0
      BY <1>2, PostExtractIs DEF PostExtract, Only, LayoutTyped
    <2> QED
      BY <1>2, <2>1 DEF PostExtract, LayoutTyped
  <1>3. CASE ServerStops
    <2>1. abandoned' \in SUBSET Jobs
      BY <1>3, PostIs DEF ServerStops, LayoutTyped
    <2> QED
      BY <1>3, <2>1, ServerStopsIs DEF ServerStops, LayoutTyped, Live
  <1>4. CASE UNCHANGED layoutVars
    BY <1>4 DEF layoutVars, LayoutTyped
  <1> QED
    BY <1>1, <1>2, <1>3, <1>4, ActsTyped DEF LayoutNext, Acts

-----------------------------------------------------------------------------
(* The lock is held.                                                       *)

\* The lock is taken when it is free, and left by who has it.
LEMMA LockIs ==
    ASSUME LayoutTyped, NEW a \in Posts, Acts(a)
    PROVE  /\ ocrLock' \in {ocrLock, IF ocrLock = a THEN Nobody ELSE ocrLock} \/ ocrLock = Nobody
           /\ TakeLock(a) => ocrLock' = a
           /\ OpenTmp(a) \/ FillTmp(a) \/ SavePage(a) \/ ReportPage(a) \/ PagesEnd(a) => ocrLock' = ocrLock
  BY DEF Acts, ReadState, OpenTmp, FillTmp, ReplaceFile, TakeLock, SavePage, ReportPage, PagesEnd,
         RenderPages, ExtractionFails, Raise, LockFree

\* Where a step leaves the post that takes it.
LEMMA PlacedIs ==
    ASSUME LayoutTyped, LockHeld, NEW a \in Posts, Acts(a)
    PROVE  Placed(posts'[a]) /\ (Live(posts'[a]) /\ Charged(posts'[a]) => ocrLock' = a)
  <1> DEFINE p == posts[a]
             q == posts'[a]
             Good == Placed(q) /\ (Live(q) /\ Charged(q) => ocrLock' = a)
  <1>1. Placed(p) /\ (Live(p) /\ Charged(p) => ocrLock = a) /\ p \in PostRecords /\ p.doing \in Doings
    BY PostIs DEF LockHeld
  <1>2. ASSUME q = Raised(p)
        PROVE  Good
    <2>1. \/ q.at = "raised" /\ q.doing = p.doing /\ q.page = p.page
          \/ q.at = "read" /\ q.doing = "fail"
      BY <1>1, <1>2, RaisedIs
    <2> QED
      BY <1>1, <2>1 DEF Placed, Live, Charged
  <1>3. ASSUME ReadState(a)
        PROVE  Good
    <2>1. CASE ~Readable(jobFile[p.job])
      BY <1>2, <1>3, <2>1, UnreadableIs, RaiseIs
    <2>2. CASE At(a, "open", p.doing, p.page) /\ ocrLock' = ocrLock
      <3>1. p.at = "read"
        BY <1>3 DEF ReadState
      <3> QED
        BY <1>1, <2>2, <3>1 DEF At, Placed, Live, Charged
    <2>3. CASE At(a, "refused", "queue", p.page) /\ p.doing = "queue"
      BY <1>1, <2>3 DEF At, Placed, Live, Charged
    <2> QED
      BY <1>3, <2>1, <2>2, <2>3, ReadIs, RefusedIs
  <1>4. ASSUME ReplaceFile(a)
        PROVE  Good
    <2>1. CASE jobTmp[p.job] = NoFile
      <3>1. Raise(a)
        BY <1>4, <2>1 DEF ReplaceFile
      <3> QED
        BY <1>2, <3>1, RaiseIs
    <2>2. CASE jobTmp[p.job] # NoFile
      <3>1. q = After(p) /\ ocrLock' = ocrLock /\ p.at = "replace"
        BY <1>4, <2>2, ReplaceIs DEF ReplaceFile
      <3> QED
        BY <1>1, <3>1, AfterIs DEF Placed, Live, Charged, Doings
    <2> QED
      BY <2>1, <2>2
  <1>5. ASSUME OpenTmp(a) \/ FillTmp(a)
        PROVE  Good
    <2>1. (At(a, "fill", p.doing, p.page) \/ At(a, "replace", p.doing, p.page)) /\ ocrLock' = ocrLock
      BY <1>5, OpenIs, FillIs, LockIs
    <2>2. p.at \in {"open", "fill"}
      BY <1>5 DEF OpenTmp, FillTmp
    <2> QED
      BY <1>1, <2>1, <2>2 DEF At, Placed, Live, Charged
  <1>6. ASSUME SavePage(a)
        PROVE  Good
    <2>1. At(a, "saving", p.doing, p.page + 1) /\ ocrLock' = ocrLock /\ p.at = "predict"
      BY <1>6, SavePageIs, LockIs DEF SavePage
    <2> QED
      BY <1>1, <2>1 DEF At, Placed, Live, Charged
  <1>7. ASSUME ReportPage(a) \/ PagesEnd(a)
        PROVE  Good
    <2>1. (At(a, "read", "page", p.page) \/ At(a, "read", "rendering", p.page)) /\ ocrLock' = ocrLock
          /\ p.at \in {"saving", "predict"}
      BY <1>7, ReportPageIs, PagesEndIs, LockIs DEF ReportPage, PagesEnd
    <2> QED
      BY <1>1, <2>1 DEF At, Placed, Live, Charged
  <1>8. ASSUME TakeLock(a)
        PROVE  Good
    <2>1. At(a, "read", "extracting", p.page) /\ ocrLock' = a
      BY <1>8, TakeLockIs, LockIs
    <2> QED
      BY <2>1 DEF At, Placed
  <1>9. ASSUME RenderPages(a) \/ ExtractionFails(a)
        PROVE  Good
    <2>1. At(a, "read", "complete", p.page) \/ At(a, "read", "fail", p.page)
      BY <1>9, RenderPagesIs, ExtractionFailsIs
    <2> QED
      BY <2>1 DEF At, Placed, Charged
  <1> QED
    BY <1>3, <1>4, <1>5, <1>6, <1>7, <1>8, <1>9 DEF Acts

LEMMA LockHeldStep ==
    LayoutTyped /\ LockHeld /\ [LayoutNext]_layoutVars => LockHeld'
  <1> SUFFICES ASSUME LayoutTyped, LockHeld, [LayoutNext]_layoutVars
               PROVE  LockHeld'
    OBVIOUS
  <1>1. ASSUME UNCHANGED <<posts, ocrLock>>
        PROVE  LockHeld'
    BY <1>1 DEF LockHeld
  <1>2. ASSUME NEW a \in Posts, NEW j \in Jobs, PostExtract(a, j)
        PROVE  LockHeld'
    <2>1. posts'[a].at = "read" /\ posts'[a].doing = "queue" /\ posts'[a].page = 0
      <3>1. Idle.page = 0
        BY DEF Idle
      <3>2. posts' = [posts EXCEPT ![a] = [Idle EXCEPT !.at = "read", !.job = j]] /\ posts \in [Posts -> PostRecords]
        BY <1>2 DEF PostExtract, LayoutTyped
      <3>3. posts'[a].page = Idle.page
        BY <3>2, IdleIs DEF PostRecords
      <3> QED
        BY <1>2, <3>1, <3>3, PostExtractIs
    <2>2. \A b \in Posts \ {a} : posts'[b] = posts[b]
      BY <1>2, PostExtractIs DEF Only
    <2>3. ocrLock' = ocrLock
      BY <1>2 DEF PostExtract
    <2> QED
      BY <2>1, <2>2, <2>3 DEF LockHeld, Placed, Charged, Live
  <1>3. ASSUME NEW a \in Posts, Acts(a)
        PROVE  LockHeld'
    <2>1. ASSUME NEW b \in Posts \ {a}
          PROVE  Placed(posts'[b]) /\ (Live(posts'[b]) /\ Charged(posts'[b]) => ocrLock' = b)
      <3>1. /\ posts'[b].at = posts[b].at /\ posts'[b].doing = posts[b].doing
            /\ posts'[b].page = posts[b].page
        BY <1>3, ActsIs
      <3>2. ocrLock = b => ocrLock' = b
        BY <1>3, LockIs, PostsAssumption
      <3> QED
        BY <3>1, <3>2 DEF LockHeld, Placed, Charged, Live
    <2> QED
      BY <1>3, <2>1, PlacedIs DEF LockHeld, Placed, Charged, Live
  <1>4. ASSUME ServerStops
        PROVE  LockHeld'
    <2>1. ASSUME NEW b \in Posts
          PROVE  Placed(posts'[b]) /\ ~Live(posts'[b])
      <3>1. CASE Live(posts[b])
        <4>1. posts'[b] = [posts[b] EXCEPT !.at = "killed"]
          BY <1>4, <3>1 DEF ServerStops
        <4>2. posts'[b].at = "killed" /\ posts'[b].doing = posts[b].doing /\ posts'[b].page = posts[b].page
          BY <4>1, PostIs
        <4> QED
          BY <4>2 DEF LockHeld, Placed, Live
      <3>2. CASE ~Live(posts[b])
        BY <1>4, <3>2, ServerStopsIs DEF LockHeld
      <3> QED
        BY <3>1, <3>2
    <2> QED
      BY <2>1 DEF LockHeld, Placed, Charged, Live
  <1>5. ASSUME NEW j \in Jobs, CreateJob(j) \/ SaveUpload(j) \/ DiscardUpload(j) \/ ShowLayout(j)
        PROVE  LockHeld'
    BY <1>1, <1>5 DEF CreateJob, SaveUpload, DiscardUpload, ShowLayout
  <1> QED
    BY <1>1, <1>2, <1>3, <1>4, <1>5 DEF LayoutNext, Acts, layoutVars

\* Whatever is posted, one extraction at a time writes pages.
LEMMA HeldMeansOne ==
    LockHeld => OneExtracts
  <1>1. ASSUME LockHeld, NEW a \in Posts, Extracts(posts[a])
        PROVE  ocrLock = a
    BY <1>1 DEF LockHeld, Placed, Extracts, Live, Charged
  <1> QED
    BY <1>1 DEF OneExtracts

-----------------------------------------------------------------------------
(* Files that nobody disturbs.                                             *)

\* A step that leaves alone what is kept of a job.
Same(j) ==
    /\ jobFile'[j] = jobFile[j] /\ jobTmp'[j] = jobTmp[j] /\ viewed'[j] = viewed[j]
    /\ layoutPages'[j] = layoutPages[j] /\ pageImages'[j] = pageImages[j]
    /\ j \in known' <=> j \in known
    /\ Apart(j)' => Apart(j)
    /\ j \in abandoned => j \in abandoned'
    /\ \A b \in Posts : /\ Holder(b, j)' <=> Holder(b, j)
                        /\ Holder(b, j) => posts'[b] = posts[b]
                        /\ posts'[b].job = j /\ posts'[b].at = "raised" =>
                             posts[b].job = j /\ posts[b].at = "raised"

LEMMA SameLone ==
    ASSUME NEW j \in Jobs, Same(j), Lone(j)
    PROVE  Lone(j)'
  <1>1. \A a, b \in Posts : Holder(a, j)' /\ Holder(b, j)' => a = b
    BY DEF Same, Lone
  <1>2. ASSUME NEW a \in Posts, Holder(a, j)'
        PROVE  Held(posts[a], j)'
    <2>1. Held(posts[a], j) /\ posts'[a] = posts[a]
      BY <1>2 DEF Same, Lone
    <2> QED
      BY <2>1 DEF Held, Same
  <1>3. \A a \in Posts : posts'[a].job = j => posts'[a].at # "raised"
    BY DEF Same, Lone
  <1>4. Told(j)'
    BY DEF Same, Lone, Told
  <1>5. jobFile'[j].status \in {"queued", "running"} => (\E a \in Posts : Holder(a, j)') \/ j \in abandoned'
    BY DEF Same, Lone
  <1> QED
    BY <1>1, <1>2, <1>3, <1>4, <1>5 DEF Lone

LEMMA SameKept ==
    ASSUME NEW j \in Jobs, Same(j), Kept(j)
    PROVE  Kept(j)'
  <1>1. j \notin known' => Fresh(j)'
    BY DEF Same, Kept, Fresh
  <1>2. Apart(j)' => (j \in known' => Lone(j)') /\ viewed'[j] \in {{}, AllPages}
    BY SameLone DEF Same, Kept
  <1> QED
    BY <1>1, <1>2 DEF Kept

\* The files of another job, and its posts, are not touched.
LEMMA OtherIs ==
    ASSUME LayoutTyped, NEW a \in Posts, Acts(a), NEW j \in Jobs, posts[a].job # j
    PROVE  Same(j)
  <1>1. /\ jobFile'[j] = jobFile[j] /\ jobTmp'[j] = jobTmp[j]
        /\ layoutPages'[j] = layoutPages[j] /\ pageImages'[j] = pageImages[j]
        /\ Apart(j)' => Apart(j)
    BY DEF Acts, ReadState, OpenTmp, FillTmp, ReplaceFile, TakeLock, SavePage, ReportPage, PagesEnd,
           RenderPages, ExtractionFails, LayoutTyped, Apart
  <1>2. UNCHANGED <<known, abandoned, viewed>>
    BY ActsIs
  <1>3. ASSUME NEW b \in Posts
        PROVE  /\ Holder(b, j)' <=> Holder(b, j)
               /\ Holder(b, j) => posts'[b] = posts[b]
               /\ posts'[b].job = j /\ posts'[b].at = "raised" =>
                    posts[b].job = j /\ posts[b].at = "raised"
    <2>1. posts'[b].job = posts[b].job /\ (posts[b].job = j => posts'[b] = posts[b])
      BY ActsIs
    <2> QED
      BY <2>1 DEF Holder, Holds, Live
  <1> QED
    BY <1>1, <1>2, <1>3 DEF Same

-----------------------------------------------------------------------------
(* A step of the post that has a file to itself.                           *)

BusyStatus(status) == status \in {"queued", "running"}

\* What the step of a must leave behind.
Fine(a, j) ==
    /\ Holder(a, j) => Held(posts[a], j)
    /\ posts[a].at # "raised"
    /\ Told(j)
    /\ BusyStatus(jobFile[j].status) => Holder(a, j)

Alone(a, j) == \A b \in Posts \ {a} : ~Holder(b, j)

LEMMA TurnLone ==
    ASSUME LayoutTyped, NEW a \in Posts, NEW j \in Jobs, Acts(a), posts[a].job = j,
           Lone(j), Alone(a, j), Fine(a, j)'
    PROVE  Lone(j)'
  <1>1. posts'[a].job = j
    BY ActsIs
  <1>2. ASSUME NEW b \in Posts \ {a}
        PROVE  ~Holder(b, j)' /\ (posts'[b].job = j => posts'[b].at # "raised")
    <2>1. posts'[b].at = posts[b].at /\ posts'[b].job = posts[b].job /\ posts'[b].doing = posts[b].doing
      BY ActsIs
    <2> QED
      BY <2>1 DEF Alone, Holder, Holds, Live, Lone
  <1>3. \A b, c \in Posts : Holder(b, j)' /\ Holder(c, j)' => b = c
    BY <1>2
  <1>4. ASSUME NEW b \in Posts, Holder(b, j)'
        PROVE  Held(posts[b], j)'
    <2>1. b = a
      BY <1>2, <1>4
    <2>2. Held(posts[a], j)'
      BY <1>4, <2>1 DEF Fine
    <2> QED
      BY <2>1, <2>2
  <1>5. \A b \in Posts : posts'[b].job = j => posts'[b].at # "raised"
    BY <1>2 DEF Fine
  <1>6. Told(j)' /\ (jobFile'[j].status \in {"queued", "running"} => Holder(a, j)')
    BY DEF Fine, BusyStatus
  <1> QED
    BY <1>3, <1>4, <1>5, <1>6 DEF Lone

\* The post that may queue the job reads it.
LEMMA QueueingTurn ==
    ASSUME LayoutTyped, LockHeld, NEW a \in Posts, NEW j \in Jobs, ReadState(a), posts[a].job = j,
           posts[a].doing = "queue", Lone(j), Apart(j)'
    PROVE  Lone(j)'
  <1> DEFINE p == posts[a]
             s == jobFile[j].status
  <1>1. Acts(a) /\ p.at = "read" /\ jobFile' = jobFile /\ jobTmp' = jobTmp /\ layoutPages' = layoutPages
        /\ pageImages' = pageImages
    BY DEF Acts, ReadState
  <1>2. Told(j) /\ jobFile[j] \in States /\ Readable(jobFile[j])
    BY FileIs DEF Lone, Told
  <1>3. p.page = 0 /\ p \in PostRecords
    BY PostIs DEF LockHeld, Placed
  <1>4. CASE ~Queueable(s)
    <2>1. Only(a) /\ At(a, "refused", "queue", p.page) /\ UNCHANGED overlapped
      BY <1>2, <1>4, RefusedIs
    <2>2. ~Holder(a, j) /\ ~Holder(a, j)' /\ posts'[a].at # "raised"
      BY <1>1, <2>1 DEF Holder, Holds, Live, At
    <2>3. ASSUME NEW b \in Posts \ {a}
          PROVE  posts'[b] = posts[b]
      BY <2>1 DEF Only
    <2>4. ASSUME NEW b \in Posts
          PROVE  /\ Holder(b, j)' <=> Holder(b, j)
                 /\ Holder(b, j) => posts'[b] = posts[b]
                 /\ posts'[b].job = j /\ posts'[b].at = "raised" =>
                      posts[b].job = j /\ posts[b].at = "raised"
      <3>1. CASE b = a
        BY <2>2, <3>1
      <3>2. CASE b # a
        BY <2>3, <3>2 DEF Holder, Holds, Live
      <3> QED
        BY <3>1, <3>2
    <2>5. Apart(j)' => Apart(j)
      BY <2>1 DEF Apart
    <2>6. UNCHANGED <<known, viewed, abandoned>>
      BY DEF ReadState
    <2> QED
      BY <1>1, <2>4, <2>5, <2>6, SameLone DEF Same
  <1>5. CASE Queueable(s)
    <2>1. Only(a) /\ At(a, "open", "queue", 0) /\ posts'[a].mine = Patched(jobFile[j], p)
      BY <1>2, <1>3, <1>5, ReadIs
    <2>2. Patched(jobFile[j], p) \in States /\ Patched(jobFile[j], p).status = "queued"
          /\ Patched(jobFile[j], p).phase = Patched(jobFile[j], p).status
      BY <1>2, <1>3, PatchedIs DEF StatusOf
    <2>3. Alone(a, j)
      <3>1. \A b \in Posts \ {a} : ~(posts[b].job = j /\ Queueing(posts[b]))
        BY <1>5 DEF ReadState, Apart
      <3>2. ASSUME NEW b \in Posts \ {a}, Holder(b, j)
            PROVE  FALSE
        <4>1. Held(posts[b], j) /\ posts[b].at \in Ats /\ Placed(posts[b])
          BY <3>2, PostIs DEF Lone, LockHeld
        <4>2. posts[b].doing = "queue"
          BY <1>5, <4>1 DEF Held, Queueable
        <4>3. posts[b].at \in {"open", "fill", "replace"}
          BY <3>2, <4>1, <4>2 DEF Holder, Holds, Live, Ats, Placed
        <4> QED
          BY <3>1, <3>2, <4>2, <4>3 DEF Holder, Queueing
      <3> QED
        BY <3>2 DEF Alone
    <2>4. Fine(a, j)'
      <3>1. Held(posts[a], j)'
        BY <1>1, <1>5, <2>1, <2>2 DEF Held, At, StatusOf
      <3>2. Told(j)' /\ ~BusyStatus(jobFile'[j].status)
        BY <1>1, <1>2, <1>5 DEF Told, BusyStatus, Queueable
      <3> QED
        BY <2>1, <3>1, <3>2 DEF Fine, At
    <2> QED
      BY <1>1, <2>3, <2>4, TurnLone
  <1> QED
    BY <1>4, <1>5

\* What a holder has in hand, whatever it does.
Hand(a, j) ==
    /\ posts[a] \in PostRecords /\ posts[a].doing \in Doings /\ posts[a].at \in Ats
    /\ posts[a].page \in 0..Pages /\ posts[a].job = j
    /\ Holder(a, j) /\ Held(posts[a], j) /\ Placed(posts[a]) /\ Told(j)
    /\ jobFile[j] \in States

LEMMA HandIs ==
    ASSUME LayoutTyped, LockHeld, NEW a \in Posts, NEW j \in Jobs, Holder(a, j), Lone(j)
    PROVE  Hand(a, j)
  BY PostIs DEF Hand, Lone, Told, LockHeld, Holder

\* A thread reads the state before it reports.
LEMMA ReadTurn ==
    ASSUME LayoutTyped, NEW a \in Posts, NEW j \in Jobs, ReadState(a), Hand(a, j)
    PROVE  Fine(a, j)'
  <1> DEFINE p == posts[a]
             m == Patched(jobFile[j], p)
  <1>1. p.at = "read" /\ jobFile' = jobFile /\ jobTmp' = jobTmp /\ layoutPages' = layoutPages
        /\ pageImages' = pageImages
    BY DEF ReadState
  <1>2. p.doing # "queue" /\ Readable(jobFile[j]) /\ p.job = j
    BY <1>1, FileIs DEF Hand, Holder, Holds
  <1>3. Only(a) /\ At(a, "open", p.doing, p.page) /\ posts'[a].mine = m
    BY <1>2, ReadIs
  <1>4. m \in States /\ m.status = StatusOf(p.doing) /\ (m.status # "running" => m.phase = m.status)
    <2>1. jobFile[j] \in States /\ p \in PostRecords /\ p.doing \in Doings
      BY DEF Hand
    <2>2. CASE Charged(p)
      <3>1. m.status = jobFile[j].status /\ m \in States
        BY <2>1, <2>2, PatchedIs DEF Charged
      <3>2. jobFile[j].status = "running" /\ StatusOf(p.doing) = "running"
        BY <2>2 DEF Hand, Held, Charged, StatusOf
      <3> QED
        BY <3>1, <3>2
    <2>3. CASE p.doing = "start"
      BY <2>1, <2>3, PatchedIs DEF StatusOf
    <2>4. CASE p.doing \in {"complete", "fail"}
      BY <2>1, <2>4, PatchedIs
    <2> QED
      BY <1>2, <2>1, <2>2, <2>3, <2>4 DEF Charged, Doings
  <1> HIDE DEF m
  <1>5. Held(posts[a], j)'
    <2>1. Held(p, j)
      BY DEF Hand
    <2> QED
      BY <1>1, <1>2, <1>3, <1>4, <2>1 DEF Held, At
  <1>6. Told(j)'
    BY <1>1 DEF Hand, Told
  <1> QED
    BY <1>2, <1>3, <1>5, <1>6 DEF Fine, At, Holder, Holds, Live

\* job.tmp is opened and filled: nobody else has it open.
LEMMA OpenTurn ==
    ASSUME LayoutTyped, NEW a \in Posts, NEW j \in Jobs, OpenTmp(a), Hand(a, j)
    PROVE  Fine(a, j)'
  <1>1. posts[a].at = "open" /\ jobFile' = jobFile /\ layoutPages' = layoutPages /\ pageImages' = pageImages
    BY DEF OpenTmp
  <1>2. At(a, "fill", posts[a].doing, posts[a].page) /\ posts'[a].mine = posts[a].mine
        /\ posts'[a].handle = "tmp"
    BY OpenIs
  <1>3. Held(posts[a], j) /\ posts[a].job = j
    BY DEF Hand
  <1>4. Held(posts[a], j)'
    BY <1>1, <1>2, <1>3 DEF Held, At
  <1>5. Told(j)'
    BY <1>1 DEF Hand, Told
  <1> QED
    BY <1>2, <1>3, <1>4, <1>5 DEF Fine, At, Holder, Holds, Live

LEMMA FillTurn ==
    ASSUME LayoutTyped, NEW a \in Posts, NEW j \in Jobs, FillTmp(a), Hand(a, j)
    PROVE  Fine(a, j)'
  <1>1. Held(posts[a], j) /\ posts[a].job = j /\ posts[a].at = "fill"
    BY DEF Hand, FillTmp
  <1>2. posts[a].handle = "tmp"
    BY <1>1 DEF Held
  <1>3. jobFile' = jobFile /\ jobTmp'[j] = posts[a].mine /\ layoutPages' = layoutPages
        /\ pageImages' = pageImages
    BY <1>1, <1>2 DEF FillTmp, LayoutTyped
  <1>4. At(a, "replace", posts[a].doing, posts[a].page) /\ posts'[a].mine = posts[a].mine
    BY FillIs
  <1>5. Held(posts[a], j)'
    BY <1>1, <1>3, <1>4 DEF Held, At
  <1>6. Told(j)'
    BY <1>3 DEF Hand, Told
  <1> QED
    BY <1>1, <1>4, <1>5, <1>6 DEF Fine, At, Holder, Holds, Live

\* The renaming finds job.tmp, and it says what this thread wrote.
LEMMA ReplaceTurn ==
    ASSUME LayoutTyped, NEW a \in Posts, NEW j \in Jobs, ReplaceFile(a), Hand(a, j)
    PROVE  Fine(a, j)'
  <1> DEFINE p == posts[a]
             q == posts'[a]
  <1>1. p.at = "replace" /\ p.job = j /\ layoutPages' = layoutPages /\ pageImages' = pageImages
        /\ Held(p, j) /\ p.page \in 0..Pages /\ p.doing \in Doings /\ p \in PostRecords
    BY DEF ReplaceFile, Hand
  <1>2. jobTmp[j] = p.mine /\ p.mine \in States /\ p.mine.status = StatusOf(p.doing)
        /\ (p.mine.status # "running" => p.mine.phase = p.mine.status)
    BY <1>1 DEF Held
  <1>3. jobTmp[j] # NoFile
    BY <1>2, FileIs
  <1>4. jobFile'[j] = p.mine
    BY <1>1, <1>2, <1>3 DEF ReplaceFile, LayoutTyped
  <1>5. q = After(p)
    BY <1>1, <1>3, ReplaceIs
  <1>6. /\ q.page = p.page /\ q.job = j
        /\ p.doing = "queue" => q.doing = "start" /\ q.at = "read"
        /\ p.doing # "queue" => q.doing = p.doing
        /\ p.doing = "start" => q.at = "lock"
        /\ p.doing \in {"extracting", "page"} => q.at = "predict"
        /\ p.doing = "rendering" => q.at = "render"
        /\ p.doing \in {"complete", "fail"} => q.at = "done"
    BY <1>1, <1>5, AfterIs
  <1>7. Told(j)'
    <2>1. CASE p.doing = "complete"
      <3>1. p.page = Pages /\ pageImages[j]
        BY <1>1, <2>1 DEF Held
      <3>2. AllPages \subseteq layoutPages[j]
        BY <1>1, <2>1, <3>1 DEF Held, AllPages
      <3>3. layoutPages[j] = AllPages
        BY <3>2 DEF LayoutTyped
      <3> QED
        BY <1>1, <1>2, <1>4, <3>1, <3>3 DEF Told
    <2>2. CASE p.doing # "complete"
      <3>1. p.mine.status # "completed"
        BY <1>2, <2>2 DEF StatusOf
      <3> QED
        BY <1>2, <1>4, <3>1 DEF Told
    <2> QED
      BY <2>1, <2>2
  <1>8. Holder(a, j)' => Held(posts[a], j)'
    <2>1. CASE p.doing = "queue"
      <3>1. p.page = 0 /\ 1..0 = {}
        BY <2>1 DEF Hand, Placed
      <3> QED
        BY <1>2, <1>4, <1>6, <2>1, <3>1 DEF Held, StatusOf
    <2>2. CASE p.doing = "start"
      <3>1. p.page = 0 /\ 1..0 = {}
        BY <2>2 DEF Hand, Placed
      <3> QED
        BY <1>2, <1>4, <1>6, <2>2, <3>1 DEF Held, StatusOf
    <2>3. CASE p.doing \in {"extracting", "page", "rendering"}
      <3>1. p.mine.status = "running"
        BY <1>2, <2>3 DEF StatusOf
      <3> QED
        BY <1>1, <1>4, <1>6, <2>3, <3>1 DEF Held
    <2>4. CASE p.doing \in {"complete", "fail"}
      BY <1>6, <2>4 DEF Holder, Holds, Live
    <2> QED
      BY <1>1, <2>1, <2>2, <2>3, <2>4 DEF Doings
  <1>9. BusyStatus(jobFile'[j].status) => Holder(a, j)'
    <2>1. CASE p.doing \in {"complete", "fail"}
      BY <1>2, <1>4, <2>1 DEF StatusOf, BusyStatus
    <2>2. CASE p.doing \notin {"complete", "fail"}
      BY <1>1, <1>6, <2>2 DEF Holder, Holds, Live, Doings
    <2> QED
      BY <2>1, <2>2
  <1>10. q.at # "raised"
    BY <1>1, <1>6 DEF Doings
  <1> QED
    BY <1>7, <1>8, <1>9, <1>10 DEF Fine

\* The steps of the extraction: the file says that it runs, and the pages up to its
\* own are there.
LEMMA ThreadTurn ==
    ASSUME LayoutTyped, LockHeld, NEW a \in Posts, NEW j \in Jobs, Hand(a, j),
           TakeLock(a) \/ SavePage(a) \/ ReportPage(a) \/ PagesEnd(a) \/ RenderPages(a) \/ ExtractionFails(a)
    PROVE  Fine(a, j)'
  <1> DEFINE p == posts[a]
             q == posts'[a]
  <1>1. p.job = j /\ Held(p, j) /\ Placed(p) /\ p.page \in 0..Pages /\ p.doing \in Doings
        /\ layoutPages \in [Jobs -> SUBSET AllPages] /\ pageImages \in [Jobs -> BOOLEAN]
    BY DEF Hand, LayoutTyped
  <1>2. jobFile' = jobFile /\ q.job = j
    BY <1>1, ActsIs DEF Acts, TakeLock, SavePage, ReportPage, PagesEnd, RenderPages, ExtractionFails
  <1>3. jobFile[j].status = "running"
    <2>1. p.at \in {"lock", "predict", "saving", "render"}
      BY DEF TakeLock, SavePage, ReportPage, PagesEnd, RenderPages, ExtractionFails
    <2>2. p.at = "lock" => p.doing = "start"
      BY <1>1 DEF Placed
    <2>3. p.at # "lock" => p.doing \notin {"queue", "start"}
      BY <1>1, <2>1 DEF Placed
    <2> QED
      BY <1>1, <2>2, <2>3 DEF Held
  <1>4. Told(j)'
    BY <1>2, <1>3 DEF Hand, Told
  <1>5. ASSUME q.at \in {"read", "saving"}, q.doing \notin {"queue", "start"},
               q.doing # "fail" => \A n \in 1..q.page : n \in layoutPages'[j] \/ (q.at = "saving" /\ n = q.page),
               q.doing \in {"rendering", "complete"} => q.page = Pages,
               q.doing = "complete" => pageImages'[j]
        PROVE  Fine(a, j)'
    <2>1. Held(posts[a], j)'
      BY <1>2, <1>3, <1>5 DEF Held
    <2>2. Holder(a, j)'
      BY <1>2, <1>5 DEF Holder, Holds, Live
    <2> QED
      BY <1>4, <1>5, <2>1, <2>2 DEF Fine
  <1>6. CASE TakeLock(a)
    <2>1. At(a, "read", "extracting", p.page)
      BY <1>6, TakeLockIs
    <2>2. p.page = 0
      BY <1>1, <1>6 DEF TakeLock, Placed
    <2>3. q.page = 0 /\ 1..0 = {}
      BY <2>1, <2>2 DEF At
    <2> QED
      BY <1>5, <2>1, <2>3 DEF At
  <1>7. CASE SavePage(a)
    <2>1. At(a, "saving", p.doing, p.page + 1) /\ p.doing \in {"extracting", "page"} /\ p.at = "predict"
      BY <1>1, <1>7, SavePageIs DEF SavePage, Placed
    <2>2. layoutPages'[j] = layoutPages[j] \ {p.page + 1}
      BY <1>1, <1>7 DEF SavePage
    <2>3. ASSUME NEW n \in 1..(p.page + 1)
          PROVE  n \in layoutPages'[j] \/ n = p.page + 1
      <3>1. n # p.page + 1 => n \in 1..p.page
        BY <1>1
      <3> QED
        BY <1>1, <2>1, <2>2, <3>1 DEF Held
    <2> QED
      BY <1>5, <2>1, <2>3 DEF At
  <1>8. CASE ReportPage(a)
    <2>1. At(a, "read", "page", p.page) /\ p.at = "saving" /\ p.doing # "fail"
      BY <1>1, <1>8, ReportPageIs DEF ReportPage, Placed
    <2>2. layoutPages'[j] = layoutPages[j] \cup {p.page}
      BY <1>1, <1>8 DEF ReportPage
    <2>3. \A n \in 1..p.page : n \in layoutPages'[j]
      BY <1>1, <2>1, <2>2 DEF Held
    <2> QED
      BY <1>5, <2>1, <2>3 DEF At
  <1>9. CASE PagesEnd(a)
    <2>1. At(a, "read", "rendering", p.page) /\ p.at = "predict" /\ p.page = Pages /\ p.doing # "fail"
          /\ layoutPages' = layoutPages
      BY <1>1, <1>9, PagesEndIs DEF PagesEnd, Placed
    <2>2. \A n \in 1..p.page : n \in layoutPages'[j]
      BY <1>1, <2>1 DEF Held
    <2> QED
      BY <1>5, <2>1, <2>2 DEF At
  <1>10. CASE RenderPages(a)
    <2>1. At(a, "read", "complete", p.page) /\ p.doing = "rendering" /\ p.at = "render"
          /\ layoutPages' = layoutPages /\ pageImages'[j]
      BY <1>1, <1>10, RenderPagesIs DEF RenderPages, Placed
    <2>2. p.page = Pages /\ \A n \in 1..p.page : n \in layoutPages'[j]
      BY <1>1, <2>1 DEF Held
    <2> QED
      BY <1>5, <2>1, <2>2 DEF At
  <1>11. CASE ExtractionFails(a)
    <2>1. At(a, "read", "fail", p.page)
      BY <1>11, ExtractionFailsIs
    <2> QED
      BY <1>5, <2>1 DEF At
  <1> QED
    BY <1>6, <1>7, <1>8, <1>9, <1>10, <1>11

\* Where a post takes a step, its own job is kept.
LEMMA ActsKept ==
    ASSUME LayoutTyped, LockHeld, NEW a \in Posts, Acts(a), NEW j \in Jobs, Kept(j)
    PROVE  Kept(j)'
  <1>1. CASE posts[a].job # j
    BY <1>1, OtherIs, SameKept
  <1>2. CASE posts[a].job = j
    <2>1. j \in known /\ Live(posts[a]) /\ UNCHANGED <<known, abandoned, viewed>>
      BY <1>2, ActsIs DEF LayoutTyped
    <2>2. Apart(j)' => Apart(j)
      BY DEF Acts, ReadState, OpenTmp, FillTmp, ReplaceFile, TakeLock, SavePage, ReportPage, PagesEnd,
             RenderPages, ExtractionFails, Apart
    <2>3. ASSUME Apart(j)'
          PROVE  Lone(j)'
      <3>1. Lone(j)
        BY <2>1, <2>2, <2>3 DEF Kept
      <3>2. CASE posts[a].at = "read" /\ posts[a].doing = "queue"
        <4>1. ReadState(a)
          BY <3>2 DEF Acts, ReadState, OpenTmp, FillTmp, ReplaceFile, TakeLock, SavePage, ReportPage,
                 PagesEnd, RenderPages, ExtractionFails
        <4> QED
          BY <1>2, <2>3, <3>1, <3>2, <4>1, QueueingTurn
      <3>3. CASE ~(posts[a].at = "read" /\ posts[a].doing = "queue")
        <4>1. Holder(a, j)
          BY <1>2, <2>1, <3>3 DEF Holder, Holds
        <4>2. Alone(a, j)
          BY <3>1, <4>1 DEF Lone, Alone
        <4>3. Hand(a, j)
          BY <3>1, <4>1, HandIs
        <4>4. Fine(a, j)'
          BY <4>3, ReadTurn, OpenTurn, FillTurn, ReplaceTurn, ThreadTurn DEF Acts
        <4> QED
          BY <1>2, <3>1, <4>2, <4>4, TurnLone
      <3> QED
        BY <3>2, <3>3
    <2> QED
      BY <2>1, <2>2, <2>3 DEF Kept
  <1> QED
    BY <1>1, <1>2

-----------------------------------------------------------------------------
(* Uploads, posts, and stops of the server.                                *)

\* What is true of a job before and after a step that changes nothing of it.
LEMMA CalmIs ==
    ASSUME NEW j \in Jobs, UNCHANGED posts,
           jobFile'[j] = jobFile[j], viewed'[j] = viewed[j], j \in known' <=> j \in known,
           UNCHANGED <<jobTmp, layoutPages, pageImages, overlapped, abandoned>>
    PROVE  Same(j)
  BY DEF Same, Apart, Holder, Holds, Live

LEMMA UploadKept ==
    ASSUME LayoutTyped, FilesStay, NEW i \in Jobs, CreateJob(i) \/ SaveUpload(i) \/ DiscardUpload(i) \/ ShowLayout(i),
           NEW j \in Jobs, Kept(j)
    PROVE  Kept(j)'
  <1>1. CASE j # i
    <2>1. UNCHANGED posts /\ jobFile'[j] = jobFile[j] /\ viewed'[j] = viewed[j] /\ (j \in known' <=> j \in known)
          /\ UNCHANGED <<jobTmp, layoutPages, pageImages, overlapped, abandoned>>
      BY <1>1 DEF CreateJob, SaveUpload, DiscardUpload, ShowLayout, LayoutTyped
    <2> QED
      BY <2>1, CalmIs, SameKept
  <1>2. CASE j = i /\ (CreateJob(i) \/ DiscardUpload(i))
    <2>1. j \notin known /\ UNCHANGED <<known, viewed>> /\ jobFile'[j] \in {NoFile, Uploaded}
      <3>1. CASE CreateJob(i)
        BY <1>2, <3>1 DEF CreateJob, LayoutTyped, Uploaded, FilesStay
      <3>2. CASE DiscardUpload(i)
        BY <1>2, <3>2 DEF DiscardUpload, LayoutTyped
      <3> QED
        BY <1>2, <3>1, <3>2
    <2> QED
      BY <2>1 DEF Kept, Fresh, Apart
  <1>3. CASE j = i /\ SaveUpload(i)
    <2>1. jobFile[j] = Uploaded /\ viewed[j] = {} /\ j \notin known
      BY <1>3 DEF SaveUpload, Kept, Fresh
    <2>2. UNCHANGED <<jobFile, jobTmp, layoutPages, pageImages, posts, overlapped, abandoned, viewed>>
          /\ j \in known'
      BY <1>3 DEF SaveUpload
    <2>3. \A b \in Posts : posts'[b].job = j => posts'[b].at = "idle"
      BY <2>1, <2>2 DEF LayoutTyped
    <2>4. Lone(j)'
      <3>1. Told(j)' /\ jobFile'[j].status = "uploaded"
        BY <2>1, <2>2, FileIs DEF Told, Uploaded
      <3>2. \A b \in Posts : ~Holder(b, j)' /\ (posts'[b].job = j => posts'[b].at # "raised")
        BY <2>3 DEF Holder, Holds, Live
      <3> QED
        BY <3>1, <3>2 DEF Lone
    <2> QED
      BY <2>1, <2>2, <2>4 DEF Kept
  <1>4. CASE j = i /\ ShowLayout(i)
    <2>1. j \in known /\ jobFile[j].status = "completed" /\ viewed'[j] = layoutPages[j]
          /\ UNCHANGED <<jobFile, jobTmp, known, layoutPages, pageImages, posts, overlapped, abandoned>>
      BY <1>4 DEF ShowLayout, LayoutTyped
    <2>2. Apart(j)' => Lone(j)
      BY <2>1 DEF Kept, Apart
    <2>3. Lone(j) => Lone(j)'
      BY <2>1 DEF Lone, Told, Held, Holder, Holds, Live
    <2>4. Lone(j) => viewed'[j] = AllPages
      BY <2>1 DEF Lone, Told
    <2> QED
      BY <2>1, <2>2, <2>3, <2>4 DEF Kept
  <1> QED
    BY <1>1, <1>2, <1>3, <1>4

LEMMA PostKept ==
    ASSUME LayoutTyped, NEW a \in Posts, NEW i \in Jobs, PostExtract(a, i), NEW j \in Jobs, Kept(j)
    PROVE  Kept(j)'
  <1>1. Only(a) /\ posts[a].at = "idle" /\ posts'[a].at = "read" /\ posts'[a].doing = "queue"
    BY PostExtractIs
  <1>2. ASSUME NEW b \in Posts
        PROVE  /\ Holder(b, j)' <=> Holder(b, j)
               /\ Holder(b, j) => posts'[b] = posts[b]
               /\ posts'[b].job = j /\ posts'[b].at = "raised" =>
                    posts[b].job = j /\ posts[b].at = "raised"
    <2>1. CASE b = a
      BY <1>1, <2>1 DEF Holder, Holds, Live
    <2>2. CASE b # a
      <3>1. posts'[b] = posts[b]
        BY <1>1, <2>2 DEF Only
      <3> QED
        BY <3>1 DEF Holder, Holds, Live
    <2> QED
      BY <2>1, <2>2
  <1>3. UNCHANGED <<jobFile, jobTmp, known, layoutPages, pageImages, overlapped, abandoned, viewed>>
    BY DEF PostExtract
  <1>4. Same(j)
    BY <1>2, <1>3 DEF Same, Apart
  <1> QED
    BY <1>4, SameKept

LEMMA StopKept ==
    ASSUME LayoutTyped, ServerStops, NEW j \in Jobs, Kept(j)
    PROVE  Kept(j)'
  <1>1. UNCHANGED <<jobFile, jobTmp, known, layoutPages, pageImages, overlapped, viewed>>
    BY DEF ServerStops
  <1>2. ASSUME Lone(j)
        PROVE  Lone(j)'
    <2>1. ASSUME NEW b \in Posts
          PROVE  /\ ~Holder(b, j)'
                 /\ posts'[b].job = j => posts'[b].at # "raised"
                 /\ Holder(b, j) => j \in abandoned'
      <3>1. ~Live(posts[b])' /\ posts'[b].job = posts[b].job
            /\ (posts'[b].at = "raised" => posts[b].at = "raised")
            /\ (Live(posts[b]) => posts[b].job \in abandoned')
        BY ServerStopsIs
      <3> QED
        BY <1>2, <3>1 DEF Holder, Holds, Lone
    <2>2. Told(j)'
      BY <1>1, <1>2 DEF Lone, Told
    <2>3. jobFile'[j].status \in {"queued", "running"} => j \in abandoned'
      BY <1>1, <1>2, <2>1, ServerStopsIs DEF Lone
    <2> QED
      BY <2>1, <2>2, <2>3 DEF Lone
  <1>3. Fresh(j) => Fresh(j)'
    BY <1>1 DEF Fresh
  <1> QED
    BY <1>1, <1>2, <1>3 DEF Kept, Apart

\* A state that is written is not the absence of one.
LEMMA FilesStayStep ==
    LayoutTyped /\ FilesStay /\ [LayoutNext]_layoutVars => FilesStay'
  <1> SUFFICES ASSUME LayoutTyped, FilesStay, [LayoutNext]_layoutVars
               PROVE  FilesStay'
    OBVIOUS
  <1>1. ASSUME NEW a \in Posts, Acts(a)
        PROVE  FilesStay'
    <2>1. ASSUME NEW b \in Posts \ {a}
          PROVE  posts'[b].at = posts[b].at /\ posts'[b].mine = posts[b].mine
      BY <1>1, ActsIs
    <2>2. ASSUME posts'[a].at \in {"open", "fill"}
          PROVE  posts'[a].mine # NoFile
      <3>1. CASE ReadState(a)
        <4>1. Readable(jobFile[posts[a].job])
          <5>1. ~(posts'[a].at = Raised(posts[a]).at)
            BY <2>2, PostIs, RaisedIs
          <5> QED
            BY <3>1, <5>1, UnreadableIs, RaiseIs
        <4>2. posts'[a].mine = Patched(jobFile[posts[a].job], posts[a])
          BY <2>2, <3>1, <4>1, ReadIs, RefusedIs DEF At
        <4> QED
          BY <4>1, <4>2, PostIs, FileIs, PatchedIs
      <3>2. CASE OpenTmp(a)
        <4>1. posts[a].at = "open" /\ posts'[a].mine = posts[a].mine
          BY <3>2, OpenIs DEF OpenTmp
        <4> QED
          BY <4>1 DEF FilesStay
      <3>3. CASE ReplaceFile(a)
        <4>1. posts'[a] \in {After(posts[a]), Raised(posts[a])}
          BY <3>3, RaiseIs, ReplaceIs DEF ReplaceFile
        <4>2. posts[a].doing \in Doings /\ posts[a] \in PostRecords
          BY PostIs
        <4>3. After(posts[a]).at \notin {"open", "fill"}
          BY <4>2, AfterIs DEF Doings
        <4>4. Raised(posts[a]).at \notin {"open", "fill"}
          BY <4>2, RaisedIs
        <4> QED
          BY <2>2, <4>1, <4>3, <4>4
      <3>4. CASE FillTmp(a) \/ TakeLock(a) \/ SavePage(a) \/ ReportPage(a) \/ PagesEnd(a)
                 \/ RenderPages(a) \/ ExtractionFails(a)
        <4>1. posts'[a].at \notin {"open", "fill"}
          BY <3>4, FillIs, TakeLockIs, SavePageIs, ReportPageIs, PagesEndIs, RenderPagesIs,
             ExtractionFailsIs DEF At
        <4> QED
          BY <2>2, <4>1
      <3> QED
        BY <1>1, <3>1, <3>2, <3>3, <3>4 DEF Acts
    <2>3. ASSUME NEW j \in Jobs, jobFile[j] # NoFile
          PROVE  jobFile'[j] # NoFile
      <3>1. CASE FillTmp(a)
        <4>1. posts[a].mine # NoFile
          BY <3>1 DEF FillTmp, FilesStay
        <4> QED
          BY <2>3, <3>1, <4>1 DEF FillTmp, LayoutTyped
      <3>2. CASE ReplaceFile(a)
        BY <2>3, <3>2 DEF ReplaceFile, LayoutTyped
      <3>3. CASE ~FillTmp(a) /\ ~ReplaceFile(a)
        <4>1. jobFile' = jobFile
          BY <1>1, <3>3 DEF Acts, ReadState, OpenTmp, TakeLock, SavePage, ReportPage, PagesEnd,
                 RenderPages, ExtractionFails
        <4> QED
          BY <2>3, <4>1
      <3> QED
        BY <3>1, <3>2, <3>3
    <2>4. known' = known /\ known \subseteq Jobs
      BY <1>1, ActsIs DEF LayoutTyped
    <2> QED
      BY <2>1, <2>2, <2>3, <2>4 DEF FilesStay
  <1>2. ASSUME NEW i \in Jobs, CreateJob(i) \/ SaveUpload(i) \/ DiscardUpload(i) \/ ShowLayout(i)
        PROVE  FilesStay'
    <2>1. \A a \in Posts : posts'[a].at \in {"open", "fill"} => posts'[a].mine # NoFile
      BY <1>2 DEF CreateJob, SaveUpload, DiscardUpload, ShowLayout, FilesStay
    <2>2. known \subseteq Jobs /\ Uploaded # NoFile
      BY FileIs DEF LayoutTyped
    <2>3. ASSUME NEW j \in known'
          PROVE  jobFile'[j] # NoFile
      BY <1>2, <2>2 DEF CreateJob, SaveUpload, DiscardUpload, ShowLayout, FilesStay, LayoutTyped, Uploaded
    <2> QED
      BY <2>1, <2>3 DEF FilesStay
  <1>3. ASSUME NEW a \in Posts, NEW i \in Jobs, PostExtract(a, i)
        PROVE  FilesStay'
    BY <1>3, PostExtractIs DEF PostExtract, FilesStay, Only
  <1>4. ASSUME ServerStops
        PROVE  FilesStay'
    <2>1. ASSUME NEW b \in Posts
          PROVE  posts'[b].at \notin {"open", "fill"}
      BY <1>4, ServerStopsIs DEF Live
    <2> QED
      BY <1>4, <2>1 DEF ServerStops, FilesStay
  <1>5. ASSUME UNCHANGED layoutVars
        PROVE  FilesStay'
    BY <1>5 DEF layoutVars, FilesStay
  <1> QED
    BY <1>1, <1>2, <1>3, <1>4, <1>5 DEF LayoutNext, Acts

LEMMA JobsInvInit == LayoutInit => JobsInv
  <1> SUFFICES ASSUME LayoutInit
               PROVE  JobsInv
    OBVIOUS
  <1>1. LockHeld
    <2>1. \A a \in Posts : posts[a].at = "idle" /\ posts[a].page = 0
      BY IdleIs DEF LayoutInit, Idle
    <2> QED
      BY <2>1 DEF LockHeld, Placed, Live
  <1>2. \A j \in Jobs : Kept(j)
    BY DEF LayoutInit, Kept, Fresh
  <1>3. FilesStay
    BY IdleIs DEF LayoutInit, FilesStay
  <1> QED
    BY <1>1, <1>2, <1>3, LayoutInitTyped DEF JobsInv

LEMMA JobsInvStep == JobsInv /\ [LayoutNext]_layoutVars => JobsInv'
  <1> SUFFICES ASSUME JobsInv, [LayoutNext]_layoutVars
               PROVE  JobsInv'
    OBVIOUS
  <1>1. LayoutTyped /\ LockHeld /\ FilesStay
    BY DEF JobsInv
  <1>2. LayoutTyped' /\ LockHeld' /\ FilesStay'
    BY <1>1, LayoutStepTyped, LockHeldStep, FilesStayStep
  <1>3. ASSUME NEW j \in Jobs
        PROVE  Kept(j)'
    <2>1. Kept(j)
      BY DEF JobsInv
    <2>2. ASSUME NEW i \in Jobs, CreateJob(i) \/ SaveUpload(i) \/ DiscardUpload(i) \/ ShowLayout(i)
          PROVE  Kept(j)'
      BY <1>1, <2>1, <2>2, UploadKept
    <2>3. ASSUME NEW a \in Posts, NEW i \in Jobs, PostExtract(a, i)
          PROVE  Kept(j)'
      BY <1>1, <2>1, <2>3, PostKept
    <2>4. ASSUME NEW a \in Posts, Acts(a)
          PROVE  Kept(j)'
      BY <1>1, <2>1, <2>4, ActsKept
    <2>5. ASSUME ServerStops
          PROVE  Kept(j)'
      BY <1>1, <2>1, <2>5, StopKept
    <2>6. ASSUME UNCHANGED layoutVars
          PROVE  Kept(j)'
      <3>1. Same(j)
        BY <2>6, CalmIs DEF layoutVars
      <3> QED
        BY <2>1, <3>1, SameKept
    <2> QED
      BY <2>2, <2>3, <2>4, <2>5, <2>6 DEF LayoutNext, Acts
  <1> QED
    BY <1>2, <1>3 DEF JobsInv

LEMMA JobsInvMeans == JobsInv => JobsSound
  <1> SUFFICES ASSUME JobsInv
               PROVE  JobsSound
    OBVIOUS
  <1>1. OneExtracts
    BY HeldMeansOne DEF JobsInv
  <1>2. ASSUME NEW j \in known, Apart(j)
        PROVE  j \in Jobs /\ Lone(j) /\ viewed[j] \in {{}, AllPages}
    BY <1>2 DEF JobsInv, LayoutTyped, Kept
  <1>3. FileTells
    <2>1. ASSUME NEW j \in known, Apart(j)
          PROVE  /\ Readable(jobFile[j])
                 /\ \A a \in Posts : posts[a].job = j => posts[a].at # "raised"
                 /\ jobFile[j].status \in {"queued", "running"} => Works(j) \/ j \in abandoned
                 /\ jobFile[j].status # "running" => jobFile[j].phase = jobFile[j].status
      <3>1. Lone(j) /\ Told(j) /\ Readable(jobFile[j])
        BY <1>2, <2>1, FileIs DEF Lone, Told
      <3>2. (\E a \in Posts : Holder(a, j)) => Works(j)
        BY DEF Works, Holder, Holds
      <3> QED
        BY <3>1, <3>2 DEF Lone, Told
    <2> QED
      BY <2>1 DEF FileTells
  <1>4. CompletedIsWhole
    BY <1>2 DEF CompletedIsWhole, Lone, Told
  <1> QED
    BY <1>1, <1>3, <1>4 DEF JobsSound

-----------------------------------------------------------------------------
(* The theorem.                                                            *)

\* Whatever is posted, and whenever the server stops: one extraction at a time writes
\* pages, the file of a job that was not queued twice at once says what is so, and a
\* completed job has, and shows, all its pages (JobsSound of LayoutJobs).
THEOREM JobsAreSound == LayoutSpec => []JobsSound
  <1>1. LayoutSpec => []JobsInv
    BY JobsInvInit, JobsInvStep, PTL DEF LayoutSpec
  <1> QED
    BY <1>1, JobsInvMeans, PTL

\* No thread is at work on a completed job, so nothing is written to it.
LEMMA CompletedStep ==
    ASSUME JobsInv, [LayoutNext]_layoutVars, NEW j \in known, Apart(j)', jobFile[j].status = "completed"
    PROVE  jobFile'[j].status = "completed" /\ layoutPages'[j] = layoutPages[j]
  <1>1. LayoutTyped /\ LockHeld /\ j \in Jobs
    BY DEF JobsInv, LayoutTyped
  <1>2. ASSUME NEW a \in Posts, Acts(a)
        PROVE  jobFile'[j].status = "completed" /\ layoutPages'[j] = layoutPages[j]
    <2>1. CASE posts[a].job # j
      BY <1>1, <1>2, <2>1, OtherIs DEF Same
    <2>2. CASE posts[a].job = j
      <3>1. Apart(j) /\ Live(posts[a])
        <4>1. Apart(j)
          BY <1>2 DEF Acts, ReadState, OpenTmp, FillTmp, ReplaceFile, TakeLock, SavePage, ReportPage,
                 PagesEnd, RenderPages, ExtractionFails, Apart
        <4> QED
          BY <1>1, <1>2, <4>1, ActsIs
      <3>2. ~Holder(a, j)
        <4>1. ASSUME Holder(a, j)
              PROVE  FALSE
          <5>1. Held(posts[a], j)
            BY <1>1, <3>1, <4>1 DEF JobsInv, Kept, Lone
          <5> QED
            BY <5>1 DEF Held, Queueable
        <4> QED
          BY <4>1
      <3>3. posts[a].at = "read"
        BY <2>2, <3>1, <3>2 DEF Holder, Holds
      <3>4. jobFile' = jobFile /\ layoutPages' = layoutPages
        BY <1>2, <3>3 DEF Acts, ReadState, OpenTmp, FillTmp, ReplaceFile, TakeLock, SavePage, ReportPage,
               PagesEnd, RenderPages, ExtractionFails
      <3> QED
        BY <3>4
    <2> QED
      BY <2>1, <2>2
  <1>3. ASSUME NEW i \in Jobs, CreateJob(i) \/ SaveUpload(i) \/ DiscardUpload(i) \/ ShowLayout(i)
        PROVE  jobFile'[j].status = "completed" /\ layoutPages'[j] = layoutPages[j]
    <2>1. jobFile[j] # NoFile
      BY DEF JobsInv, FilesStay
    <2> QED
      BY <1>1, <1>3, <2>1 DEF CreateJob, SaveUpload, DiscardUpload, ShowLayout, LayoutTyped
  <1>4. CASE (\E a \in Posts, i \in Jobs : PostExtract(a, i)) \/ ServerStops \/ UNCHANGED layoutVars
    <2>1. jobFile' = jobFile /\ layoutPages' = layoutPages
      BY <1>4 DEF PostExtract, ServerStops, layoutVars
    <2> QED
      BY <2>1
  <1> QED
    BY <1>2, <1>3, <1>4 DEF LayoutNext, Acts

\* A completed job stays so, and keeps its pages (CompletedStays of LayoutJobs).
THEOREM CompletedForGood == LayoutSpec => CompletedStays
  <1> DEFINE Stays == \A j \in known : Apart(j)' /\ jobFile[j].status = "completed" =>
                         jobFile'[j].status = "completed" /\ layoutPages'[j] = layoutPages[j]
  <1>1. LayoutSpec => []JobsInv
    BY JobsInvInit, JobsInvStep, PTL DEF LayoutSpec
  <1>2. JobsInv /\ [LayoutNext]_layoutVars => Stays
    BY CompletedStep
  <1> HIDE DEF Stays
  <1>3. JobsInv /\ [LayoutNext]_layoutVars => [Stays]_layoutVars
    BY <1>2
  <1>4. [][Stays]_layoutVars => CompletedStays
    BY DEF CompletedStays, Stays
  <1> QED
    BY <1>1, <1>3, <1>4, PTL DEF LayoutSpec

-----------------------------------------------------------------------------
(***************************************************************************)
(* DocumentIndex                                                           *)
(***************************************************************************)
Vector == [dimension : Dimensions, details : Details]
VectorKeys == UNION {KeysOf(v) : v \in SourceVersions}
Tables == UNION {[S -> Vector] : S \in SUBSET VectorKeys}
Ids == UNION {ChunkIds(v) : v \in SourceVersions}

Early == {"finding", "embedding", "saving", "replacing", "listing"}
Filled == {"saving", "replacing", "listing", "publishing", "deleting"}

IndexCall == [at : Early \cup Filled \cup {"idle"}, version : Nat, details : Details \cup {Unset},
         found : Tables, prepared : Tables, merged : Tables, listed : SUBSET Ids, written : Nat,
         disturbed : BOOLEAN]

IndexTyped ==
    /\ indexing \in [Indexers -> IndexCall]
    /\ reuse \in Tables
    /\ fileLock \in Indexers \cup {Unset}
    /\ DOMAIN collection \in SUBSET Ids
    /\ muddled \in BOOLEAN

\* What a call knows, whoever else runs. The file is replaced by who has its lock, with
\* all that was in it.
IndexCallSound(c) ==
    /\ Running(c) => indexing[c].version \in Projections
    /\ indexing[c].at \in {"finding", "embedding"} => indexing[c].details \in Details
    /\ indexing[c].at = "embedding" => DOMAIN indexing[c].found \subseteq KeysOf(indexing[c].version)
    /\ indexing[c].at \in Early => indexing[c].written = 0
    /\ indexing[c].at \in Filled => DOMAIN indexing[c].prepared = KeysOf(indexing[c].version)
    /\ indexing[c].at = "replacing" <=> fileLock = c
    /\ indexing[c].at = "replacing" => DOMAIN reuse \cup Missing(c) \subseteq DOMAIN indexing[c].merged

\* A call that no other has overlapped.
Undisturbed(c) == Running(c) /\ ~indexing[c].disturbed

Agree(f, g, S) == \A k \in S : k \in DOMAIN f /\ k \in DOMAIN g /\ f[k] = g[k]

\* What a quiet call finds where it left it.
CallExact(c) ==
    LET call == indexing[c] keys == KeysOf(call.version) IN
    /\ call.at \in {"embedding", "saving"} =>
         /\ DOMAIN call.found = keys \cap DOMAIN reuse
         /\ Agree(call.found, reuse, DOMAIN call.found)
    /\ call.at = "saving" => Agree(call.found, call.prepared, DOMAIN call.found)
    /\ call.at = "replacing" => Agree(call.merged, call.prepared, keys)
    /\ call.at \in {"listing", "publishing", "deleting"} => Agree(reuse, call.prepared, keys)
    /\ call.at = "publishing" =>
         /\ call.listed = DOMAIN collection
         /\ \A n \in 1..call.written :
              /\ Records(call.version)[n] \in DOMAIN knowledge
              /\ knowledge[Records(call.version)[n]] = call.version
    /\ call.at = "deleting" =>
         /\ DOMAIN collection = call.listed \cup ChunkIds(call.version)
         /\ \A i \in ChunkIds(call.version) :
              /\ collection[i] = Row(call.version, call.prepared[<<i, call.version>>])
              /\ knowledge[i] = call.version

CallsApart ==
    /\ \A c, x \in Indexers : Undisturbed(c) /\ Running(x) => x = c
    /\ \A c \in Indexers : Running(c) /\ indexing[c].disturbed => muddled
    /\ shown # 0 /\ ~muddled => \A c \in Indexers : ~Running(c)

Fitting == \A i \in DOMAIN collection : collection[i].dimension = Configured

IndexInv ==
    /\ IndexTyped
    /\ \A c \in Indexers : IndexCallSound(c) /\ (Undisturbed(c) => CallExact(c))
    /\ CallsApart
    /\ ReuseKept /\ Fitting /\ ReadersFindAVersion /\ ReportedIsExact

LEMMA TableIs ==
    /\ <<>> \in Tables /\ DOMAIN <<>> = {}
    /\ \A f \in Tables : DOMAIN f \in SUBSET VectorKeys /\ f \in [DOMAIN f -> Vector]
    /\ \A S \in SUBSET VectorKeys : \A f \in [S -> Vector] : f \in Tables
  <1>1. <<>> \in [{} -> Vector] /\ DOMAIN <<>> = {}
    OBVIOUS
  <1>2. \A S \in SUBSET VectorKeys : \A f \in [S -> Vector] : f \in Tables
    BY DEF Tables
  <1>3. \A f \in Tables : DOMAIN f \in SUBSET VectorKeys /\ f \in [DOMAIN f -> Vector]
    BY DEF Tables
  <1> QED
    BY <1>1, <1>2, <1>3

LEMMA OverlayIs ==
    ASSUME NEW f \in Tables, NEW g \in Tables
    PROVE  /\ Overlay(f, g) \in Tables /\ DOMAIN Overlay(f, g) = DOMAIN f \cup DOMAIN g
           /\ \A k \in DOMAIN g : Overlay(f, g)[k] = g[k]
           /\ \A k \in DOMAIN f \ DOMAIN g : Overlay(f, g)[k] = f[k]
  <1>1. Overlay(f, g) \in [DOMAIN f \cup DOMAIN g -> Vector]
    BY TableIs DEF Overlay
  <1> QED
    BY <1>1, TableIs DEF Overlay

LEMMA CallIs ==
    ASSUME IndexTyped, NEW c \in Indexers
    PROVE  /\ indexing[c] \in IndexCall /\ indexing[c].version \in Nat
           /\ indexing[c].found \in Tables /\ indexing[c].prepared \in Tables /\ indexing[c].merged \in Tables
           /\ indexing[c].written \in Nat /\ indexing[c].disturbed \in BOOLEAN
           /\ indexing[c].listed \in SUBSET Ids
           /\ indexing[c].details \in Details \cup {Unset}
  BY DEF IndexTyped, IndexCall

LEMMA NotRunningIs ==
    NotRunning \in IndexCall /\ NotRunning.at = "idle"
  BY TableIs DEF NotRunning, IndexCall

LEMMA BecomeIs ==
    ASSUME IndexTyped, NEW c \in Indexers, NEW r \in IndexCall, Become(c, r)
    PROVE  /\ indexing' \in [Indexers -> IndexCall] /\ indexing'[c] = r
           /\ \A x \in Indexers \ {c} : indexing'[x] = indexing[x]
  BY DEF IndexTyped, Become

\* A step of a call that runs disturbs no other: one that was not overlapped is alone.
LEMMA TurnApart ==
    ASSUME IndexInv, NEW c \in Indexers, NEW r \in IndexCall, Running(c), Become(c, r),
           r.at # "idle" => r.disturbed = indexing[c].disturbed,
           \/ muddled' = muddled /\ shown' = shown
           \/ muddled' = (muddled /\ indexing[c].disturbed) /\ r.at = "idle"
    PROVE  CallsApart' /\ muddled' \in BOOLEAN /\ \A x \in Indexers \ {c} : ~Undisturbed(x)'
  <1>1. IndexTyped /\ CallsApart /\ muddled \in BOOLEAN /\ indexing[c].disturbed \in BOOLEAN
    BY CallIs DEF IndexInv, IndexTyped
  <1>2. indexing'[c] = r /\ \A x \in Indexers \ {c} : indexing'[x] = indexing[x]
    BY <1>1, BecomeIs
  <1>3. \A x \in Indexers \ {c} : ~Undisturbed(x) /\ (Running(x)' <=> Running(x))
    BY <1>1, <1>2 DEF CallsApart, Running
  <1>4. \A x \in Indexers \ {c} : ~Undisturbed(x)'
    BY <1>2, <1>3 DEF Undisturbed, Running
  <1>5. Running(c)' => r.at # "idle" /\ (Undisturbed(c)' <=> Undisturbed(c)) /\ muddled' = muddled /\ shown' = shown
    BY <1>2 DEF Undisturbed, Running
  <1>6. Undisturbed(c) => \A x \in Indexers \ {c} : ~Running(x)
    BY <1>1 DEF CallsApart
  <1>7. \A x, y \in Indexers : Undisturbed(x)' /\ Running(y)' => y = x
    <2>1. ASSUME NEW x \in Indexers, NEW y \in Indexers, Undisturbed(x)', Running(y)'
          PROVE  y = x
      <3>1. x = c
        BY <1>4, <2>1
      <3>2. Undisturbed(c)
        BY <1>5, <2>1, <3>1 DEF Undisturbed
      <3> QED
        BY <1>3, <1>6, <2>1, <3>1, <3>2
    <2> QED
      BY <2>1
  <1>8. ASSUME NEW x \in Indexers, Running(x)', indexing'[x].disturbed
        PROVE  muddled'
    <2>1. CASE x = c
      BY <1>1, <1>2, <1>5, <1>8, <2>1 DEF CallsApart
    <2>2. CASE x # c
      <3>1. Running(x) /\ indexing[x].disturbed
        BY <1>2, <1>3, <1>8, <2>2
      <3>2. muddled /\ indexing[c].disturbed
        BY <1>1, <1>6, <2>2, <3>1 DEF CallsApart, Undisturbed
      <3> QED
        BY <3>2
    <2> QED
      BY <2>1, <2>2
  <1>9. ASSUME shown' # 0, ~muddled', NEW x \in Indexers
        PROVE  ~Running(x)'
    <2>1. CASE muddled' = muddled /\ shown' = shown
      BY <1>1, <1>9, <2>1 DEF CallsApart
    <2>2. CASE muddled' = (muddled /\ indexing[c].disturbed) /\ r.at = "idle"
      <3>1. Undisturbed(c)
        BY <1>1, <1>9, <2>2 DEF CallsApart, Undisturbed
      <3> QED
        BY <1>2, <1>3, <1>6, <2>2, <3>1 DEF Running
    <2> QED
      BY <2>1, <2>2
  <1>10. muddled' \in BOOLEAN
    BY <1>1
  <1> QED
    BY <1>4, <1>7, <1>8, <1>9, <1>10 DEF CallsApart

\* What the other calls know stays true.
LEMMA OthersSound ==
    ASSUME IndexInv, NEW c \in Indexers, NEW r \in IndexCall, Become(c, r),
           fileLock' = fileLock \/ (fileLock \in {Unset, c} /\ fileLock' \in {Unset, c}),
           reuse' = reuse \/ fileLock = c,
           NEW x \in Indexers \ {c}
    PROVE  IndexCallSound(x)'
  <1>1. indexing'[x] = indexing[x] /\ IndexCallSound(x)
    BY BecomeIs DEF IndexInv
  <1>2. fileLock' = x <=> fileLock = x
    BY IndexersAssumption
  <1>3. indexing[x].at = "replacing" => reuse' = reuse
    BY <1>1 DEF IndexCallSound
  <1> QED
    BY <1>1, <1>2, <1>3 DEF IndexCallSound, Running, Missing

\* What a call leaves when it takes a step.
LEMMA Turn ==
    ASSUME IndexInv, NEW c \in Indexers, NEW r \in IndexCall, Running(c), Become(c, r),
           r.at # "idle" => r.disturbed = indexing[c].disturbed,
           UNCHANGED <<shown, muddled>>,
           fileLock' = fileLock \/ (fileLock \in {Unset, c} /\ fileLock' \in {Unset, c}),
           reuse' = reuse \/ fileLock = c, reuse' \in Tables, DOMAIN collection' \in SUBSET Ids,
           IndexCallSound(c)', Undisturbed(c)' => CallExact(c)',
           ReuseKept', Fitting', ReadersFindAVersion'
    PROVE  IndexInv'
  <1>1. IndexTyped'
    BY BecomeIs DEF IndexInv, IndexTyped
  <1>2. CallsApart' /\ \A x \in Indexers \ {c} : ~Undisturbed(x)'
    BY TurnApart
  <1>3. \A x \in Indexers \ {c} : IndexCallSound(x)'
    BY OthersSound
  <1>4. \A x \in Indexers : IndexCallSound(x)' /\ (Undisturbed(x)' => CallExact(x)')
    BY <1>2, <1>3
  <1>5. ReportedIsExact'
    <2>1. muddled' \/ shown' = 0
      BY DEF IndexInv, CallsApart
    <2> QED
      BY <2>1 DEF ReportedIsExact
  <1> QED
    BY <1>1, <1>2, <1>4, <1>5 DEF IndexInv

\* A step that does not touch what is in the file, or in the collection.
LEMMA PlainTurn ==
    ASSUME IndexInv, NEW c \in Indexers, NEW r \in IndexCall, Running(c), Become(c, r),
           r.at # "idle" => r.disturbed = indexing[c].disturbed,
           UNCHANGED <<reuse, saved, collection, shown, muddled>>,
           fileLock' = fileLock \/ (fileLock \in {Unset, c} /\ fileLock' \in {Unset, c}),
           IndexCallSound(c)', Undisturbed(c)' => CallExact(c)'
    PROVE  IndexInv'
  <1>1. ReuseKept' /\ Fitting' /\ ReadersFindAVersion'
    BY DEF IndexInv, ReuseKept, Fitting, ReadersFindAVersion, Whole
  <1>2. reuse' \in Tables /\ DOMAIN collection' \in SUBSET Ids
    BY DEF IndexInv, IndexTyped
  <1> QED
    BY <1>1, <1>2, Turn

\* A call that reports a failure, or stops, leaves its lock.
LEMMA FailTurn ==
    ASSUME IndexInv, NEW c \in Indexers, Running(c), ReportFailure(c),
           UNCHANGED <<reuse, saved, collection, shown, muddled>>,
           fileLock' = IF fileLock = c THEN Unset ELSE fileLock
    PROVE  IndexInv'
  <1>1. Become(c, NotRunning) /\ NotRunning \in IndexCall /\ NotRunning.at = "idle"
    BY NotRunningIs DEF ReportFailure
  <1>2. indexing'[c] = NotRunning
    BY <1>1, BecomeIs DEF IndexInv
  <1>3. fileLock' # c
    BY IndexersAssumption
  <1>4. IndexCallSound(c)' /\ ~Undisturbed(c)'
    BY <1>1, <1>2, <1>3 DEF IndexCallSound, Undisturbed, Running, Early, Filled
  <1> QED
    BY <1>1, <1>4, PlainTurn

\* What a call that runs has in hand.
LEMMA RunningIs ==
    ASSUME IndexInv, NEW c \in Indexers, Running(c)
    PROVE  /\ indexing[c].version \in SourceVersions /\ indexing[c].version \in Projections
           /\ KeysOf(indexing[c].version) \in SUBSET VectorKeys
           /\ ChunkIds(indexing[c].version) \in SUBSET Ids
           /\ indexing[c] \in IndexCall /\ IndexCallSound(c)
           /\ Missing(c) \in SUBSET VectorKeys
  <1>1. indexing[c].version \in SourceVersions /\ indexing[c].version \in Projections /\ IndexCallSound(c)
    BY DEF IndexInv, IndexCallSound, Projections
  <1> QED
    BY <1>1, CallIs DEF IndexInv, VectorKeys, Ids, Missing

LEMMA FindReusableSound ==
    ASSUME IndexInv, NEW c \in Indexers, FindReusable(c)
    PROVE  IndexInv'
  <1> DEFINE call == indexing[c]
             keys == KeysOf(call.version)
             found == [k \in keys \cap DOMAIN reuse |-> reuse[k]]
  <1>1. call.at = "finding" /\ Running(c) /\ UNCHANGED <<reuse, saved, collection, shown, muddled>>
        /\ fileLock' = fileLock /\ fileLock = Unset
    BY DEF FindReusable, Running
  <1>2. call \in IndexCall /\ IndexCallSound(c) /\ keys \in SUBSET VectorKeys /\ reuse \in Tables
    BY <1>1, RunningIs DEF IndexInv, IndexTyped
  <1>3. /\ found \in Tables /\ DOMAIN found = keys \cap DOMAIN reuse
        /\ Agree(found, reuse, DOMAIN found) /\ Agree(reuse, found, DOMAIN found)
    <2>1. found \in [keys \cap DOMAIN reuse -> Vector]
      BY <1>2, TableIs
    <2>2. (keys \cap DOMAIN reuse) \in SUBSET VectorKeys
      BY <1>2
    <2> QED
      BY <2>1, <2>2, TableIs DEF Agree
  <1>4. \/ Become(c, [call EXCEPT !.found = found, !.at = "embedding"])
        \/ DOMAIN found = keys /\ Become(c, [call EXCEPT !.prepared = found, !.at = "listing"])
        \/ ReportFailure(c)
    BY DEF FindReusable
  <1> HIDE DEF found
  <1>5. CASE Become(c, [call EXCEPT !.found = found, !.at = "embedding"])
    <2> DEFINE r == [call EXCEPT !.found = found, !.at = "embedding"]
    <2>1. /\ r \in IndexCall /\ r.at = "embedding" /\ r.found = found /\ r.version = call.version
          /\ r.details = call.details /\ r.written = call.written /\ r.disturbed = call.disturbed
      BY <1>2, <1>3 DEF IndexCall, Early
    <2>2. Become(c, r)
      BY <1>5
    <2> HIDE DEF r
    <2>3. indexing'[c] = r
      BY <2>1, <2>2, BecomeIs DEF IndexInv
    <2>4. IndexCallSound(c)'
      BY <1>1, <1>2, <1>3, <2>1, <2>3, IndexersAssumption DEF IndexCallSound, Early, Filled, Running
    <2>5. CallExact(c)'
      BY <1>1, <1>3, <2>1, <2>3 DEF CallExact
    <2> QED
      BY <1>1, <2>1, <2>2, <2>4, <2>5, PlainTurn
  <1>6. CASE DOMAIN found = keys /\ Become(c, [call EXCEPT !.prepared = found, !.at = "listing"])
    <2> DEFINE r == [call EXCEPT !.prepared = found, !.at = "listing"]
    <2>1. /\ r \in IndexCall /\ r.at = "listing" /\ r.prepared = found /\ r.version = call.version
          /\ r.details = call.details /\ r.written = call.written /\ r.disturbed = call.disturbed
      BY <1>2, <1>3 DEF IndexCall, Early
    <2>2. Become(c, r)
      BY <1>6
    <2> HIDE DEF r
    <2>3. indexing'[c] = r
      BY <2>1, <2>2, BecomeIs DEF IndexInv
    <2>4. IndexCallSound(c)'
      BY <1>1, <1>2, <1>6, <2>1, <2>3, IndexersAssumption DEF IndexCallSound, Early, Filled, Running
    <2>5. CallExact(c)'
      BY <1>1, <1>3, <1>6, <2>1, <2>3 DEF CallExact
    <2> QED
      BY <1>1, <2>1, <2>2, <2>4, <2>5, PlainTurn
  <1>7. CASE ReportFailure(c)
    <2>1. fileLock' = IF fileLock = c THEN Unset ELSE fileLock
      BY <1>1, IndexersAssumption
    <2> QED
      BY <1>1, <1>7, <2>1, FailTurn
  <1> QED
    BY <1>4, <1>5, <1>6, <1>7

\* The answer has a vector for each chunk that had none.
LEMMA EmbedMissingSound ==
    ASSUME IndexInv, NEW c \in Indexers, EmbedMissing(c)
    PROVE  IndexInv'
  <1> DEFINE call == indexing[c]
             keys == KeysOf(call.version)
             fresh(answer) == [k \in Missing(c) |-> [dimension |-> CHOOSE n \in answer.dimensions : TRUE,
                                                     details |-> call.details]]
  <1>1. call.at = "embedding" /\ Running(c)
        /\ UNCHANGED <<reuse, saved, collection, shown, muddled>> /\ fileLock' = fileLock
    BY DEF EmbedMissing, Running
  <1>2. call \in IndexCall /\ IndexCallSound(c) /\ keys \in SUBSET VectorKeys /\ Missing(c) \in SUBSET VectorKeys
    BY <1>1, RunningIs
  <1>3. fileLock # c
    BY <1>1, <1>2 DEF IndexCallSound
  <1>4. PICK answer \in Answers :
          \/ ReportFailure(c)
          \/ Become(c, [call EXCEPT !.prepared = Overlay(call.found, fresh(answer)), !.at = "saving"])
    BY DEF EmbedMissing
  <1> DEFINE new == fresh(answer)
             all == Overlay(call.found, new)
             r == [call EXCEPT !.prepared = all, !.at = "saving"]
  <1>5. CASE ReportFailure(c)
    BY <1>1, <1>3, <1>5, FailTurn
  <1>6. CASE Become(c, r)
    <2>1. new \in Tables /\ DOMAIN new = Missing(c)
      <3>1. (CHOOSE n \in answer.dimensions : TRUE) \in Dimensions
        <4>1. answer.dimensions \in SUBSET Dimensions /\ answer.dimensions # {}
          BY DEF Answers
        <4> QED
          BY <4>1
      <3>2. call.details \in Details
        BY <1>1, <1>2 DEF IndexCallSound
      <3>3. new \in [Missing(c) -> Vector]
        BY <3>1, <3>2 DEF Vector
      <3> QED
        BY <1>2, <3>3, TableIs
    <2>2. call.found \in Tables /\ DOMAIN call.found \subseteq keys
      BY <1>1, <1>2, CallIs DEF IndexInv, IndexCallSound
    <2> HIDE DEF new
    <2>3. /\ all \in Tables /\ DOMAIN all = DOMAIN call.found \cup Missing(c)
          /\ \A k \in DOMAIN call.found \ Missing(c) : all[k] = call.found[k]
      <3>1. /\ Overlay(call.found, new) \in Tables
            /\ DOMAIN Overlay(call.found, new) = DOMAIN call.found \cup DOMAIN new
            /\ \A k \in DOMAIN call.found \ DOMAIN new : Overlay(call.found, new)[k] = call.found[k]
        BY <2>1, <2>2, OverlayIs
      <3> QED
        BY <2>1, <3>1
    <2> HIDE DEF all
    <2>4. DOMAIN all = keys /\ Agree(call.found, all, DOMAIN call.found)
      BY <2>2, <2>3 DEF Missing, Agree
    <2>5. /\ r \in IndexCall /\ r.at = "saving" /\ r.found = call.found /\ r.version = call.version
          /\ r.prepared = all /\ r.written = call.written /\ r.disturbed = call.disturbed
      BY <1>2, <2>3 DEF IndexCall, Early
    <2> HIDE DEF r
    <2>6. indexing'[c] = r
      BY <1>6, <2>5, BecomeIs DEF IndexInv
    <2>7. IndexCallSound(c)'
      BY <1>1, <1>2, <1>3, <2>4, <2>5, <2>6 DEF IndexCallSound, Early, Filled, Running
    <2>8. Undisturbed(c)' => CallExact(c)'
      <3>1. Undisturbed(c)' => Undisturbed(c)
        BY <1>1, <2>5, <2>6 DEF Undisturbed
      <3>2. Undisturbed(c) => CallExact(c)
        BY DEF IndexInv
      <3> QED
        BY <1>1, <2>4, <2>5, <2>6, <3>1, <3>2 DEF CallExact
    <2> QED
      BY <1>1, <1>6, <2>5, <2>7, <2>8, PlainTurn
  <1> QED
    BY <1>4, <1>5, <1>6

\* The lock is taken, and the vectors are laid over what the file has.
LEMMA ReadToMergeSound ==
    ASSUME IndexInv, NEW c \in Indexers, ReadToMerge(c)
    PROVE  IndexInv'
  <1> DEFINE call == indexing[c]
             keys == KeysOf(call.version)
             fresh == [k \in Missing(c) |-> call.prepared[k]]
             all == Overlay(reuse, fresh)
             r == [call EXCEPT !.merged = all, !.at = "replacing"]
  <1>1. call.at = "saving" /\ Running(c) /\ fileLock = Unset /\ fileLock' = c /\ Become(c, r)
        /\ UNCHANGED <<reuse, saved, collection, shown, muddled>>
    BY DEF ReadToMerge, Running
  <1>2. call \in IndexCall /\ IndexCallSound(c) /\ keys \in SUBSET VectorKeys /\ Missing(c) \in SUBSET VectorKeys
        /\ reuse \in Tables /\ call.prepared \in Tables
    BY <1>1, RunningIs, CallIs DEF IndexInv, IndexTyped
  <1>3. DOMAIN call.prepared = keys /\ Missing(c) \subseteq keys
    BY <1>1, <1>2 DEF IndexCallSound, Filled, Missing
  <1>4. fresh \in Tables /\ DOMAIN fresh = Missing(c) /\ \A k \in Missing(c) : fresh[k] = call.prepared[k]
    <2>1. fresh \in [Missing(c) -> Vector]
      BY <1>2, <1>3, TableIs
    <2> QED
      BY <1>2, <2>1, TableIs
  <1> HIDE DEF fresh
  <1>5. /\ all \in Tables /\ DOMAIN all = DOMAIN reuse \cup Missing(c)
        /\ \A k \in Missing(c) : all[k] = call.prepared[k]
        /\ \A k \in DOMAIN reuse \ Missing(c) : all[k] = reuse[k]
    <2>1. /\ Overlay(reuse, fresh) \in Tables
          /\ DOMAIN Overlay(reuse, fresh) = DOMAIN reuse \cup DOMAIN fresh
          /\ \A k \in DOMAIN fresh : Overlay(reuse, fresh)[k] = fresh[k]
          /\ \A k \in DOMAIN reuse \ DOMAIN fresh : Overlay(reuse, fresh)[k] = reuse[k]
      BY <1>2, <1>4, OverlayIs
    <2> QED
      BY <1>4, <2>1
  <1> HIDE DEF all
  <1>6. /\ r \in IndexCall /\ r.at = "replacing" /\ r.found = call.found /\ r.version = call.version
        /\ r.prepared = call.prepared /\ r.merged = all
        /\ r.written = call.written /\ r.disturbed = call.disturbed
    BY <1>2, <1>5 DEF IndexCall, Early
  <1> HIDE DEF r
  <1>7. indexing'[c] = r
    BY <1>1, <1>6, BecomeIs DEF IndexInv
  <1>8. IndexCallSound(c)'
    <2>1. Missing(c)' = Missing(c)
      BY <1>6, <1>7 DEF Missing
    <2> QED
      BY <1>1, <1>2, <1>3, <1>5, <1>6, <1>7, <2>1 DEF IndexCallSound, Early, Filled, Running
  <1>9. Undisturbed(c)' => CallExact(c)'
    <2>1. Undisturbed(c)' => Undisturbed(c)
      BY <1>1, <1>6, <1>7 DEF Undisturbed
    <2>2. ASSUME CallExact(c)
          PROVE  Agree(all, call.prepared, keys)
      <3>1. DOMAIN call.found = keys \cap DOMAIN reuse
            /\ Agree(call.found, reuse, DOMAIN call.found)
            /\ Agree(call.found, call.prepared, DOMAIN call.found)
        BY <1>1, <2>2 DEF CallExact
      <3>2. ASSUME NEW k \in keys
            PROVE  k \in DOMAIN all /\ k \in DOMAIN call.prepared /\ all[k] = call.prepared[k]
        <4>1. CASE k \in Missing(c)
          BY <1>3, <1>5, <4>1
        <4>2. CASE k \notin Missing(c)
          <5>1. k \in DOMAIN call.found /\ k \in DOMAIN reuse
            BY <3>1, <4>2 DEF Missing
          <5> QED
            BY <1>3, <1>5, <3>1, <4>2, <5>1 DEF Agree
        <4> QED
          BY <4>1, <4>2
      <3> QED
        BY <3>2 DEF Agree
    <2>3. Undisturbed(c) => CallExact(c)
      BY DEF IndexInv
    <2> QED
      BY <1>6, <1>7, <2>1, <2>2, <2>3 DEF CallExact
  <1> QED
    BY <1>1, <1>6, <1>8, <1>9, PlainTurn

\* The file is replaced: what was in it is still there, since nobody else had the lock.
LEMMA ReplaceReuseSound ==
    ASSUME IndexInv, NEW c \in Indexers, ReplaceReuse(c)
    PROVE  IndexInv'
  <1> DEFINE call == indexing[c]
             keys == KeysOf(call.version)
             r == [call EXCEPT !.merged = <<>>, !.found = <<>>, !.at = "listing"]
  <1>1. call.at = "replacing" /\ Running(c) /\ fileLock' = Unset /\ Become(c, r) /\ reuse' = call.merged
        /\ saved' = saved \cup Missing(c) /\ UNCHANGED <<knowledge, collection, shown, muddled>>
    BY DEF ReplaceReuse, Running
  <1>2. call \in IndexCall /\ IndexCallSound(c) /\ call.merged \in Tables /\ fileLock = c
    <2>1. call \in IndexCall /\ IndexCallSound(c) /\ call.merged \in Tables
      BY <1>1, RunningIs, CallIs DEF IndexInv
    <2> QED
      BY <1>1, <2>1 DEF IndexCallSound
  <1>3. DOMAIN reuse \cup Missing(c) \subseteq DOMAIN call.merged
    BY <1>1, <1>2 DEF IndexCallSound
  <1>4. /\ r \in IndexCall /\ r.at = "listing" /\ r.version = call.version /\ r.prepared = call.prepared
        /\ r.written = call.written /\ r.disturbed = call.disturbed
    BY <1>2, TableIs DEF IndexCall, Early
  <1> HIDE DEF r
  <1>5. indexing'[c] = r
    BY <1>1, <1>4, BecomeIs DEF IndexInv
  <1>6. IndexCallSound(c)'
    BY <1>1, <1>2, <1>4, <1>5, IndexersAssumption DEF IndexCallSound, Early, Filled, Running
  <1>7. Undisturbed(c)' => CallExact(c)'
    <2>1. Undisturbed(c)' => Undisturbed(c)
      BY <1>1, <1>4, <1>5 DEF Undisturbed
    <2>2. Undisturbed(c) => Agree(call.merged, call.prepared, keys)
      BY <1>1 DEF IndexInv, CallExact
    <2> QED
      BY <1>1, <1>4, <1>5, <2>1, <2>2 DEF CallExact
  <1>8. ReuseKept' /\ Fitting' /\ ReadersFindAVersion'
    BY <1>1, <1>3 DEF IndexInv, ReuseKept, Fitting, ReadersFindAVersion, Whole
  <1>9. DOMAIN collection' \in SUBSET Ids
    BY <1>1 DEF IndexInv, IndexTyped
  <1> QED
    BY <1>1, <1>2, <1>4, <1>6, <1>7, <1>8, <1>9, Turn

LEMMA ListIdsSound ==
    ASSUME IndexInv, NEW c \in Indexers, ListIds(c)
    PROVE  IndexInv'
  <1> DEFINE call == indexing[c]
             r == [call EXCEPT !.listed = DOMAIN collection, !.at = "publishing"]
  <1>1. call.at = "listing" /\ Running(c) /\ fileLock' = fileLock /\ Become(c, r)
        /\ UNCHANGED <<reuse, saved, knowledge, collection, shown, muddled>>
    BY DEF ListIds, Running
  <1>2. call \in IndexCall /\ IndexCallSound(c) /\ DOMAIN collection \in SUBSET Ids
    BY <1>1, RunningIs DEF IndexInv, IndexTyped
  <1>3. /\ r \in IndexCall /\ r.at = "publishing" /\ r.version = call.version /\ r.prepared = call.prepared
        /\ r.written = call.written /\ r.disturbed = call.disturbed /\ r.listed = DOMAIN collection
    BY <1>2 DEF IndexCall, Filled
  <1> HIDE DEF r
  <1>4. indexing'[c] = r
    BY <1>1, <1>3, BecomeIs DEF IndexInv
  <1>5. IndexCallSound(c)'
    BY <1>1, <1>2, <1>3, <1>4 DEF IndexCallSound, Early, Filled, Running
  <1>6. Undisturbed(c)' => CallExact(c)'
    <2>1. Undisturbed(c)' => Undisturbed(c)
      BY <1>1, <1>3, <1>4 DEF Undisturbed
    <2>2. Undisturbed(c) => Agree(reuse, call.prepared, KeysOf(call.version))
      BY <1>1 DEF IndexInv, CallExact
    <2>3. call.written = 0 /\ 1..0 = {}
      BY <1>1, <1>2 DEF IndexCallSound, Early
    <2> QED
      BY <1>1, <1>3, <1>4, <2>1, <2>2, <2>3 DEF CallExact
  <1> QED
    BY <1>1, <1>3, <1>5, <1>6, PlainTurn

LEMMA WriteSidecarSound ==
    ASSUME IndexInv, NEW c \in Indexers, WriteSidecar(c)
    PROVE  IndexInv'
  <1> DEFINE call == indexing[c]
             next == call.written + 1
             chunk == Records(call.version)[next]
             r == [call EXCEPT !.written = next]
  <1>1. call.at = "publishing" /\ Running(c) /\ fileLock' = fileLock /\ Become(c, r)
        /\ UNCHANGED <<reuse, saved, collection, shown, muddled>>
        /\ knowledge' = Overlay(knowledge, SidecarOf(chunk, call.version))
    BY DEF WriteSidecar, Running
  <1>2. call \in IndexCall /\ IndexCallSound(c) /\ call.written \in Nat
    BY <1>1, RunningIs, CallIs DEF IndexInv
  <1>3. /\ r \in IndexCall /\ r.at = "publishing" /\ r.version = call.version /\ r.prepared = call.prepared
        /\ r.written = next /\ r.disturbed = call.disturbed /\ r.listed = call.listed
    BY <1>1, <1>2 DEF IndexCall
  <1> HIDE DEF r
  <1>4. indexing'[c] = r
    BY <1>1, <1>3, BecomeIs DEF IndexInv
  <1>5. IndexCallSound(c)'
    BY <1>1, <1>2, <1>3, <1>4 DEF IndexCallSound, Early, Filled, Running
  <1>6. /\ chunk \in DOMAIN knowledge' /\ knowledge'[chunk] = call.version
        /\ \A i \in DOMAIN knowledge \ {chunk} : i \in DOMAIN knowledge' /\ knowledge'[i] = knowledge[i]
    BY <1>1 DEF Overlay, SidecarOf
  <1>7. Undisturbed(c)' => CallExact(c)'
    <2>1. Undisturbed(c)' => Undisturbed(c)
      BY <1>1, <1>3, <1>4 DEF Undisturbed
    <2>2. ASSUME Undisturbed(c)
          PROVE  /\ Agree(reuse, call.prepared, KeysOf(call.version)) /\ call.listed = DOMAIN collection
                 /\ \A n \in 1..call.written :
                      /\ Records(call.version)[n] \in DOMAIN knowledge
                      /\ knowledge[Records(call.version)[n]] = call.version
      <3>1. CallExact(c)
        BY <2>2 DEF IndexInv
      <3> QED
        BY <1>1, <3>1 DEF CallExact
    <2>3. ASSUME Undisturbed(c), NEW n \in 1..next
          PROVE  /\ Records(call.version)[n] \in DOMAIN knowledge'
                 /\ knowledge'[Records(call.version)[n]] = call.version
      <3>1. n = next \/ n \in 1..call.written
        BY <1>2
      <3> QED
        BY <1>6, <2>2, <2>3, <3>1
    <2> QED
      BY <1>1, <1>3, <1>4, <2>1, <2>2, <2>3 DEF CallExact
  <1> QED
    BY <1>1, <1>3, <1>5, <1>7, PlainTurn

\* The records are in the collection together; the chunks of the version are all there.
LEMMA UpsertChunksSound ==
    ASSUME IndexInv, NEW c \in Indexers, UpsertChunks(c)
    PROVE  IndexInv'
  <1> DEFINE call == indexing[c]
             v == call.version
             rows == [i \in ChunkIds(v) |-> Row(v, call.prepared[<<i, v>>])]
             r == [call EXCEPT !.at = "deleting"]
  <1>1. call.at = "publishing" /\ Running(c) /\ fileLock' = fileLock /\ call.written = Len(Records(v))
        /\ UNCHANGED <<reuse, saved, knowledge, shown, muddled>>
    BY DEF UpsertChunks, Running
  <1>2. call \in IndexCall /\ IndexCallSound(c) /\ v \in SourceVersions /\ ChunkIds(v) \in SUBSET Ids
    BY <1>1, RunningIs
  <1>3. DOMAIN call.prepared = KeysOf(v) /\ fileLock # c
    BY <1>1, <1>2 DEF IndexCallSound, Filled
  <1>4. CASE Fits(call.prepared)
    <2>1. collection' = Overlay(collection, rows) /\ Become(c, r)
      BY <1>4 DEF UpsertChunks
    <2>2. /\ DOMAIN collection' = DOMAIN collection \cup ChunkIds(v)
          /\ \A i \in ChunkIds(v) : collection'[i] = Row(v, call.prepared[<<i, v>>])
          /\ \A i \in DOMAIN collection \ ChunkIds(v) : collection'[i] = collection[i]
      BY <2>1 DEF Overlay
    <2>3. \A i \in ChunkIds(v) : collection'[i].version = v /\ collection'[i].dimension = Configured
      <3>1. \A i \in ChunkIds(v) : <<i, v>> \in DOMAIN call.prepared
        BY <1>3 DEF KeysOf
      <3>2. \A i \in ChunkIds(v) : call.prepared[<<i, v>>].dimension = Configured
        BY <1>4, <3>1 DEF Fits
      <3>3. ASSUME NEW i \in ChunkIds(v)
            PROVE  collection'[i].version = v /\ collection'[i].dimension = Configured
        <4> DEFINE p == call.prepared[<<i, v>>]
        <4>1. collection'[i] = [version |-> v, dimension |-> p.dimension, details |-> p.details]
          BY <2>2 DEF Row
        <4>2. p.dimension = Configured
          BY <3>2
        <4> HIDE DEF p
        <4> QED
          BY <4>1, <4>2
      <3> QED
        BY <3>3
    <2>4. /\ r \in IndexCall /\ r.at = "deleting" /\ r.version = v /\ r.prepared = call.prepared
          /\ r.written = call.written /\ r.disturbed = call.disturbed /\ r.listed = call.listed
      BY <1>2 DEF IndexCall, Filled
    <2> HIDE DEF r
    <2>5. indexing'[c] = r
      BY <2>1, <2>4, BecomeIs DEF IndexInv
    <2>6. IndexCallSound(c)'
      BY <1>1, <1>2, <1>3, <2>4, <2>5 DEF IndexCallSound, Early, Filled, Running
    <2>7. Undisturbed(c)' => CallExact(c)'
      <3>1. Undisturbed(c)' => Undisturbed(c)
        BY <1>1, <2>4, <2>5 DEF Undisturbed
      <3>2. ASSUME Undisturbed(c)
            PROVE  /\ Agree(reuse, call.prepared, KeysOf(v)) /\ call.listed = DOMAIN collection
                   /\ \A i \in ChunkIds(v) : knowledge[i] = v
        <4>1. CallExact(c)
          BY <3>2 DEF IndexInv
        <4>2. \A n \in 1..Len(Records(v)) : knowledge[Records(v)[n]] = v
          BY <1>1, <4>1 DEF CallExact
        <4>3. \A i \in ChunkIds(v) : knowledge[i] = v
          BY <1>2, <4>2, RecordsAssumption DEF ChunkIds
        <4> QED
          BY <1>1, <4>1, <4>3 DEF CallExact
      <3> QED
        BY <1>1, <2>2, <2>4, <2>5, <3>1, <3>2 DEF CallExact
    <2>8. Fitting' /\ ReuseKept' /\ DOMAIN collection' \in SUBSET Ids /\ reuse' \in Tables
      <3>1. Fitting'
        BY <2>2, <2>3 DEF IndexInv, Fitting
      <3> QED
        BY <1>1, <1>2, <2>2, <3>1 DEF IndexInv, IndexTyped, ReuseKept
    <2>9. ReadersFindAVersion'
      BY <1>1, <1>2, <2>2, <2>3, RunningIs DEF ReadersFindAVersion, Whole
    <2> QED
      BY <1>1, <2>1, <2>4, <2>6, <2>7, <2>8, <2>9, Turn
  <1>5. CASE ~Fits(call.prepared)
    <2>1. ReportFailure(c) /\ UNCHANGED collection
      BY <1>5 DEF UpsertChunks
    <2> QED
      BY <1>1, <1>3, <2>1, FailTurn
  <1> QED
    BY <1>4, <1>5

\* The stale records go; a call that nothing overlapped has left its version and no more.
LEMMA DeleteStaleSound ==
    ASSUME IndexInv, NEW c \in Indexers, DeleteStale(c)
    PROVE  IndexInv'
  <1> DEFINE call == indexing[c]
             v == call.version
  <1>1. call.at = "deleting" /\ Running(c) /\ fileLock' = fileLock /\ Become(c, NotRunning)
        /\ UNCHANGED <<reuse, saved, knowledge>> /\ shown' = v
        /\ muddled' = (muddled /\ call.disturbed)
        /\ DOMAIN collection' = DOMAIN collection \ StaleIds(c)
        /\ \A i \in DOMAIN collection' : collection'[i] = collection[i]
    BY DEF DeleteStale, Running
  <1>2. call \in IndexCall /\ IndexCallSound(c) /\ v \in SourceVersions /\ IndexTyped
    BY <1>1, RunningIs DEF IndexInv
  <1>3. indexing'[c] = NotRunning /\ NotRunning \in IndexCall /\ NotRunning.at = "idle"
    BY <1>1, <1>2, NotRunningIs, BecomeIs
  <1>4. IndexTyped'
    BY <1>1, <1>2, <1>3, BecomeIs, TurnApart DEF IndexTyped
  <1>5. CallsApart' /\ \A x \in Indexers \ {c} : ~Undisturbed(x)'
    BY <1>1, <1>3, TurnApart
  <1>6. IndexCallSound(c)' /\ ~Undisturbed(c)'
    <2>1. fileLock # c
      BY <1>1, <1>2 DEF IndexCallSound
    <2> QED
      BY <1>1, <1>3, <2>1 DEF IndexCallSound, Undisturbed, Running, Early, Filled
  <1>7. \A x \in Indexers \ {c} : IndexCallSound(x)'
    BY <1>1, <1>3, OthersSound
  <1>8. ASSUME ~muddled'
        PROVE  /\ DOMAIN collection' = ChunkIds(v)
               /\ \A i \in ChunkIds(v) : collection'[i] = Row(v, reuse[<<i, v>>]) /\ knowledge[i] = v
    <2>1. Undisturbed(c)
      BY <1>1, <1>8 DEF IndexInv, CallsApart, Undisturbed
    <2>2. CallExact(c)
      BY <2>1 DEF IndexInv
    <2>3. DOMAIN collection = call.listed \cup ChunkIds(v) /\ Agree(reuse, call.prepared, KeysOf(v))
          /\ \A i \in ChunkIds(v) : collection[i] = Row(v, call.prepared[<<i, v>>]) /\ knowledge[i] = v
      BY <1>1, <2>2 DEF CallExact
    <2>4. DOMAIN collection' = ChunkIds(v)
      BY <1>1, <2>3 DEF StaleIds
    <2>5. \A i \in ChunkIds(v) : reuse[<<i, v>>] = call.prepared[<<i, v>>]
      BY <2>3 DEF Agree, KeysOf
    <2> QED
      BY <1>1, <2>3, <2>4, <2>5
  <1>9. ReportedIsExact' /\ ReadersFindAVersion'
    <2>1. ASSUME ~muddled', NEW w \in SourceVersions, w = v
          PROVE  Whole(w)'
      <3>1. ASSUME NEW i \in ChunkIds(v)
            PROVE  i \in DOMAIN collection' /\ collection'[i].version = v
        <4> DEFINE p == reuse[<<i, v>>]
        <4>1. i \in DOMAIN collection' /\ collection'[i] = Row(v, p)
          BY <1>8, <2>1
        <4>2. collection'[i] = [version |-> v, dimension |-> p.dimension, details |-> p.details]
          BY <4>1 DEF Row
        <4> HIDE DEF p
        <4> QED
          BY <4>1, <4>2
      <3> QED
        BY <1>1, <2>1, <3>1, RunningIs DEF Whole
    <2>2. \A i \in DOMAIN collection' : ~muddled' =>
            collection'[i] = Row(v, reuse'[<<i, v>>]) /\ knowledge'[i] = v
      BY <1>1, <1>8
    <2>3. ~muddled' => Whole(shown)'
      <3>1. \A w \in SourceVersions : w = v /\ ~muddled' => Whole(w)'
        BY <2>1
      <3> QED
        BY <1>1, <1>2, <3>1 DEF Whole
    <2> QED
      BY <1>1, <1>2, <1>8, <2>1, <2>2, <2>3 DEF ReportedIsExact, ReadersFindAVersion
  <1>10. ReuseKept' /\ Fitting'
    BY <1>1 DEF IndexInv, ReuseKept, Fitting
  <1> QED
    BY <1>4, <1>5, <1>6, <1>7, <1>9, <1>10 DEF IndexInv

LEMMA CallFailsSound ==
    ASSUME IndexInv, NEW c \in Indexers, CallFails(c)
    PROVE  IndexInv'
  BY FailTurn DEF CallFails

\* A call begins, and overlaps those that run.
LEMMA BeginIndexSound ==
    ASSUME IndexInv, NEW c \in Indexers, BeginIndex(c)
    PROVE  IndexInv'
  <1> DEFINE others == {x \in Indexers : Running(x)}
  <1>1. ~Running(c) /\ shown' = 0 /\ UNCHANGED <<reuse, fileLock, saved, knowledge, collection>>
        /\ muddled' = (muddled \/ others # {}) /\ IndexTyped
    BY DEF BeginIndex, IndexInv
  <1>2. PICK v \in Projections, d \in Details :
          indexing' = [x \in Indexers |->
             IF x = c THEN [NotRunning EXCEPT !.at = "finding", !.version = v, !.details = d,
                                              !.disturbed = others # {}]
             ELSE IF x \in others THEN [indexing[x] EXCEPT !.disturbed = TRUE]
             ELSE indexing[x]]
    BY DEF BeginIndex
  <1> DEFINE r == [NotRunning EXCEPT !.at = "finding", !.version = v, !.details = d, !.disturbed = others # {}]
             q(x) == [indexing[x] EXCEPT !.disturbed = TRUE]
  <1>3. /\ r \in IndexCall /\ r.at = "finding" /\ r.version = v /\ r.details = d
        /\ r.disturbed = (others # {}) /\ r.written = 0
    BY VersionsAssumption, TableIs DEF IndexCall, NotRunning, Early, Projections
  <1>4. ASSUME NEW x \in Indexers
        PROVE  /\ q(x) \in IndexCall /\ q(x).disturbed = TRUE
               /\ q(x).at = indexing[x].at /\ q(x).version = indexing[x].version
               /\ q(x).details = indexing[x].details /\ q(x).found = indexing[x].found
               /\ q(x).prepared = indexing[x].prepared /\ q(x).merged = indexing[x].merged
               /\ q(x).written = indexing[x].written
    BY <1>1, CallIs DEF IndexCall
  <1> HIDE DEF r, q
  <1>5. indexing' = [x \in Indexers |-> IF x = c THEN r ELSE IF x \in others THEN q(x) ELSE indexing[x]]
    BY <1>2 DEF r, q
  <1>6. indexing' \in [Indexers -> IndexCall] /\ indexing'[c] = r
    BY <1>1, <1>3, <1>4, <1>5 DEF IndexTyped
  <1>7. ASSUME NEW x \in Indexers \ {c}
        PROVE  /\ Running(x)' <=> Running(x)
               /\ ~Undisturbed(x)' /\ IndexCallSound(x)'
               /\ Running(x) => muddled'
    <2>1. CASE x \in others
      <3>1. indexing'[x] = q(x)
        BY <1>5, <2>1
      <3>2. IndexCallSound(x)
        BY DEF IndexInv
      <3>3. Missing(x)' = Missing(x)
        BY <1>4, <3>1 DEF Missing
      <3> QED
        BY <1>1, <1>4, <2>1, <3>1, <3>2, <3>3 DEF IndexCallSound, Undisturbed, Running
    <2>2. CASE x \notin others
      <3>1. indexing'[x] = indexing[x]
        BY <1>5, <2>2
      <3>2. IndexCallSound(x) /\ ~Running(x)
        BY <2>2 DEF IndexInv
      <3> QED
        BY <1>1, <3>1, <3>2 DEF IndexCallSound, Undisturbed, Running, Missing
    <2> QED
      BY <2>1, <2>2
  <1>8. IndexCallSound(c)' /\ CallExact(c)'
    <2>1. fileLock' # c
      BY <1>1 DEF IndexInv, IndexCallSound, Running
    <2> QED
      BY <1>3, <1>6, <2>1 DEF IndexCallSound, CallExact, Running, Early, Filled
  <1>9. CallsApart'
    <2>1. Undisturbed(c)' => others = {}
      BY <1>3, <1>6 DEF Undisturbed
    <2>2. \A x, y \in Indexers : Undisturbed(x)' /\ Running(y)' => y = x
      BY <1>7, <2>1
    <2>3. \A x \in Indexers : Running(x)' /\ indexing'[x].disturbed => muddled'
      <3>1. indexing'[c].disturbed => muddled'
        BY <1>1, <1>3, <1>6
      <3> QED
        BY <1>7, <3>1
    <2> QED
      BY <1>1, <2>2, <2>3 DEF CallsApart
  <1>10. IndexTyped'
    BY <1>1, <1>6 DEF IndexTyped
  <1>11. ReuseKept' /\ Fitting' /\ ReadersFindAVersion' /\ ReportedIsExact'
    BY <1>1 DEF IndexInv, ReuseKept, Fitting, ReadersFindAVersion, ReportedIsExact, Whole
  <1> QED
    BY <1>7, <1>8, <1>9, <1>10, <1>11 DEF IndexInv

\* What is refused at once changes nothing but what was reported last.
LEMMA RefuseEmptySound ==
    ASSUME IndexInv, NEW c \in Indexers, RefuseEmpty(c)
    PROVE  IndexInv'
  <1>1. /\ UNCHANGED <<indexing, reuse, fileLock, saved, knowledge, collection, muddled>>
        /\ shown' = 0
    BY DEF RefuseEmpty
  <1>2. ASSUME NEW x \in Indexers
        PROVE  IndexCallSound(x)' /\ (Undisturbed(x)' => CallExact(x)')
    <2>1. IndexCallSound(x)'
      BY <1>1 DEF IndexInv, IndexCallSound, Running, Missing
    <2>2. Undisturbed(x) /\ CallExact(x) => CallExact(x)'
      BY <1>1 DEF CallExact
    <2>3. Undisturbed(x)' <=> Undisturbed(x)
      BY <1>1 DEF Undisturbed, Running
    <2> QED
      BY <2>1, <2>2, <2>3 DEF IndexInv
  <1>3. IndexTyped' /\ CallsApart'
    BY <1>1 DEF IndexInv, IndexTyped, CallsApart, Undisturbed, Running
  <1>4. ReuseKept' /\ Fitting' /\ ReadersFindAVersion' /\ ReportedIsExact'
    BY <1>1 DEF IndexInv, ReuseKept, Fitting, ReadersFindAVersion, ReportedIsExact, Whole
  <1> QED
    BY <1>2, <1>3, <1>4 DEF IndexInv

LEMMA IndexInvInit == IndexInit => IndexInv
  <1> SUFFICES ASSUME IndexInit
               PROVE  IndexInv
    OBVIOUS
  <1>1. IndexTyped
    <2>1. DOMAIN collection = {}
      BY DEF IndexInit
    <2> QED
      BY <2>1, NotRunningIs, TableIs DEF IndexInit, IndexTyped
  <1>2. \A c \in Indexers : indexing[c] = NotRunning /\ ~Running(c)
    BY NotRunningIs DEF IndexInit, Running
  <1>3. \A c \in Indexers : IndexCallSound(c) /\ ~Undisturbed(c)
    BY <1>2, NotRunningIs, IndexersAssumption DEF IndexCallSound, Undisturbed, IndexInit, Early, Filled
  <1>4. CallsApart
    BY <1>2, <1>3 DEF CallsApart
  <1>5. ReuseKept /\ Fitting /\ ReadersFindAVersion /\ ReportedIsExact
    BY DEF IndexInit, ReuseKept, Fitting, ReadersFindAVersion, ReportedIsExact
  <1> QED
    BY <1>1, <1>3, <1>4, <1>5 DEF IndexInv

LEMMA IndexInvStep == IndexInv /\ [IndexNext]_indexVars => IndexInv'
  <1>1. ASSUME IndexInv, UNCHANGED indexVars
        PROVE  IndexInv'
    <2>1. ASSUME NEW c \in Indexers
          PROVE  IndexCallSound(c)' /\ (Undisturbed(c)' => CallExact(c)')
      <3>1. IndexCallSound(c)'
        BY <1>1 DEF IndexInv, indexVars, IndexCallSound, Running, Missing
      <3>2. Undisturbed(c) /\ CallExact(c) => CallExact(c)'
        BY <1>1 DEF indexVars, CallExact
      <3>3. Undisturbed(c)' <=> Undisturbed(c)
        BY <1>1 DEF indexVars, Undisturbed, Running
      <3> QED
        BY <1>1, <3>1, <3>2, <3>3 DEF IndexInv
    <2>2. IndexTyped' /\ CallsApart'
      BY <1>1 DEF IndexInv, indexVars, IndexTyped, CallsApart, Undisturbed, Running
    <2>3. ReuseKept' /\ Fitting' /\ ReadersFindAVersion' /\ ReportedIsExact'
      BY <1>1 DEF IndexInv, indexVars, ReuseKept, Fitting, ReadersFindAVersion, ReportedIsExact, Whole
    <2> QED
      BY <2>1, <2>2, <2>3 DEF IndexInv
  <1> QED
    BY <1>1, RefuseEmptySound, BeginIndexSound, FindReusableSound, EmbedMissingSound, ReadToMergeSound,
       ReplaceReuseSound, ListIdsSound, WriteSidecarSound, UpsertChunksSound, DeleteStaleSound,
       CallFailsSound DEF IndexNext, IndexStep

\* No saved vector is lost, every record shown has the configured dimension, readers find
\* a whole version and what was reported is what is there (IndexSound of DocumentIndex).
THEOREM IndexIsSound == IndexSpec => []IndexSound
  <1>1. IndexSpec => []IndexInv
    BY IndexInvInit, IndexInvStep, PTL DEF IndexSpec
  <1>2. IndexInv => IndexSound
    BY DEF IndexInv, IndexSound, Fitting
  <1> QED
    BY <1>1, <1>2, PTL
=============================================================================
