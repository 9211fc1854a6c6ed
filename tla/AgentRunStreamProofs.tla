------------------------ MODULE AgentRunStreamProofs ------------------------
(***************************************************************************)
(* Theorems about the event stream of a run, for any number of responses,  *)
(* invocations, events and disconnects.                                    *)
(***************************************************************************)
EXTENDS AgentRunStream, FiniteSetTheorems, SequenceTheorems, TLAPS

\* An invocation that may still publish.
Active(t) == task[t] \in {"running", "answering", "closing"}

-----------------------------------------------------------------------------
(* What a step may be.                                                     *)

\* Invocation t publishes event e and goes on to l.
Published(t, e, l) ==
    /\ Active(t)
    /\ \/ e = "last" /\ l = "published"
       \/ e = "event" /\ l \in {"running", "closing"}
    /\ Publish(t, e, l)
    /\ UNCHANGED <<pending, Working>>

\* Invocation t goes on to l and publishes nothing.
Advanced(t, l) ==
    /\ ~Waiting(t)
    /\ \/ task[t] = "running" /\ l = "answering"
       \/ l = "over" /\ (task[t] = "published" \/ (Active(t) /\ terminal))
    /\ task' = [task EXCEPT ![t] = l]
    /\ pending' \in BOOLEAN
    /\ UNCHANGED <<log, Working>>

\* Response s runs its finally clauses.
Left(s) == stream[s] \in {"ending", "dropped", "cancelling"} /\ Leave(s)

\* The steps of invocation t take two forms.
LEMMA WorkForms ==
    ASSUME TypeOK, NEW t \in Tasks, Work(t)
    PROVE  \/ \E e \in Events, l \in {"running", "closing", "published"} : Published(t, e, l)
           \/ \E l \in {"answering", "over"} : Advanced(t, l)
  <1>1. CASE Progress(t)
    BY <1>1 DEF Progress, Published, Active, Events
  <1>2. CASE RunReturns(t)
    BY <1>2 DEF RunReturns, Advanced
  <1>3. CASE Raises(t)
    BY <1>3 DEF Raises, Published, Active, Events
  <1>4. CASE Answer(t)
    BY <1>4 DEF Answer, Published, Active, Events
  <1>5. CASE Close(t)
    BY <1>5 DEF Close, Published, Active, Events
  <1>6. CASE Refused(t)
    BY <1>6 DEF Refused, Advanced, Active, TypeOK, Working
  <1>7. CASE Over(t)
    BY <1>7 DEF Over, Advanced, TypeOK
  <1> QED
    BY <1>1, <1>2, <1>3, <1>4, <1>5, <1>6, <1>7 DEF Work

\* Every step has one of these forms.
LEMMA StepForms ==
    ASSUME TypeOK, [Next]_vars
    PROVE  \/ UNCHANGED vars
           \/ Deliver
           \/ Shutdown
           \/ \E t \in Tasks, e \in Events, l \in {"running", "closing", "published"} :
                Published(t, e, l)
           \/ \E t \in Tasks, l \in {"answering", "over"} : Advanced(t, l)
           \/ \E s \in Streams : Start(s)
           \/ \E s \in Streams : ResumeRun(s)
           \/ \E s \in Streams, n \in {0, Len(history)} : View(s, n)
           \/ \E s \in Streams : Open(s)
           \/ \E s \in Streams : Frame(s)
           \/ \E s \in Streams : Wait(s)
           \/ \E s \in Streams : Left(s)
           \/ \E s \in Streams : LeaveOpening(s)
           \/ \E s \in Streams : LeaveSending(s)
           \/ \E s \in Streams : LeaveWaiting(s)
           \/ \E s \in Streams : LeaveAlone(s)
  <1>1. ASSUME NEW s \in Streams, Finish(s) \/ Collected(s) \/ Cancelled(s)
        PROVE  Left(s)
    BY <1>1 DEF Finish, Collected, Cancelled, Left
  <1> QED
    BY <1>1, WorkForms DEF Next, Request, Respond, Disconnect

-----------------------------------------------------------------------------
(* Types.                                                                  *)

Notices(n) == [by : Tasks \union Streams, event : 1 .. n, to : SUBSET Streams]

\* What is typed by the length of the log stays so while the log grows.
LEMMA GrowTyped ==
    ASSUME TypeOK, NEW e \in Events, NEW h, h = history \/ h = Append(history, e)
    PROVE  /\ h \in Seq(Events)
           /\ Len(h) \in Nat /\ Len(history) \in Nat /\ Len(history) <= Len(h)
           /\ notices \subseteq Notices(Len(h))
           /\ queue \in [Streams -> Seq(1 .. Len(h))]
           /\ sent \in [Streams -> 0 .. Len(h)]
           /\ lost \in [Streams -> SUBSET (1 .. Len(h))]
  <1>0. history \in Seq(Events)
    BY DEF TypeOK
  <1>1. /\ h \in Seq(Events)
        /\ Len(h) \in Nat /\ Len(history) \in Nat /\ Len(history) <= Len(h)
    <2>1. Len(history) \in Nat
      BY <1>0, LenProperties
    <2>2. CASE h = history
      BY <1>0, <2>1, <2>2
    <2>3. CASE h = Append(history, e)
      <3>1. /\ Append(history, e) \in Seq(Events)
            /\ Len(Append(history, e)) = Len(history) + 1
        BY <1>0, AppendProperties
      <3> QED
        BY <2>1, <2>3, <3>1
    <2> QED
      BY <2>2, <2>3
  <1>2. /\ 1 .. Len(history) \subseteq 1 .. Len(h)
        /\ 0 .. Len(history) \subseteq 0 .. Len(h)
    BY <1>1
  <1>3. Seq(1 .. Len(history)) \subseteq Seq(1 .. Len(h))
    BY <1>2, SeqMonotonic
  <1> QED
    BY <1>1, <1>2, <1>3 DEF TypeOK, Notices

\* Notice x is notice m without response s.
Shortened(x, m, s) == x.by = m.by /\ x.event = m.event /\ x.to = m.to \ {s}

\* Taking a response out of the notices leaves them notices.
LEMMA WithoutTyped ==
    ASSUME NEW n \in Nat, NEW ns, ns \subseteq Notices(n), NEW s
    PROVE  /\ Without(s, ns) \subseteq Notices(n)
           /\ \A x \in Without(s, ns) : \E m \in ns : Shortened(x, m, s)
           /\ \A m \in ns : \E x \in Without(s, ns) : Shortened(x, m, s)
  <1>1. \A m \in ns : [m EXCEPT !.to = @ \ {s}] =
            [by |-> m.by, event |-> m.event, to |-> m.to \ {s}]
    BY DEF Notices
  <1>2. Without(s, ns) =
            {[by |-> m.by, event |-> m.event, to |-> m.to \ {s}] : m \in ns}
    BY <1>1 DEF Without
  <1>3. \A m \in ns : m.by \in Tasks \union Streams /\ m.event \in 1 .. n
                      /\ m.to \in SUBSET Streams
    BY DEF Notices
  <1>4. ASSUME NEW m \in ns
        PROVE  [by |-> m.by, event |-> m.event, to |-> m.to \ {s}] \in Notices(n)
    <2>1. m.to \ {s} \in SUBSET Streams
      BY <1>3
    <2> QED
      BY <1>3, <2>1 DEF Notices
  <1>5. Without(s, ns) \subseteq Notices(n)
    BY <1>2, <1>4
  <1>6. \A m \in ns : Shortened([by |-> m.by, event |-> m.event, to |-> m.to \ {s}], m, s)
    BY DEF Shortened
  <1> QED
    BY <1>2, <1>5, <1>6

\* The types of the log after a write, and those the write leaves to others.
LEMMA WriteTyped ==
    ASSUME TypeOK, NEW p, NEW e \in Events, NEW to \in SUBSET Streams,
           NEW puts \in SUBSET Notices(Len(history)), Write(p, e, to, puts),
           to = {} \/ p \in Tasks \union Streams
    PROVE  /\ history' \in Seq(Events) /\ terminal' \in BOOLEAN
           /\ Len(history') = Len(history) + 1
           /\ notices' \subseteq Notices(Len(history'))
           /\ queue \in [Streams -> Seq(1 .. Len(history'))]
           /\ sent \in [Streams -> 0 .. Len(history')]
           /\ lost \in [Streams -> SUBSET (1 .. Len(history'))]
  <1>1. history' = Append(history, e) /\ terminal' = (terminal \/ e = "last")
    BY DEF Write
  <1>2. Len(history') = Len(history) + 1 /\ Len(history) \in Nat
    BY <1>1, AppendProperties, LenProperties DEF TypeOK
  <1>3. puts \subseteq Notices(Len(history'))
    BY <1>2 DEF Notices
  <1>4. to # {} => [by |-> p, event |-> Len(history) + 1, to |-> to]
                        \in Notices(Len(history'))
    BY <1>2 DEF Notices
  <1>5. notices' \subseteq Notices(Len(history'))
    BY <1>3, <1>4 DEF Write
  <1> QED
    BY <1>1, <1>2, <1>5, GrowTyped DEF TypeOK

\* The types of a response that is gone.
LEMMA GoneTyped ==
    ASSUME TypeOK, NEW s \in Streams, Gone(s), NEW n \in Nat,
           queue \in [Streams -> Seq(1 .. n)], sent \in [Streams -> 0 .. n]
    PROVE  /\ stream' \in [Streams -> {"idle", "opening", "sending", "waiting",
                                       "ending", "dropped", "cancelling"}]
           /\ owns' \in [Streams -> 0 .. MaxTasks]
           /\ queue' \in [Streams -> Seq(1 .. n)]
           /\ sent' \in [Streams -> 0 .. n]
           /\ subscribers' \subseteq Streams
  <1>1. <<>> \in Seq(1 .. n) /\ 0 \in 0 .. n /\ 0 \in 0 .. MaxTasks
    BY MaxTasksAssumption, EmptySeq
  <1> QED
    BY <1>1 DEF Gone, TypeOK

\* The types of the notices and of the lost events after a withdrawal.
LEMMA WithdrawTyped ==
    ASSUME TypeOK, NEW s \in Streams, NEW cut, Withdraw(cut, s), NEW n \in Nat,
           notices \subseteq Notices(n), lost \in [Streams -> SUBSET (1 .. n)]
    PROVE  /\ notices' \subseteq Notices(n)
           /\ lost' \in [Streams -> SUBSET (1 .. n)]
  <1>1. {m \in notices : m.by \notin cut} \subseteq Notices(n)
    OBVIOUS
  <1>2. notices' \subseteq Notices(n)
    BY <1>1, WithoutTyped DEF Withdraw
  <1>3. \A m \in notices : m.event \in 1 .. n
    BY DEF Notices
  <1>4. ASSUME NEW r \in Streams
        PROVE  (IF r = s THEN {} ELSE lost[r] \union
                    {m.event : m \in {k \in notices : k.by \in cut /\ r \in k.to}})
                        \in SUBSET (1 .. n)
    BY <1>3
  <1>5. lost' \in [Streams -> SUBSET (1 .. n)]
    BY <1>4 DEF Withdraw
  <1> QED
    BY <1>2, <1>5

\* The types after the finally clauses, of a response that may have written.
LEMMA FinallyTyped ==
    ASSUME TypeOK, NEW s \in Streams, Finally(s), NEW e \in Events,
           history' = history \/ history' = Append(history, e),
           terminal' \in BOOLEAN, hangups' \in 0 .. MaxHangups
    PROVE  TypeOK'
  <1>1. /\ history' \in Seq(Events) /\ Len(history') \in Nat
        /\ notices \subseteq Notices(Len(history'))
        /\ queue \in [Streams -> Seq(1 .. Len(history'))]
        /\ sent \in [Streams -> 0 .. Len(history')]
        /\ lost \in [Streams -> SUBSET (1 .. Len(history'))]
    BY GrowTyped
  <1>2. /\ stream' \in [Streams -> {"idle", "opening", "sending", "waiting",
                                    "ending", "dropped", "cancelling"}]
        /\ owns' \in [Streams -> 0 .. MaxTasks]
        /\ queue' \in [Streams -> Seq(1 .. Len(history'))]
        /\ sent' \in [Streams -> 0 .. Len(history')]
        /\ subscribers' \subseteq Streams
    BY <1>1, GoneTyped DEF Finally
  <1>3. /\ notices' \subseteq Notices(Len(history'))
        /\ lost' \in [Streams -> SUBSET (1 .. Len(history'))]
    BY <1>1, WithdrawTyped DEF Finally
  <1>4. task' \in [Tasks -> {"none", "running", "answering", "closing",
                             "published", "over"}]
    BY DEF Finally, TypeOK
  <1>5. closed' \in BOOLEAN /\ pending' \in BOOLEAN
    BY DEF Finally, TypeOK
  <1> QED
    BY <1>1, <1>2, <1>3, <1>4, <1>5 DEF TypeOK, Notices

\* What a response is, by its place.
Seated(s) ==
    /\ s \in subscribers => stream[s] \in {"sending", "waiting", "ending", "dropped"}
    /\ stream[s] \in {"sending", "waiting"} => s \in subscribers
    /\ stream[s] \in {"idle", "opening"} => queue[s] = <<>>
    /\ stream[s] = "idle" => owns[s] = 0 /\ sent[s] = 0
    /\ owns[s] \in Started \union {0}

\* Invocations are numbered in the order they start; before the first one there
\* is nothing.
InOrder ==
    /\ \E k \in 0 .. MaxTasks : Started = 1 .. k
    /\ history = <<>> =>
        /\ ~terminal /\ Started = {}
        /\ \A s \in Streams : stream[s] = "idle"

\* Puts go to subscribers.
Aimed == \A n \in notices : n.to \subseteq subscribers

Placed ==
    /\ TypeOK
    /\ \A s \in Streams : Seated(s)
    /\ InOrder
    /\ Aimed

\* A step keeps the types.
LEMMA StepTyped == Placed /\ [Next]_vars => TypeOK'
  <1> SUFFICES ASSUME Placed, [Next]_vars PROVE TypeOK'
    OBVIOUS
  <1> USE DEF Placed
  <1> DEFINE n == Len(history)
  <1>0. /\ n \in Nat /\ notices \subseteq Notices(n)
        /\ history \in Seq(Events) /\ "last" \in Events /\ "event" \in Events
    BY LenProperties DEF TypeOK, Notices, Events
  <1>1. CASE UNCHANGED vars
    BY <1>1 DEF vars, log, agent, response, TypeOK
  <1>2. CASE Deliver
    <2>1. PICK m \in notices : Put(m)
      BY <1>2 DEF Deliver
    <2>2. m.event \in 1 .. n
      BY <1>0 DEF Notices
    <2>3. \A s \in Streams : Append(queue[s], m.event) \in Seq(1 .. n)
      BY <2>2, AppendProperties DEF TypeOK
    <2>4. queue' \in [Streams -> Seq(1 .. n)]
      BY <2>1, <2>3 DEF Put, TypeOK
    <2> QED
      BY <1>2, <2>1, <2>4 DEF Deliver, Put, TypeOK, agent
  <1>3. CASE Shutdown
    <2>1. subscribers = {}
      BY <1>3 DEF Shutdown, Seated, TypeOK
    <2>2. CASE UNCHANGED log
      BY <1>3, <2>2 DEF Shutdown, TypeOK, log, agent, response
    <2>3. CASE Write(0, "last", subscribers, notices)
      <3>1. /\ history' \in Seq(Events) /\ terminal' \in BOOLEAN
            /\ notices' \subseteq Notices(Len(history'))
            /\ queue \in [Streams -> Seq(1 .. Len(history'))]
            /\ sent \in [Streams -> 0 .. Len(history')]
            /\ lost \in [Streams -> SUBSET (1 .. Len(history'))]
        BY <1>0, <2>1, <2>3, WriteTyped
      <3> QED
        BY <1>3, <3>1 DEF Shutdown, TypeOK, agent, response, Notices
    <2> QED
      BY <1>3, <2>2, <2>3 DEF Shutdown
  <1>4. ASSUME NEW t \in Tasks, NEW e \in Events,
               NEW l \in {"running", "closing", "published"}, Published(t, e, l)
        PROVE  TypeOK'
    <2>1. Write(t, e, subscribers, notices) /\ task' = [task EXCEPT ![t] = l]
      BY <1>4 DEF Published, Publish
    <2>2. /\ history' \in Seq(Events) /\ terminal' \in BOOLEAN
          /\ notices' \subseteq Notices(Len(history'))
          /\ queue \in [Streams -> Seq(1 .. Len(history'))]
          /\ sent \in [Streams -> 0 .. Len(history')]
          /\ lost \in [Streams -> SUBSET (1 .. Len(history'))]
      BY <1>0, <2>1, WriteTyped DEF TypeOK
    <2> QED
      BY <1>4, <2>1, <2>2 DEF Published, TypeOK, Working, response, Notices
  <1>5. ASSUME NEW t \in Tasks, NEW l \in {"answering", "over"}, Advanced(t, l)
        PROVE  TypeOK'
    BY <1>5 DEF Advanced, TypeOK, Working, response, log
  <1>6. ASSUME NEW s \in Streams, NEW t \in Tasks \union {0}, NEW k \in 0 .. n,
               Enter(s, t, k), UNCHANGED history \/ history' = <<"event">>,
               terminal' \in BOOLEAN, UNCHANGED pending,
               task' = task \/ task' = [task EXCEPT ![t] = "running"],
               history = <<>> \/ UNCHANGED history
        PROVE  TypeOK'
    <2>0. Append(<<>>, "event") = <<"event">>
      OBVIOUS
    <2>1. history' = history \/ history' = Append(history, "event")
      BY <1>6, <2>0
    <2>2. /\ history' \in Seq(Events) /\ Len(history') \in Nat /\ n <= Len(history')
          /\ notices \subseteq Notices(Len(history'))
          /\ queue \in [Streams -> Seq(1 .. Len(history'))]
          /\ sent \in [Streams -> 0 .. Len(history')]
          /\ lost \in [Streams -> SUBSET (1 .. Len(history'))]
      BY <1>0, <2>1, GrowTyped
    <2>3. t \in 0 .. MaxTasks /\ k \in 0 .. Len(history')
      BY <1>0, <1>6, <2>2, MaxTasksAssumption DEF Tasks
    <2>4. sent' \in [Streams -> 0 .. Len(history')]
      BY <1>6, <2>2, <2>3 DEF Enter
    <2>5. task' \in [Tasks -> {"none", "running", "answering", "closing",
                               "published", "over"}]
      BY <1>6 DEF TypeOK
    <2>6. /\ stream' \in [Streams -> {"idle", "opening", "sending", "waiting",
                                      "ending", "dropped", "cancelling"}]
          /\ owns' \in [Streams -> 0 .. MaxTasks]
      BY <1>6, <2>3 DEF TypeOK, Enter
    <2> QED
      BY <1>6, <2>2, <2>4, <2>5, <2>6 DEF TypeOK, Enter, Notices
  <1>7. ASSUME NEW s \in Streams, Start(s)
        PROVE  TypeOK'
    <2>1. 1 \in Tasks /\ 0 \in 0 .. n
      BY <1>0, MaxTasksAssumption DEF Tasks
    <2>2. terminal' \in BOOLEAN
      BY <1>7 DEF Start, TypeOK
    <2> QED
      BY <1>6, <1>7, <2>1, <2>2 DEF Start
  <1>8. ASSUME NEW s \in Streams, ResumeRun(s)
        PROVE  TypeOK'
    <2>1. n \in 0 .. n
      BY <1>0
    <2> QED
      BY <1>6, <1>8, <2>1 DEF ResumeRun
  <1>9. ASSUME NEW s \in Streams, NEW k \in {0, n}, View(s, k)
        PROVE  TypeOK'
    <2>1. k \in 0 .. n
      BY <1>0
    <2>2. terminal' \in BOOLEAN
      BY <1>9 DEF View, TypeOK
    <2>3. Enter(s, 0, k) /\ UNCHANGED history /\ UNCHANGED pending /\ UNCHANGED task
      BY <1>9 DEF View, agent
    <2>4. 0 \in Tasks \union {0}
      OBVIOUS
    <2> HIDE DEF n
    <2> QED
      BY <1>6, <2>1, <2>2, <2>3, <2>4
  <1>10. ASSUME NEW s \in Streams, Open(s)
         PROVE  TypeOK'
    <2>1. n \in 0 .. n
      BY <1>0
    <2> QED
      BY <1>10, <2>1 DEF Open, TypeOK, log, agent
  <1>11. ASSUME NEW s \in Streams, Frame(s)
         PROVE  TypeOK'
    <2>1. queue[s] \in Seq(1 .. n) /\ queue[s] # <<>>
      BY <1>11 DEF Frame, TypeOK
    <2>2. Head(queue[s]) \in 1 .. n /\ Tail(queue[s]) \in Seq(1 .. n)
      BY <2>1, HeadTailProperties
    <2>3. Head(queue[s]) \in 0 .. n
      BY <1>0, <2>2
    <2>4. {k \in lost[s] : k > Head(queue[s])} \in SUBSET (1 .. n)
      BY DEF TypeOK
    <2>5. stream' \in [Streams -> {"idle", "opening", "sending", "waiting",
                                   "ending", "dropped", "cancelling"}]
      BY <1>11 DEF Frame, TypeOK
    <2>6. /\ sent' \in [Streams -> 0 .. n]
          /\ queue' \in [Streams -> Seq(1 .. n)]
          /\ lost' \in [Streams -> SUBSET (1 .. n)]
      BY <1>11, <2>2, <2>3, <2>4 DEF Frame, TypeOK
    <2> QED
      BY <1>11, <2>5, <2>6 DEF Frame, TypeOK, log, agent
  <1>12. ASSUME NEW s \in Streams, Wait(s)
         PROVE  TypeOK'
    BY <1>12 DEF Wait, TypeOK, log, agent
  <1>13. ASSUME NEW s \in Streams, Left(s)
         PROVE  TypeOK'
    BY <1>0, <1>13, FinallyTyped DEF Left, Leave, TypeOK
  <1>14. ASSUME HangUp
         PROVE  hangups' \in 0 .. MaxHangups
    BY <1>14, MaxHangupsAssumption DEF HangUp, TypeOK
  <1>15. ASSUME NEW s \in Streams, LeaveOpening(s)
         PROVE  TypeOK'
    <2>1. /\ stream' \in [Streams -> {"idle", "opening", "sending", "waiting",
                                      "ending", "dropped", "cancelling"}]
          /\ owns' \in [Streams -> 0 .. MaxTasks]
          /\ queue' \in [Streams -> Seq(1 .. n)]
          /\ sent' \in [Streams -> 0 .. n]
          /\ subscribers' \subseteq Streams
      BY <1>0, <1>15, GoneTyped DEF LeaveOpening, TypeOK
    <2> QED
      BY <1>14, <1>15, <2>1 DEF LeaveOpening, TypeOK, log, agent
  <1>16. ASSUME NEW s \in Streams, LeaveSending(s)
         PROVE  TypeOK'
    BY <1>14, <1>16 DEF LeaveSending, Interrupt, TypeOK, log, agent
  <1>17. ASSUME NEW s \in Streams, LeaveWaiting(s)
         PROVE  TypeOK'
    <2> DEFINE others == subscribers \ {s}
    <2>1. Write(s, "last", others, Without(s, notices)) /\ subscribers' = others
          /\ Interrupt(s, "waiting", "cancelling")
      BY <1>17 DEF LeaveWaiting
    <2>2. Without(s, notices) \in SUBSET Notices(n)
      BY <1>0, WithoutTyped
    <2>3. others \in SUBSET Streams /\ s \in Tasks \union Streams
      BY DEF TypeOK
    <2> HIDE DEF others
    <2>4. /\ history' \in Seq(Events) /\ terminal' \in BOOLEAN
          /\ notices' \subseteq Notices(Len(history'))
          /\ queue \in [Streams -> Seq(1 .. Len(history'))]
          /\ sent \in [Streams -> 0 .. Len(history')]
          /\ lost \in [Streams -> SUBSET (1 .. Len(history'))]
      BY <1>0, <2>1, <2>2, <2>3, WriteTyped
    <2> QED
      BY <1>14, <2>1, <2>3, <2>4 DEF Interrupt, TypeOK, agent, Notices
  <1>18. ASSUME NEW s \in Streams, LeaveAlone(s)
         PROVE  TypeOK'
    BY <1>0, <1>14, <1>18, FinallyTyped DEF LeaveAlone
  <1> HIDE DEF n
  <1> QED
    BY <1>1, <1>2, <1>3, <1>4, <1>5, <1>7, <1>8, <1>9, <1>10, <1>11, <1>12, <1>13,
       <1>15, <1>16, <1>17, <1>18, StepForms DEF n

-----------------------------------------------------------------------------
(* Where the invocations, the responses and the puts are.                  *)

\* An invocation that goes on has started, and stays started.
LEMMA GoingOn ==
    ASSUME TypeOK, NEW t \in Tasks, task[t] # "none", NEW l, l # "none",
           task' = [task EXCEPT ![t] = l]
    PROVE  Started' = Started
  BY DEF TypeOK, Started

\* A cancelled invocation has started, and stays started.
LEMMA CancelledOn ==
    ASSUME TypeOK, NEW s \in Streams, Seated(s), Finally(s)
    PROVE  Started' = Started
  <1>1. owns[s] = 0 \/ owns[s] \in Started
    BY DEF Seated
  <1>2. 0 \notin Tasks
    BY MaxTasksAssumption DEF Tasks
  <1> QED
    BY <1>1, <1>2 DEF TypeOK, Started, Finally

\* The number of invocations so far is the number of the last one.
LEMMA StartedCount ==
    ASSUME NEW k \in 0 .. MaxTasks, Started = 1 .. k
    PROVE  Cardinality(Started) = k
  BY MaxTasksAssumption, FS_Interval

\* A new invocation comes from a new run or from a resumed one.
LEMMA StartedChange ==
    ASSUME Placed, [Next]_vars
    PROVE  \/ Started' = Started
           \/ \E s \in Streams : Start(s) /\ Started = {} /\ Started' = {1}
           \/ \E s \in Streams, k \in 0 .. MaxTasks :
                /\ ResumeRun(s) /\ Started = 1 .. k /\ Cardinality(Started) = k
                /\ k + 1 \in Tasks /\ Started' = 1 .. (k + 1)
  <1> USE DEF Placed
  <1>1. CASE task' = task
    BY <1>1 DEF Started
  <1>2. ASSUME NEW t \in Tasks, NEW e \in Events,
               NEW l \in {"running", "closing", "published"}, Published(t, e, l)
        PROVE  Started' = Started
    BY <1>2, GoingOn DEF Published, Publish, Active
  <1>3. ASSUME NEW t \in Tasks, NEW l \in {"answering", "over"}, Advanced(t, l)
        PROVE  Started' = Started
    BY <1>3, GoingOn DEF Advanced, Active
  <1>4. ASSUME NEW s \in Streams, Start(s)
        PROVE  Started = {} /\ Started' = {1}
    <2>1. Started = {} /\ 1 \in Tasks
      BY <1>4, MaxTasksAssumption DEF InOrder, Start, Tasks
    <2> QED
      BY <1>4, <2>1 DEF Start, Started, TypeOK
  <1>5. ASSUME NEW s \in Streams, ResumeRun(s)
        PROVE  \E k \in 0 .. MaxTasks :
                 /\ Started = 1 .. k /\ Cardinality(Started) = k
                 /\ k + 1 \in Tasks /\ Started' = 1 .. (k + 1)
    <2>1. PICK k \in 0 .. MaxTasks : Started = 1 .. k
      BY DEF InOrder
    <2>2. Cardinality(Started) = k
      BY <2>1, StartedCount
    <2>3. k + 1 \in Tasks /\ task' = [task EXCEPT ![k + 1] = "running"]
      BY <1>5, <2>2 DEF ResumeRun
    <2>4. Started' = Started \union {k + 1}
      BY <2>3 DEF Started, TypeOK
    <2>5. (1 .. k) \union {k + 1} = 1 .. (k + 1)
      BY MaxTasksAssumption
    <2> QED
      BY <2>1, <2>2, <2>3, <2>4, <2>5
  <1>6. ASSUME NEW s \in Streams, Left(s) \/ LeaveAlone(s)
        PROVE  Started' = Started
    BY <1>6, CancelledOn DEF Left, Leave, LeaveAlone
  <1> QED
    BY <1>1, <1>2, <1>3, <1>4, <1>5, <1>6, StepForms
    DEF vars, agent, Deliver, Shutdown, View, Open, Frame, Wait, LeaveOpening,
        LeaveSending, LeaveWaiting, Interrupt

\* Started invocations stay started.
LEMMA StartedGrows ==
    ASSUME Placed, [Next]_vars
    PROVE  Started \subseteq Started'
  <1>1. ASSUME NEW k \in 0 .. MaxTasks
        PROVE  1 .. k \subseteq 1 .. (k + 1)
    BY MaxTasksAssumption
  <1> QED
    BY <1>1, StartedChange

\* A step keeps what a response is.
LEMMA StepSeated == Placed /\ [Next]_vars => \A r \in Streams : Seated(r)'
  <1> SUFFICES ASSUME Placed, [Next]_vars, NEW r \in Streams
               PROVE  Seated(r)'
    OBVIOUS
  <1> USE DEF Placed, TypeOK
  <1>0. Seated(r) /\ Started \subseteq Started'
    BY StartedGrows
  <1>1. CASE UNCHANGED <<subscribers, stream, owns, queue, sent>>
    BY <1>0, <1>1 DEF Seated
  <1>2. CASE Deliver
    <2>1. stream[r] \in {"idle", "opening"} => queue'[r] = queue[r]
      BY <1>0, <1>2 DEF Deliver, Put, Aimed, Seated
    <2> QED
      BY <1>0, <1>2, <2>1 DEF Deliver, Seated
  <1>3. ASSUME NEW s \in Streams, NEW t, NEW k, Enter(s, t, k),
               t \in Started' \union {0}
        PROVE  Seated(r)'
    <2>1. CASE r = s
      BY <1>0, <1>3, <2>1 DEF Enter, Seated
    <2>2. CASE r # s
      BY <1>0, <1>3, <2>2 DEF Enter, Seated
    <2> QED
      BY <2>1, <2>2
  <1>4. ASSUME NEW s \in Streams, Start(s)
        PROVE  Seated(r)'
    <2>1. Started' = {1}
      BY <1>4, MaxTasksAssumption DEF InOrder, Start, Tasks, Started
    <2> QED
      BY <1>3, <1>4, <2>1 DEF Start
  <1>5. ASSUME NEW s \in Streams, ResumeRun(s)
        PROVE  Seated(r)'
    <2>1. Cardinality(Started) + 1 \in Started'
      BY <1>5 DEF ResumeRun, Started
    <2> QED
      BY <1>3, <1>5, <2>1 DEF ResumeRun
  <1>6. ASSUME NEW s \in Streams, NEW k, View(s, k)
        PROVE  Seated(r)'
    BY <1>3, <1>6 DEF View
  <1>7. ASSUME NEW s \in Streams, Open(s)
        PROVE  Seated(r)'
    <2>1. CASE r = s
      BY <1>0, <1>7, <2>1 DEF Open, Seated
    <2>2. CASE r # s
      BY <1>0, <1>7, <2>2 DEF Open, Seated
    <2> QED
      BY <2>1, <2>2
  <1>8. ASSUME NEW s \in Streams, Frame(s)
        PROVE  Seated(r)'
    <2>1. CASE r = s
      BY <1>0, <1>8, <2>1 DEF Frame, Seated
    <2>2. CASE r # s
      BY <1>0, <1>8, <2>2 DEF Frame, Seated
    <2> QED
      BY <2>1, <2>2
  <1>9. ASSUME NEW s \in Streams, Wait(s)
        PROVE  Seated(r)'
    BY <1>0, <1>9 DEF Wait, Seated
  <1>10. ASSUME NEW s \in Streams, Gone(s)
         PROVE  Seated(r)'
    BY <1>0, <1>10 DEF Gone, Seated
  <1>11. ASSUME NEW s \in Streams, LeaveSending(s)
         PROVE  Seated(r)'
    BY <1>0, <1>11 DEF LeaveSending, Interrupt, Seated
  <1>12. ASSUME NEW s \in Streams, LeaveWaiting(s)
         PROVE  Seated(r)'
    BY <1>0, <1>12 DEF LeaveWaiting, Interrupt, Seated
  <1> QED
    BY <1>1, <1>2, <1>4, <1>5, <1>6, <1>7, <1>8, <1>9, <1>10, <1>11, <1>12, StepForms
    DEF vars, response, Shutdown, Published, Advanced, Working, Left, Leave,
        LeaveOpening, LeaveAlone, Finally

\* A step keeps the order of invocations.
LEMMA StepInOrder == Placed /\ [Next]_vars => InOrder'
  <1> SUFFICES ASSUME Placed, [Next]_vars PROVE InOrder'
    OBVIOUS
  <1> USE DEF Placed
  <1>1. \E k \in 0 .. MaxTasks : Started' = 1 .. k
    <2>1. CASE Started' = Started
      BY <2>1 DEF InOrder
    <2>2. CASE Started' = {1}
      BY <2>2, MaxTasksAssumption
    <2>3. ASSUME NEW k \in 0 .. MaxTasks, k + 1 \in Tasks, Started' = 1 .. (k + 1)
          PROVE  \E j \in 0 .. MaxTasks : Started' = 1 .. j
      BY <2>3, MaxTasksAssumption DEF Tasks
    <2> QED
      BY <2>1, <2>2, <2>3, StartedChange
  <1>2. \A e \in Events : Append(history, e) # <<>>
    BY AppendProperties DEF TypeOK
  <1>3. CASE history # <<>>
    <2>1. \/ history' = history
          \/ \E e \in Events : history' = Append(history, e)
      BY <1>3, StepForms
      DEF vars, log, Deliver, Shutdown, Write, Published, Publish, Advanced, Start,
          View, ResumeRun, Open, Frame, Wait, Left, Leave, LeaveOpening,
          LeaveSending, LeaveWaiting, LeaveAlone, Events
    <2> QED
      BY <1>1, <1>2, <1>3, <2>1 DEF InOrder, TypeOK
  <1>4. CASE history = <<>>
    <2>1. /\ ~terminal /\ \A t \in Tasks : task[t] = "none"
          /\ \A s \in Streams : stream[s] = "idle"
      BY <1>4 DEF InOrder, Started, TypeOK
    <2>2. \/ UNCHANGED <<history, terminal, task, stream>>
          \/ \E s \in Streams : Start(s)
      BY <1>4, <2>1, StepForms
      DEF vars, log, agent, response, Deliver, Shutdown, Published, Advanced, Active,
          View, ResumeRun, Open, Frame, Wait, Left, LeaveOpening, LeaveSending,
          LeaveWaiting, LeaveAlone, Interrupt
    <2>3. ASSUME NEW s \in Streams, Start(s)
          PROVE  history' # <<>>
      BY <2>3 DEF Start
    <2> QED
      BY <1>1, <1>4, <2>1, <2>2, <2>3 DEF InOrder, Started
  <1> QED
    BY <1>3, <1>4

\* A step keeps the puts aimed at subscribers.
LEMMA StepAimed == Placed /\ [Next]_vars => Aimed'
  <1> SUFFICES ASSUME Placed, [Next]_vars PROVE Aimed'
    OBVIOUS
  <1> USE DEF Placed, Aimed
  <1>1. ASSUME subscribers \subseteq subscribers', notices' \subseteq notices
        PROVE  Aimed'
    BY <1>1
  <1>2. ASSUME NEW s \in Streams, NEW ns, ns \subseteq notices
        PROVE  \A m \in Without(s, ns) : m.to \subseteq subscribers \ {s}
    <2>1. Len(history) \in Nat /\ ns \subseteq Notices(Len(history))
      BY <1>2, LenProperties DEF TypeOK, Notices
    <2>2. \A x \in Without(s, ns) : \E m \in ns : Shortened(x, m, s)
      BY <2>1, WithoutTyped
    <2> QED
      BY <1>2, <2>2 DEF Shortened
  <1>3. ASSUME NEW s \in Streams, NEW cut, Withdraw(cut, s),
               subscribers' = subscribers \ {s}
        PROVE  Aimed'
    BY <1>2, <1>3 DEF Withdraw
  <1>4. ASSUME NEW p, NEW e, Write(p, e, subscribers, notices), UNCHANGED subscribers
        PROVE  Aimed'
    BY <1>4 DEF Write
  <1>5. ASSUME NEW s \in Streams, LeaveOpening(s)
        PROVE  Aimed'
    <2>1. s \notin subscribers
      BY <1>5 DEF LeaveOpening, Seated
    <2> QED
      BY <1>1, <1>5, <2>1 DEF LeaveOpening, Gone, log
  <1>6. ASSUME NEW s \in Streams, LeaveWaiting(s)
        PROVE  Aimed'
    BY <1>2, <1>6 DEF LeaveWaiting, Write
  <1>7. ASSUME NEW s \in Streams, Left(s) \/ LeaveAlone(s)
        PROVE  Aimed'
    BY <1>3, <1>7 DEF Left, Leave, LeaveAlone, Finally, Gone
  <1>8. CASE Deliver
    BY <1>1, <1>8 DEF Deliver, Put
  <1>9. CASE Shutdown
    BY <1>1, <1>4, <1>9 DEF Shutdown, log
  <1>10. ASSUME NEW s \in Streams, Open(s)
         PROVE  Aimed'
    BY <1>1, <1>10 DEF Open, log
  <1> QED
    BY <1>1, <1>4, <1>5, <1>6, <1>7, <1>8, <1>9, <1>10, StepForms
    DEF vars, log, Published, Publish, Advanced, Working, Start, View, ResumeRun,
        Enter, Frame, Wait, LeaveSending

\* Initially there is nothing.
LEMMA InitPlaced == Init => Placed
  <1> SUFFICES ASSUME Init PROVE Placed
    OBVIOUS
  <1>1. /\ <<>> \in Seq(Events) /\ <<>> \in Seq(1 .. Len(<<>>))
        /\ 0 \in 0 .. Len(<<>>) /\ 0 \in 0 .. MaxTasks /\ 0 \in 0 .. MaxHangups
    BY EmptySeq, MaxTasksAssumption, MaxHangupsAssumption
  <1>2. history \in Seq(Events) /\ notices = {} /\ task = [t \in Tasks |-> "none"]
    BY <1>1 DEF Init
  <1>3. TypeOK
    BY <1>1 DEF Init, TypeOK
  <1>4. Started = {} /\ 1 .. 0 = {}
    BY DEF Init, Started
  <1>5. InOrder
    BY <1>1, <1>4 DEF Init, InOrder
  <1>6. \A s \in Streams : Seated(s)
    BY DEF Init, Seated
  <1> QED
    BY <1>2, <1>3, <1>5, <1>6 DEF Placed, Aimed

\* In every reachable state of the stream, types and places are right.
LEMMA PlacedAlways == Spec => []Placed
  <1>1. Placed /\ [Next]_vars => Placed'
    BY StepTyped, StepSeated, StepInOrder, StepAimed DEF Placed
  <1> QED
    BY <1>1, InitPlaced, PTL DEF Spec

\* In every reachable state every variable has its type: no position beyond the
\* log, no put to a response that has none.
THEOREM TypeCorrect == Spec => []TypeOK
  BY PlacedAlways, PTL DEF Placed

-----------------------------------------------------------------------------
(* Every invocation is closed once.                                        *)

\* Event e is written to an open run.
Written(e) ==
    /\ history # <<>> /\ ~terminal
    /\ history' = Append(history, e)
    /\ terminal' = (e = "last")
    /\ Started' = Started

\* The log changes only by an event, by a new run and by a resumed one.
LEMMA LogChange ==
    ASSUME Placed, [Next]_vars
    PROVE  \/ UNCHANGED <<history, terminal>> /\ Started' = Started
           \/ \E e \in Events : Written(e)
           \/ \E s \in Streams : Start(s)
           \/ \E s \in Streams : ResumeRun(s)
  <1> SUFFICES ASSUME ~ \E s \in Streams : Start(s) \/ ResumeRun(s)
               PROVE  \/ UNCHANGED <<history, terminal>> /\ Started' = Started
                      \/ \E e \in Events : Written(e)
    OBVIOUS
  <1> USE DEF Placed
  <1>0. Started' = Started /\ "last" \in Events
    BY StartedChange DEF Events
  <1>1. ASSUME NEW t \in Tasks, NEW e \in Events, NEW l, Published(t, e, l)
        PROVE  Written(e)
    <2>1. history # <<>>
      BY <1>1 DEF Published, Active, InOrder, Started
    <2> QED
      BY <1>0, <1>1, <2>1 DEF Published, Publish, Write, Written, TypeOK
  <1>2. CASE Shutdown
    BY <1>0, <1>2 DEF Shutdown, Write, Written, log, TypeOK
  <1>3. ASSUME NEW s \in Streams, LeaveWaiting(s)
        PROVE  Written("last")
    <2>1. history # <<>>
      BY <1>3 DEF LeaveWaiting, Interrupt, InOrder
    <2> QED
      BY <1>0, <1>3, <2>1 DEF LeaveWaiting, Write, Written, TypeOK
  <1>4. ASSUME NEW s \in Streams, LeaveAlone(s)
        PROVE  UNCHANGED <<history, terminal>> \/ Written("last")
    <2>1. history # <<>>
      BY <1>4 DEF LeaveAlone, InOrder
    <2> QED
      BY <1>0, <1>4, <2>1 DEF LeaveAlone, Written, TypeOK
  <1> QED
    BY <1>0, <1>1, <1>2, <1>3, <1>4, StepForms
    DEF vars, log, Deliver, Advanced, View, Open, Frame, Wait, Left, Leave,
        LeaveOpening, LeaveSending

Lasts == {i \in DOMAIN history : history[i] = "last"}

\* The terminal events can be counted, and an event adds at most itself to them.
LEMMA LastsChange ==
    ASSUME Placed
    PROVE  /\ IsFiniteSet(Lasts) /\ Cardinality(Lasts) \in Nat
           /\ \A e \in Events : Written(e) =>
                /\ IsFiniteSet(Lasts')
                /\ Cardinality(Lasts') =
                    Cardinality(Lasts) + (IF e = "last" THEN 1 ELSE 0)
  <1> USE DEF Placed
  <1>1. history \in Seq(Events) /\ Len(history) \in Nat
        /\ DOMAIN history = 1 .. Len(history)
    BY LenProperties DEF TypeOK
  <1>2. IsFiniteSet(Lasts) /\ Cardinality(Lasts) \in Nat
    <2>1. IsFiniteSet(1 .. Len(history)) /\ Lasts \in SUBSET (1 .. Len(history))
      BY <1>1, FS_Interval DEF Lasts
    <2> QED
      BY <2>1, FS_Subset, FS_CardinalityType
  <1>3. ASSUME NEW e \in Events, Written(e)
        PROVE  /\ IsFiniteSet(Lasts')
               /\ Cardinality(Lasts') =
                    Cardinality(Lasts) + (IF e = "last" THEN 1 ELSE 0)
    <2>1. /\ history' \in Seq(Events)
          /\ Len(history') = Len(history) + 1
          /\ \A i \in 1 .. Len(history) : history'[i] = history[i]
          /\ history'[Len(history) + 1] = e
      BY <1>1, <1>3, AppendProperties DEF Written
    <2>2. DOMAIN history' = 1 .. (Len(history) + 1)
      BY <2>1, LenProperties
    <2>3. Lasts' = Lasts \union (IF e = "last" THEN {Len(history) + 1} ELSE {})
      BY <1>1, <2>1, <2>2 DEF Lasts
    <2>4. Len(history) + 1 \notin Lasts
      BY <1>1 DEF Lasts
    <2>5. CASE e = "last"
      <3>1. Lasts' = Lasts \union {Len(history) + 1}
        BY <2>3, <2>5
      <3> QED
        BY <1>2, <2>4, <2>5, <3>1, FS_AddElement
    <2>6. CASE e # "last"
      BY <1>2, <2>3, <2>6
    <2> QED
      BY <2>5, <2>6
  <1> QED
    BY <1>2, <1>3

\* A step that opens an invocation finds the others closed, and no step closes
\* one that is closed.
LEMMA ClosedStep == Placed /\ ClosedOnce /\ [Next]_vars => ClosedOnce'
  <1> SUFFICES ASSUME Placed, ClosedOnce, [Next]_vars PROVE ClosedOnce'
    OBVIOUS
  <1> USE DEF Placed
  <1>0. /\ Cardinality(Started) =
            Cardinality(Lasts) + (IF terminal \/ history = <<>> THEN 0 ELSE 1)
        /\ ClosedOnce' <=>
            (Cardinality(Started') =
             Cardinality(Lasts') + (IF terminal' \/ history' = <<>> THEN 0 ELSE 1))
    BY DEF ClosedOnce, Lasts
  <1>1. CASE UNCHANGED <<history, terminal>> /\ Started' = Started
    BY <1>0, <1>1 DEF Lasts
  <1>2. ASSUME NEW e \in Events, Written(e)
        PROVE  ClosedOnce'
    <2>0. Append(history, e) # <<>>
      BY AppendProperties DEF TypeOK
    <2>1. /\ history' # <<>> /\ history # <<>> /\ ~terminal
          /\ Started' = Started /\ terminal' = (e = "last")
      BY <1>2, <2>0 DEF Written
    <2>2. /\ Cardinality(Lasts) \in Nat
          /\ Cardinality(Lasts') = Cardinality(Lasts) + (IF e = "last" THEN 1 ELSE 0)
      BY <1>2, LastsChange
    <2>3. Cardinality(Started) = Cardinality(Lasts) + 1
      BY <1>0, <2>1
    <2>4. CASE e = "last"
      <3>1. terminal'
        BY <2>1, <2>4
      <3>2. Cardinality(Started') = Cardinality(Lasts') + 0
        BY <2>1, <2>2, <2>3, <2>4
      <3> QED
        BY <1>0, <3>1, <3>2
    <2>5. CASE e # "last"
      <3>1. ~terminal' /\ history' # <<>>
        BY <2>1, <2>5
      <3>2. Cardinality(Started') = Cardinality(Lasts') + 1
        BY <2>1, <2>2, <2>3, <2>5
      <3> QED
        BY <1>0, <3>1, <3>2
    <2> QED
      BY <2>4, <2>5
  <1>3. ASSUME NEW s \in Streams, Start(s)
        PROVE  ClosedOnce'
    <2>0. Started = {} /\ 1 \in Tasks
      BY <1>3, MaxTasksAssumption DEF InOrder, Start, Tasks
    <2>1. Started' = {1}
      BY <1>3, <2>0 DEF Start, Started, TypeOK
    <2>2. Cardinality(Started') = 1
      BY <2>1, FS_Singleton
    <2>3. Lasts' = {}
      <3>1. DOMAIN history' = {1} /\ history'[1] = "event"
        BY <1>3 DEF Start
      <3> QED
        BY <3>1 DEF Lasts
    <2>4. terminal' = FALSE /\ history' # <<>>
      BY <1>3 DEF Start, InOrder, TypeOK
    <2> QED
      BY <1>0, <2>2, <2>3, <2>4, FS_EmptySet
  <1>4. ASSUME NEW s \in Streams, ResumeRun(s)
        PROVE  ClosedOnce'
    <2>1. /\ terminal /\ terminal' = FALSE /\ history' = history
      BY <1>4 DEF ResumeRun
    <2>2. history # <<>>
      BY <2>1 DEF InOrder
    <2>3. PICK k \in 0 .. MaxTasks : Started = 1 .. k
      BY DEF InOrder
    <2>4. Cardinality(Started) = k
      BY <2>3, StartedCount
    <2>5. k + 1 \in Tasks /\ task' = [task EXCEPT ![k + 1] = "running"]
      BY <1>4, <2>4 DEF ResumeRun
    <2>6. Started' = Started \union {k + 1}
      BY <2>5 DEF Started, TypeOK
    <2>7. Started' = 1 .. (k + 1)
      BY <2>3, <2>6, MaxTasksAssumption
    <2>8. k + 1 \in Int /\ 1 \in Int /\ k \in Nat
      BY MaxTasksAssumption
    <2>9. Cardinality(Started') = k + 1
      BY <2>7, <2>8, FS_Interval
    <2>10. Lasts' = Lasts /\ Cardinality(Lasts) \in Nat
      BY <2>1, LastsChange DEF Lasts
    <2> QED
      BY <1>0, <2>1, <2>2, <2>4, <2>8, <2>9, <2>10
  <1> QED
    BY <1>1, <1>2, <1>3, <1>4, LogChange

\* Every invocation is closed by one terminal event and no more.
THEOREM ClosedByOne == Spec => []ClosedOnce
  <1>1. Init => ClosedOnce
    <2> SUFFICES ASSUME Init PROVE ClosedOnce
      OBVIOUS
    <2>1. Started = {} /\ {i \in DOMAIN history : history[i] = "last"} = {}
      BY DEF Init, Started
    <2> QED
      BY <2>1, FS_EmptySet DEF Init, ClosedOnce
  <1> QED
    BY <1>1, PlacedAlways, ClosedStep, PTL DEF Spec

-----------------------------------------------------------------------------
(* Nothing gets lost on the way to a subscriber.                           *)

\* No two notices are of one event.
Distinct == \A m, n \in notices : m.event = n.event => m = n

\* The events that the notices ns bring to s.
Brought(s, ns) == {n.event : n \in {m \in ns : s \in m.to}}

\* What Delivered says of one response.
Joined(s) ==
    /\ \A i, j \in DOMAIN queue[s] : i < j => queue[s][i] < queue[s][j]
    /\ \A m \in Queued(s), n \in Incoming(s) : m < n
    /\ Queued(s) \union Incoming(s) = (sent[s] + 1 .. Len(history)) \ lost[s]

\* Taking another response out of notices changes nothing for this one.
LEMMA WithoutBrings ==
    ASSUME NEW k \in Nat, NEW ns, ns \subseteq Notices(k), NEW r, NEW s, r # s
    PROVE  Brought(s, Without(r, ns)) = Brought(s, ns)
  <1>1. /\ \A x \in Without(r, ns) : \E m \in ns : Shortened(x, m, r)
        /\ \A m \in ns : \E x \in Without(r, ns) : Shortened(x, m, r)
    BY WithoutTyped
  <1>2. ASSUME NEW e \in Brought(s, Without(r, ns))
        PROVE  e \in Brought(s, ns)
    <2>1. PICK x \in Without(r, ns) : s \in x.to /\ e = x.event
      BY DEF Brought
    <2>2. PICK m \in ns : Shortened(x, m, r)
      BY <1>1
    <2> QED
      BY <2>1, <2>2 DEF Brought, Shortened
  <1>3. ASSUME NEW e \in Brought(s, ns)
        PROVE  e \in Brought(s, Without(r, ns))
    <2>1. PICK m \in ns : s \in m.to /\ e = m.event
      BY DEF Brought
    <2>2. PICK x \in Without(r, ns) : Shortened(x, m, r)
      BY <1>1
    <2> QED
      BY <2>1, <2>2 DEF Brought, Shortened
  <1> QED
    BY <1>2, <1>3

\* Taking a response out of notices keeps them distinct.
LEMMA WithoutDistinct ==
    ASSUME NEW k \in Nat, NEW ns, ns \subseteq Notices(k), NEW s,
           \A m, n \in ns : m.event = n.event => m = n
    PROVE  \A x, y \in Without(s, ns) : x.event = y.event => x = y
  <1> SUFFICES ASSUME NEW x \in Without(s, ns), NEW y \in Without(s, ns),
                      x.event = y.event
               PROVE  x = y
    OBVIOUS
  <1>1. /\ \A z \in Without(s, ns) : \E m \in ns : Shortened(z, m, s)
        /\ Without(s, ns) \subseteq Notices(k)
    BY WithoutTyped
  <1>2. PICK m \in ns : Shortened(x, m, s)
    BY <1>1
  <1>3. PICK n \in ns : Shortened(y, n, s)
    BY <1>1
  <1>4. m = n
    BY <1>2, <1>3 DEF Shortened
  <1>5. x \in Notices(k) /\ y \in Notices(k)
    BY <1>1
  <1>6. x.by = y.by /\ x.event = y.event /\ x.to = y.to
    BY <1>2, <1>3, <1>4 DEF Shortened
  <1> QED
    BY <1>5, <1>6 DEF Notices

\* What is queued are numbers of events.
LEMMA QueueFacts ==
    ASSUME TypeOK, NEW s \in Streams
    PROVE  /\ queue[s] \in Seq(Nat)
           /\ Len(queue[s]) \in Nat /\ DOMAIN queue[s] = 1 .. Len(queue[s])
           /\ \A i \in 1 .. Len(queue[s]) : queue[s][i] \in 1 .. Len(history)
           /\ Queued(s) = {queue[s][i] : i \in 1 .. Len(queue[s])}
           /\ Queued(s) \subseteq 1 .. Len(history)
           /\ Len(history) \in Nat
           /\ sent[s] \in 0 .. Len(history) /\ lost[s] \subseteq 1 .. Len(history)
           /\ \A m \in notices : m.event \in 1 .. Len(history)
  <1>1. queue[s] \in Seq(1 .. Len(history)) /\ history \in Seq(Events)
    BY DEF TypeOK
  <1>2. Len(queue[s]) \in Nat /\ DOMAIN queue[s] = 1 .. Len(queue[s])
        /\ Len(history) \in Nat
    BY <1>1, LenProperties
  <1>3. \A i \in 1 .. Len(queue[s]) : queue[s][i] \in 1 .. Len(history)
    BY <1>1, ElementOfSeq
  <1>4. queue[s] \in Seq(Nat)
    <2>1. 1 .. Len(history) \subseteq Nat
      OBVIOUS
    <2> QED
      BY <1>1, <2>1, SeqMonotonic
  <1>5. Queued(s) = {queue[s][i] : i \in 1 .. Len(queue[s])}
    BY <1>2 DEF Queued
  <1> QED
    BY <1>2, <1>3, <1>4, <1>5 DEF TypeOK

\* A step keeps notices distinct: a new one is of the new event.
LEMMA StepDistinct == Placed /\ Distinct /\ [Next]_vars => Distinct'
  <1> SUFFICES ASSUME Placed, Distinct, [Next]_vars PROVE Distinct'
    OBVIOUS
  <1> USE DEF Placed
  <1>0. Len(history) \in Nat /\ notices \subseteq Notices(Len(history))
    BY LenProperties DEF TypeOK, Notices
  <1>1. ASSUME notices' \subseteq notices
        PROVE  Distinct'
    BY <1>1 DEF Distinct
  <1>2. ASSUME NEW p, NEW e, NEW to, NEW ns, ns \subseteq Notices(Len(history)),
               \A m, n \in ns : m.event = n.event => m = n,
               Write(p, e, to, ns)
        PROVE  Distinct'
    <2>1. \A m \in ns : m.event # Len(history) + 1
      BY <1>0, <1>2 DEF Notices
    <2> QED
      BY <1>2, <2>1 DEF Distinct, Write
  <1>3. ASSUME NEW s, NEW cut, Withdraw(cut, s)
        PROVE  Distinct'
    <2> DEFINE ns == {n \in notices : n.by \notin cut}
    <2>1. /\ ns \subseteq Notices(Len(history))
          /\ \A m, n \in ns : m.event = n.event => m = n
      BY <1>0 DEF Distinct
    <2>2. notices' = Without(s, ns)
      BY <1>3 DEF Withdraw
    <2> HIDE DEF ns
    <2>3. \A m, n \in Without(s, ns) : m.event = n.event => m = n
      BY <1>0, <2>1, WithoutDistinct
    <2> QED
      BY <2>2, <2>3 DEF Distinct
  <1>4. ASSUME NEW t \in Tasks, NEW e, NEW l, Published(t, e, l)
        PROVE  Distinct'
    BY <1>0, <1>2, <1>4 DEF Published, Publish, Distinct
  <1>5. CASE Shutdown
    BY <1>0, <1>1, <1>2, <1>5 DEF Shutdown, Distinct, log
  <1>6. ASSUME NEW s \in Streams, LeaveWaiting(s)
        PROVE  Distinct'
    <2>1. /\ Without(s, notices) \subseteq Notices(Len(history))
          /\ \A m, n \in Without(s, notices) : m.event = n.event => m = n
      BY <1>0, WithoutDistinct, WithoutTyped DEF Distinct
    <2> QED
      BY <1>2, <1>6, <2>1 DEF LeaveWaiting
  <1>7. ASSUME NEW s \in Streams, Left(s) \/ LeaveAlone(s)
        PROVE  Distinct'
    BY <1>3, <1>7 DEF Left, Leave, LeaveAlone, Finally
  <1>8. CASE Deliver
    BY <1>1, <1>8 DEF Deliver, Put
  <1> QED
    BY <1>1, <1>4, <1>5, <1>6, <1>7, <1>8, StepForms
    DEF vars, log, Advanced, Start, View, ResumeRun, Enter, Open, Frame, Wait,
        LeaveOpening, LeaveSending

\* A response that nothing happens to, in a step that writes no event.
LEMMA JoinedKept ==
    ASSUME NEW s \in Streams, Joined(s), Len(history') = Len(history),
           queue'[s] = queue[s], sent'[s] = sent[s], lost'[s] = lost[s],
           Incoming(s)' = Incoming(s)
    PROVE  Joined(s)'
  BY DEF Joined, Queued

\* A new event is on its way to every subscriber.
LEMMA JoinedWrite ==
    ASSUME Placed, NEW s \in Streams, Joined(s), NEW p, NEW e \in Events, NEW to,
           NEW ns, Brought(s, ns) = Incoming(s), Write(p, e, to, ns), s \in to,
           queue'[s] = queue[s], sent'[s] = sent[s], lost'[s] = lost[s]
    PROVE  Joined(s)'
  <1>1. Len(history') = Len(history) + 1
    BY AppendProperties DEF Write, Placed, TypeOK
  <1>2. notices' = ns \union {[by |-> p, event |-> Len(history) + 1, to |-> to]}
    BY DEF Write
  <1>3. Brought(s, {[by |-> p, event |-> Len(history) + 1, to |-> to]}) =
            {Len(history) + 1}
    <2> DEFINE new == [by |-> p, event |-> Len(history) + 1, to |-> to]
    <2>1. new.event = Len(history) + 1 /\ s \in new.to
      OBVIOUS
    <2> HIDE DEF new
    <2>2. Brought(s, {new}) = {Len(history) + 1}
      BY <2>1 DEF Brought
    <2> QED
      BY <2>2 DEF new
  <1>4. Incoming(s)' = Brought(s, ns) \union {Len(history) + 1}
    BY <1>2, <1>3 DEF Incoming, Brought
  <1>5. /\ Len(history) \in Nat /\ Queued(s) \subseteq 1 .. Len(history)
        /\ lost[s] \subseteq 1 .. Len(history) /\ sent[s] \in 0 .. Len(history)
    BY QueueFacts DEF Placed
  <1>6. ((sent[s] + 1) .. (Len(history) + 1)) \ lost[s] =
            (((sent[s] + 1) .. Len(history)) \ lost[s]) \union {Len(history) + 1}
    BY <1>5
  <1>7. Queued(s)' = Queued(s)
    BY DEF Queued
  <1>8. \A m \in Queued(s)', n \in Incoming(s)' : m < n
    BY <1>4, <1>5, <1>7 DEF Joined
  <1>9. Queued(s)' \union Incoming(s)' =
            (Queued(s) \union Incoming(s)) \union {Len(history) + 1}
    BY <1>4, <1>7
  <1> QED
    BY <1>1, <1>6, <1>8, <1>9 DEF Joined

\* The first event on its way joins the end of the queue.
LEMMA JoinedDeliver ==
    ASSUME Placed, Distinct, NEW s \in Streams, Joined(s), Deliver
    PROVE  Joined(s)'
  <1> USE DEF Placed, TypeOK
  <1>1. PICK n \in notices : (\A m \in notices : n.event <= m.event) /\ Put(n)
    BY DEF Deliver
  <1>2. /\ notices' = notices \ {n} /\ history' = history
        /\ sent' = sent /\ lost' = lost
    BY <1>1 DEF Deliver, Put
  <1>3. queue[s] \in Seq(Nat) /\ \A m \in notices : m.event \in Nat
    BY QueueFacts
  <1>4. CASE s \notin n.to
    <2>1. Incoming(s)' = Incoming(s)
      BY <1>2, <1>4 DEF Incoming
    <2>2. queue'[s] = queue[s]
      BY <1>1, <1>4 DEF Put
    <2> QED
      BY <1>2, <2>1, <2>2, JoinedKept
  <1>5. CASE s \in n.to
    <2>1. queue'[s] = Append(queue[s], n.event)
      BY <1>1, <1>5 DEF Put
    <2> DEFINE l == Len(queue[s])
    <2>2. /\ l \in Nat /\ DOMAIN queue[s] = 1 .. l
          /\ DOMAIN queue'[s] = 1 .. (l + 1)
          /\ \A i \in 1 .. l : queue'[s][i] = queue[s][i] /\ queue[s][i] \in Nat
          /\ queue'[s][l + 1] = n.event
      BY <1>3, <2>1, AppendProperties, LenProperties, ElementOfSeq
    <2> HIDE DEF l
    <2>3. Queued(s)' = Queued(s) \union {n.event}
      <3>1. \A i \in 1 .. (l + 1) : i \in 1 .. l \/ i = l + 1
        BY <2>2
      <3>2. \A i \in 1 .. l : i \in 1 .. (l + 1)
        BY <2>2
      <3>3. l + 1 \in 1 .. (l + 1)
        BY <2>2
      <3>4. ASSUME NEW m \in Queued(s)'
            PROVE  m \in Queued(s) \union {n.event}
        BY <2>2, <3>1 DEF Queued
      <3>5. ASSUME NEW m \in Queued(s) \union {n.event}
            PROVE  m \in Queued(s)'
        BY <2>2, <3>2, <3>3 DEF Queued
      <3> QED
        BY <3>4, <3>5
    <2>4. n.event \in Incoming(s)
      BY <1>5 DEF Incoming
    <2>5. Incoming(s)' = Incoming(s) \ {n.event}
      BY <1>2 DEF Incoming, Distinct
    <2>6. \A m \in Incoming(s) : m \in Nat /\ n.event <= m
      BY <1>1, <1>3 DEF Incoming
    <2>7. \A i \in 1 .. l : queue[s][i] \in Queued(s)
      BY <2>2 DEF Queued
    <2>8. ASSUME NEW i \in 1 .. (l + 1), NEW j \in 1 .. (l + 1), i < j
          PROVE  queue'[s][i] < queue'[s][j]
      <3>1. i \in 1 .. l /\ (j \in 1 .. l \/ j = l + 1)
        BY <2>2, <2>8
      <3>2. CASE j \in 1 .. l
        BY <2>2, <2>8, <3>1, <3>2 DEF Joined
      <3>3. CASE j = l + 1
        BY <2>2, <2>4, <2>7, <3>1, <3>3 DEF Joined
      <3> QED
        BY <3>1, <3>2, <3>3
    <2>9. \A m \in Queued(s)', k \in Incoming(s)' : m < k
      BY <1>3, <2>3, <2>4, <2>5, <2>6 DEF Joined
    <2>10. Queued(s)' \union Incoming(s)' = Queued(s) \union Incoming(s)
      BY <2>3, <2>4, <2>5
    <2> QED
      BY <1>2, <2>2, <2>8, <2>9, <2>10 DEF Joined
  <1> QED
    BY <1>4, <1>5

\* A frame is of the first event queued, which follows what was sent.
LEMMA JoinedFrame ==
    ASSUME Placed, NEW s \in Streams, Joined(s), Frame(s)
    PROVE  /\ Head(queue[s]) \in Nat /\ sent[s] < Head(queue[s])
           /\ Joined(s)'
  <1> USE DEF Placed, TypeOK
  <1> DEFINE h == Head(queue[s])
             l == Len(queue[s])
  <1>1. queue[s] \in Seq(Nat) /\ queue[s] # <<>>
    BY QueueFacts DEF Frame
  <1>2. /\ l \in Nat \ {0} /\ DOMAIN queue[s] = 1 .. l
        /\ \A i \in 1 .. l : queue[s][i] \in Nat
        /\ h = queue[s][1]
    BY <1>1, LenProperties, ElementOfSeq, EmptySeq
  <1>3. queue'[s] = Tail(queue[s]) /\ sent'[s] = h
        /\ lost'[s] = {n \in lost[s] : n > h} /\ history' = history
        /\ notices' = notices
    BY DEF Frame, log
  <1>4. /\ DOMAIN queue'[s] = 1 .. (l - 1)
        /\ \A i \in 1 .. (l - 1) : queue'[s][i] = queue[s][i + 1]
    BY <1>1, <1>2, <1>3, HeadTailProperties, LenProperties
  <1> HIDE DEF h, l
  <1>5. Queued(s)' = {m \in Queued(s) : m > h}
    <2>1. ASSUME NEW i \in 1 .. l, i # 1
          PROVE  queue[s][i] > h
      <3>1. 1 \in 1 .. l /\ 1 < i
        BY <1>2, <2>1
      <3>2. queue[s][1] < queue[s][i]
        BY <1>2, <3>1 DEF Joined
      <3> QED
        BY <1>2, <3>1, <3>2
    <2>2. ASSUME NEW i \in 1 .. l, i # 1
          PROVE  i - 1 \in 1 .. (l - 1) /\ queue'[s][i - 1] = queue[s][i]
      <3>1. i - 1 \in 1 .. (l - 1) /\ (i - 1) + 1 = i
        BY <1>2, <2>2
      <3> QED
        BY <1>4, <3>1
    <2>3. \A i \in 1 .. (l - 1) : i + 1 \in 1 .. l /\ i + 1 # 1
      BY <1>2
    <2>4. ASSUME NEW m \in Queued(s)'
          PROVE  m \in Queued(s) /\ m > h
      <3>1. PICK i \in 1 .. (l - 1) : m = queue'[s][i]
        BY <1>4 DEF Queued
      <3>2. m = queue[s][i + 1] /\ i + 1 \in 1 .. l /\ i + 1 # 1
        BY <1>4, <2>3, <3>1
      <3> QED
        BY <1>2, <2>1, <3>2 DEF Queued
    <2>5. ASSUME NEW m \in Queued(s), m > h
          PROVE  m \in Queued(s)'
      <3>1. PICK i \in 1 .. l : m = queue[s][i]
        BY <1>2 DEF Queued
      <3>2. i # 1
        BY <1>2, <2>5, <3>1
      <3> QED
        BY <1>4, <2>2, <3>1, <3>2 DEF Queued
    <2>6. \A m : m \in Queued(s)' <=> m \in Queued(s) /\ m > h
      BY <2>4, <2>5
    <2> QED
      BY <2>6
  <1>6. h \in Queued(s)
    <2>1. 1 \in 1 .. l
      BY <1>2
    <2> QED
      BY <1>2, <2>1 DEF Queued
  <1>7. Incoming(s)' = Incoming(s) /\ \A n \in Incoming(s) : h < n
    BY <1>3, <1>6 DEF Incoming, Joined
  <1>8. sent[s] \in Nat /\ Len(history) \in Nat /\ h \in Nat
    BY <1>2, LenProperties
  <1>9. sent[s] < h /\ h <= Len(history)
    BY <1>6, <1>8 DEF Joined
  <1>10. ASSUME NEW i \in 1 .. (l - 1), NEW j \in 1 .. (l - 1), i < j
         PROVE  queue'[s][i] < queue'[s][j]
    <2>1. i + 1 \in 1 .. l /\ j + 1 \in 1 .. l /\ i + 1 < j + 1
      BY <1>2, <1>10
    <2>2. queue[s][i + 1] < queue[s][j + 1]
      BY <1>2, <2>1 DEF Joined
    <2> QED
      BY <1>4, <2>2
  <1>11. \A m \in Queued(s)', n \in Incoming(s)' : m < n
    BY <1>5, <1>7 DEF Joined
  <1>12. Queued(s)' \union Incoming(s)' =
            {m \in Queued(s) \union Incoming(s) : m > h}
    BY <1>5, <1>7 DEF Incoming
  <1>13. {m \in (sent[s] + 1 .. Len(history)) \ lost[s] : m > h} =
            (h + 1 .. Len(history)) \ {n \in lost[s] : n > h}
    BY <1>8, <1>9
  <1>14. Joined(s)'
    BY <1>3, <1>4, <1>10, <1>11, <1>12, <1>13 DEF Joined
  <1> QED
    BY <1>8, <1>9, <1>14 DEF h

\* Puts that are cancelled are lost, and nothing else.
LEMMA JoinedWithdraw ==
    ASSUME Placed, Distinct, NEW r \in Streams, NEW s \in Streams, r # s, Joined(s),
           NEW cut, Withdraw(cut, r), Len(history') = Len(history),
           queue'[s] = queue[s], sent'[s] = sent[s]
    PROVE  Joined(s)'
  <1> USE DEF Placed, TypeOK
  <1> DEFINE kept == {n \in notices : n.by \notin cut}
             gone == {n.event : n \in {m \in notices : m.by \in cut /\ s \in m.to}}
  <1>1. lost'[s] = lost[s] \union gone
    BY DEF Withdraw
  <1>2. Len(history) \in Nat /\ notices \subseteq Notices(Len(history))
    BY LenProperties DEF Notices
  <1>3. Incoming(s)' = Brought(s, kept)
    <2>1. kept \subseteq Notices(Len(history))
      BY <1>2
    <2>2. notices' = Without(r, kept)
      BY DEF Withdraw
    <2> HIDE DEF kept
    <2>3. Brought(s, Without(r, kept)) = Brought(s, kept)
      BY <1>2, <2>1, WithoutBrings
    <2> QED
      BY <2>2, <2>3 DEF Incoming, Brought
  <1>4. Brought(s, kept) = Incoming(s) \ gone
    <2>1. ASSUME NEW e \in Brought(s, kept)
          PROVE  e \in Incoming(s) \ gone
      BY <2>1 DEF Brought, Incoming, Distinct
    <2>2. ASSUME NEW e \in Incoming(s), e \notin gone
          PROVE  e \in Brought(s, kept)
      BY <2>2 DEF Brought, Incoming
    <2> QED
      BY <2>1, <2>2
  <1>5. gone \subseteq Incoming(s)
    BY DEF Incoming
  <1>6. Queued(s) \intersect gone = {}
    <2>1. \A m \in Queued(s) : m \in Int
      BY QueueFacts
    <2>2. \A m \in Queued(s) : ~(m < m)
      BY <2>1
    <2> QED
      BY <1>5, <2>2 DEF Joined
  <1>7. Queued(s)' = Queued(s)
    BY DEF Queued
  <1> HIDE DEF kept, gone
  <1>8. Queued(s)' \union Incoming(s)' = (Queued(s) \union Incoming(s)) \ gone
    BY <1>3, <1>4, <1>6, <1>7
  <1> QED
    BY <1>1, <1>3, <1>4, <1>7, <1>8 DEF Joined

\* A step keeps what Delivered says, and whoever subscribes has all there is.
LEMMA StepJoined ==
    ASSUME Placed, Distinct, \A r \in subscribers : Joined(r), [Next]_vars,
           NEW s \in subscribers'
    PROVE  Joined(s)'
  <1> USE DEF Placed
  <1>0. s \in Streams /\ subscribers \subseteq Streams /\ Len(history) \in Nat
        /\ notices \subseteq Notices(Len(history)) /\ "last" \in Events
    BY StepTyped, LenProperties DEF TypeOK, Notices, Events
  <1>1. ASSUME s \in subscribers, history' = history, queue'[s] = queue[s],
               sent'[s] = sent[s], lost'[s] = lost[s], notices' = notices
        PROVE  Joined(s)'
    BY <1>0, <1>1, JoinedKept DEF Incoming
  <1>2. CASE Deliver
    BY <1>0, <1>2, JoinedDeliver DEF Deliver
  <1>3. CASE Shutdown
    <2>1. subscribers = {} /\ subscribers' = subscribers
      BY <1>0, <1>3 DEF Shutdown, Seated
    <2> QED
      BY <2>1
  <1>4. ASSUME NEW t \in Tasks, NEW e \in Events, NEW l, Published(t, e, l)
        PROVE  Joined(s)'
    <2>1. /\ Write(t, e, subscribers, notices)
          /\ UNCHANGED <<subscribers, queue, sent, lost>>
      BY <1>4 DEF Published, Publish, Working, response
    <2> QED
      BY <1>0, <2>1, JoinedWrite DEF Incoming, Brought
  <1>5. ASSUME NEW r \in Streams, NEW t, NEW k, Enter(r, t, k)
        PROVE  s # r /\ s \in subscribers
               /\ queue'[s] = queue[s] /\ sent'[s] = sent[s]
               /\ lost'[s] = lost[s] /\ notices' = notices
    BY <1>0, <1>5 DEF Enter, Seated, TypeOK
  <1>6. ASSUME NEW r \in Streams, Start(r)
        PROVE  Joined(s)'
    BY <1>0, <1>6 DEF Start, Enter, InOrder, Seated
  <1>7. ASSUME NEW r \in Streams, Open(r)
        PROVE  Joined(s)'
    <2>1. CASE s = r
      <3>1. stream[s] = "opening"
        BY <1>7, <2>1 DEF Open
      <3>2. queue[s] = <<>> /\ s \notin subscribers
        BY <1>0, <3>1 DEF Seated
      <3>3. Queued(s)' = {} /\ Incoming(s)' = {} /\ DOMAIN queue'[s] = {}
        BY <1>7, <2>1, <3>2 DEF Open, Queued, Incoming, Aimed, log
      <3>4. sent'[s] = Len(history) /\ history' = history
        BY <1>0, <1>7, <2>1 DEF Open, log, TypeOK
      <3>5. Len(history) + 1 .. Len(history) = {}
        BY <1>0
      <3> QED
        BY <3>3, <3>4, <3>5 DEF Joined
    <2>2. CASE s # r
      <3>1. s \in subscribers
        BY <1>7, <2>2 DEF Open
      <3> QED
        BY <1>1, <1>7, <2>2, <3>1 DEF Open, log, TypeOK
    <2> QED
      BY <2>1, <2>2
  <1>8. ASSUME NEW r \in Streams, Frame(r)
        PROVE  Joined(s)'
    <2>1. CASE s = r
      BY <1>0, <1>8, <2>1, JoinedFrame DEF Frame
    <2>2. CASE s # r
      BY <1>1, <1>8, <2>2 DEF Frame, log, TypeOK
    <2> QED
      BY <2>1, <2>2
  <1>9. ASSUME NEW r \in Streams, Finally(r), history' = history
        PROVE  Joined(s)'
    <2>1. s # r /\ s \in subscribers
      BY <1>9 DEF Finally, Gone
    <2>2. queue'[s] = queue[s] /\ sent'[s] = sent[s]
      BY <1>9, <2>1 DEF Finally, Gone, TypeOK
    <2>3. Joined(s) /\ Len(history') = Len(history)
      BY <1>9, <2>1
    <2>4. PICK cut : Withdraw(cut, r)
      BY <1>9 DEF Finally
    <2> QED
      BY <1>0, <2>1, <2>2, <2>3, <2>4, JoinedWithdraw
  <1>10. ASSUME NEW r \in Streams, LeaveAlone(r)
         PROVE  Joined(s)'
    <2>1. terminal
      BY <1>10 DEF LeaveAlone, Finally, Gone
    <2> QED
      BY <1>9, <1>10, <2>1 DEF LeaveAlone
  <1>11. ASSUME NEW r \in Streams, LeaveOpening(r)
         PROVE  Joined(s)'
    BY <1>1, <1>11 DEF LeaveOpening, Gone, log, TypeOK
  <1>12. ASSUME NEW r \in Streams, LeaveWaiting(r)
         PROVE  Joined(s)'
    <2> DEFINE others == subscribers \ {r}
    <2>1. /\ Write(r, "last", others, Without(r, notices))
          /\ s \in others /\ s # r
          /\ UNCHANGED <<queue, sent, lost>>
      BY <1>12 DEF LeaveWaiting, Interrupt
    <2>2. Joined(s)
      BY <2>1
    <2> HIDE DEF others
    <2>3. Brought(s, Without(r, notices)) = Brought(s, notices)
      BY <1>0, <2>1, WithoutBrings
    <2>4. Brought(s, notices) = Incoming(s)
      BY DEF Incoming, Brought
    <2> QED
      BY <1>0, <2>1, <2>2, <2>3, <2>4, JoinedWrite
  <1> QED
    BY <1>1, <1>2, <1>3, <1>4, <1>5, <1>6, <1>7, <1>8, <1>9, <1>10, <1>11, <1>12,
       StepForms
    DEF vars, log, response, Advanced, Working, View, ResumeRun, Wait, Left, Leave,
        LeaveSending, Interrupt

\* The strengthened invariant is inductive.
LEMMA DeliveredAlways == Spec => [](Placed /\ Distinct /\ Delivered)
  <1>1. Init => Distinct /\ Delivered
    BY DEF Init, Distinct, Delivered
  <1>2. Delivered <=> \A s \in subscribers : Joined(s)
    BY DEF Delivered, Joined
  <1>3. Placed /\ Distinct /\ Delivered /\ [Next]_vars => Delivered'
    <2> SUFFICES ASSUME Placed, Distinct, Delivered, [Next]_vars,
                        NEW s \in subscribers'
                 PROVE  Joined(s)'
      BY DEF Delivered, Joined
    <2> QED
      BY <1>2, StepJoined
  <1> QED
    BY <1>1, <1>3, PlacedAlways, StepDistinct, PTL DEF Spec

\* What a subscriber has queued and what is being put there are, in order, the
\* events that follow what it has sent, but for those whose put was cancelled.
THEOREM NothingLost == Spec => []Delivered
  BY DeliveredAlways, PTL

-----------------------------------------------------------------------------
(* The stream implements a replayable log.                                 *)

\* The stream starts as an empty log that nobody has read.
LEMMA LogInit == Init => Log!Init
  BY DEF Init, Log!Init

\* Writing an event to an open run writes it to the log.
LEMMA LogWrite ==
    ASSUME NEW e \in Events, ~terminal, history' = Append(history, e),
           terminal' = (e = "last"),
           \/ UNCHANGED sent
           \/ e = "last" /\ \E s \in Streams : sent' = [sent EXCEPT ![s] = 0]
    PROVE  Log!Next
  <1>1. ~terminal' <=> e \notin {"last"}
    OBVIOUS
  <1> QED
    BY <1>1 DEF Log!Next, Log!Write

\* A response that is gone has left the log.
LEMMA LogLeave ==
    ASSUME Placed, NEW s \in Streams, UNCHANGED <<history, terminal>>,
           sent' = [sent EXCEPT ![s] = 0]
    PROVE  Log!Next
  <1>1. 0 \in 0 .. Len(history)
    BY LenProperties DEF Placed, TypeOK
  <1> QED
    BY <1>1 DEF Log!Next, Log!Leave

\* A response that sends a later event has read on.
LEMMA LogRead ==
    ASSUME Placed, NEW s \in Streams, UNCHANGED <<history, terminal>>,
           NEW n \in 0 .. Len(history), sent[s] < n \/ sent[s] = n,
           sent' = [sent EXCEPT ![s] = n]
    PROVE  Log!Next \/ UNCHANGED Log!vars
  <1>1. CASE sent[s] = n
    <2>1. sent' = sent
      BY <1>1 DEF Placed, TypeOK
    <2> QED
      BY <2>1 DEF Log!vars
  <1>2. CASE sent[s] < n
    <2>1. n <= Len(history)
      BY LenProperties DEF Placed, TypeOK
    <2> QED
      BY <1>2, <2>1 DEF Log!Next, Log!Read
  <1> QED
    BY <1>1, <1>2

\* Each step of the stream is one of the log or leaves it alone.
LEMMA LogStep ==
    Placed /\ Delivered /\ [Next]_vars => [Log!Next]_Log!vars
  <1> SUFFICES ASSUME Placed, Delivered, [Next]_vars
               PROVE  Log!Next \/ UNCHANGED Log!vars
    OBVIOUS
  <1> USE DEF Placed
  <1>0. /\ history \in Seq(Events) /\ Len(history) \in Nat
        /\ 0 \in 0 .. Len(history) /\ Len(history) \in 0 .. Len(history)
        /\ "last" \in Events /\ "event" \in Events
        /\ \A r \in Streams : sent[r] \in 0 .. Len(history)
    BY LenProperties DEF TypeOK, Events
  <1>1. CASE UNCHANGED <<history, terminal, sent>>
    BY <1>1 DEF Log!vars
  <1>2. CASE Shutdown
    BY <1>0, <1>1, <1>2, LogWrite DEF Shutdown, Write, log, response, TypeOK
  <1>3. ASSUME NEW t \in Tasks, NEW e \in Events, NEW l, Published(t, e, l)
        PROVE  Log!Next
    BY <1>3, LogWrite DEF Published, Publish, Write, Working, response, TypeOK
  <1>4. ASSUME NEW s \in Streams, Start(s)
        PROVE  Log!Next
    <2>1. /\ history = <<>> /\ sent[s] = 0 /\ ~terminal
      BY <1>4 DEF Start, Enter, Seated, InOrder
    <2>2. history' = Append(history, "event")
      <3>1. Append(<<>>, "event") = <<"event">>
        OBVIOUS
      <3> QED
        BY <1>4, <2>1, <3>1 DEF Start
    <2>3. sent' = sent
      BY <1>4, <2>1 DEF Start, Enter, TypeOK
    <2>4. terminal' = ("event" = "last")
      BY <1>4, <2>1 DEF Start, TypeOK
    <2> QED
      BY <1>0, <2>1, <2>2, <2>3, <2>4, LogWrite
  <1>5. ASSUME NEW s \in Streams, ResumeRun(s)
        PROVE  Log!Next
    <2>1. /\ terminal /\ terminal' = FALSE /\ history' = history /\ sent[s] = 0
          /\ sent' = [sent EXCEPT ![s] = Len(history)]
      BY <1>5 DEF ResumeRun, Enter, Seated
    <2> QED
      BY <2>1 DEF Log!Next, Log!Reopen
  <1>6. ASSUME NEW s \in Streams, NEW k \in {0, Len(history)}, View(s, k)
        PROVE  Log!Next \/ UNCHANGED Log!vars
    <2>1. /\ sent[s] = 0 /\ sent' = [sent EXCEPT ![s] = k]
          /\ UNCHANGED <<history, terminal>>
      BY <1>6 DEF View, Enter, Seated
    <2>2. k \in 0 .. Len(history) /\ (sent[s] < k \/ sent[s] = k)
      BY <1>0, <2>1
    <2> QED
      BY <2>1, <2>2, LogRead
  <1>7. ASSUME NEW s \in Streams, Open(s)
        PROVE  Log!Next \/ UNCHANGED Log!vars
    <2>1. sent[s] < Len(history) \/ sent[s] = Len(history)
      BY <1>0
    <2> QED
      BY <1>0, <1>7, <2>1, LogRead DEF Open, log
  <1>8. ASSUME NEW s \in Streams, Frame(s)
        PROVE  Log!Next \/ UNCHANGED Log!vars
    <2>1. s \in subscribers
      BY <1>8 DEF Frame, Seated
    <2>2. Joined(s)
      BY <2>1 DEF Delivered, Joined
    <2>3. sent[s] < Head(queue[s])
      BY <1>8, <2>2, JoinedFrame
    <2>4. Head(queue[s]) \in 0 .. Len(history)
      <3>1. sent'[s] = Head(queue[s]) /\ history' = history
        BY <1>8 DEF Frame, log, TypeOK
      <3> QED
        BY <3>1, StepTyped DEF TypeOK
    <2> QED
      BY <1>8, <2>3, <2>4, LogRead DEF Frame, log
  <1>9. ASSUME NEW s \in Streams, Left(s) \/ LeaveOpening(s)
        PROVE  Log!Next
    BY <1>9, LogLeave DEF Left, Leave, Finally, LeaveOpening, Gone, log
  <1>10. ASSUME NEW s \in Streams, LeaveWaiting(s)
         PROVE  Log!Next
    BY <1>0, <1>10, LogWrite DEF LeaveWaiting, Interrupt, Write, TypeOK
  <1>11. ASSUME NEW s \in Streams, LeaveAlone(s)
         PROVE  Log!Next
    <2>1. sent' = [sent EXCEPT ![s] = 0] /\ terminal' = TRUE
      BY <1>11 DEF LeaveAlone, Finally, Gone
    <2>2. CASE terminal
      BY <1>11, <2>1, <2>2, LogLeave DEF LeaveAlone, TypeOK
    <2>3. CASE ~terminal
      BY <1>0, <1>11, <2>1, <2>3, LogWrite DEF LeaveAlone
    <2> QED
      BY <2>2, <2>3
  <1> QED
    BY <1>1, <1>2, <1>3, <1>4, <1>5, <1>6, <1>7, <1>8, <1>9, <1>10, <1>11, StepForms
    DEF vars, log, response, Deliver, Advanced, Working, Wait, LeaveSending, Interrupt

\* Readers are handed the events of one log in its order and none twice, whatever
\* queues, cancelled puts and disconnects do.
THEOREM ReplayableLog == Spec => ImplementsLog
  BY DeliveredAlways, LogInit, LogStep, PTL DEF Spec, ImplementsLog, Log!Spec

-----------------------------------------------------------------------------
(* Without disconnects.                                                    *)

\* The invocations that may still publish.
Busy == {t \in Tasks : Active(t)}

\* While no client has disconnected, an open run is being worked on by its last
\* invocation, whose response is there and has seen no terminal event since, and
\* what is lost or may be cancelled are terminal events.
Calm ==
    /\ \A s \in Streams : stream[s] \notin {"dropped", "cancelling"}
    /\ \A n \in notices :
        n.by \in Tasks /\ (n.by \in Busy \/ history[n.event] = "last")
    /\ \A t \in Busy : Started = 1 .. t /\ ~terminal /\ \E s \in Streams : owns[s] = t
    /\ ~terminal /\ history # <<>> => Busy # {}
    /\ \A s \in Streams : owns[s] \in Busy =>
        /\ stream[s] # "ending"
        /\ \A i \in DOMAIN history : i > sent[s] => history[i] # "last"
    /\ \A s \in Streams : \A n \in lost[s] : history[n] = "last"

CalmOnce == hangups = 0 => Calm

\* A client that disconnects is counted.
LEMMA HangUpCounts == TypeOK /\ HangUp => hangups' # 0
  BY DEF TypeOK, HangUp

\* Calm speaks of what is in the log by position, which writes keep.
LEMMA EventsKept ==
    ASSUME TypeOK, NEW e \in Events, history' = Append(history, e)
    PROVE  /\ Len(history) \in Nat /\ DOMAIN history = 1 .. Len(history)
           /\ DOMAIN history' = 1 .. (Len(history) + 1)
           /\ \A i \in DOMAIN history : history'[i] = history[i]
           /\ history'[Len(history) + 1] = e
  BY AppendProperties, LenProperties DEF TypeOK

LEMMA BusyTasks == Busy \subseteq Tasks /\ Busy' \subseteq Tasks /\ 0 \notin Tasks
  BY DEF Busy, Tasks

\* The last invocation, if it is active, is the only one.
LEMMA OneActive ==
    ASSUME Calm, NEW t \in Busy, NEW u \in Busy
    PROVE  t = u
  <1>1. 1 .. t = 1 .. u
    BY DEF Calm
  <1>2. t \in Nat \ {0} /\ u \in Nat \ {0}
    BY MaxTasksAssumption DEF Tasks, Busy
  <1>3. t \in 1 .. u /\ u \in 1 .. t
    BY <1>1, <1>2
  <1> QED
    BY <1>2, <1>3

\* An invocation publishes and remains the active one, or ends and leaves none.
LEMMA CalmPublish ==
    ASSUME Placed, Calm, [Next]_vars, NEW t \in Tasks, NEW e \in Events, NEW l,
           Published(t, e, l)
    PROVE  Calm'
  <1> USE DEF Placed
  <1>1. /\ t \in Busy /\ ~terminal /\ ~Waiting(t)
        /\ history' = Append(history, e) /\ terminal' = (terminal \/ e = "last")
        /\ task' = [task EXCEPT ![t] = l]
        /\ \A n \in notices' :
            \/ n \in notices
            \/ n.by = t /\ n.event = Len(history) + 1
        /\ UNCHANGED <<stream, owns, sent, lost>>
    <2>1. Write(t, e, subscribers, notices)
      BY DEF Published, Publish
    <2>2. \A n \in notices' :
            \/ n \in notices
            \/ n.by = t /\ n.event = Len(history) + 1
      BY <2>1 DEF Write
    <2> QED
      BY <2>1, <2>2 DEF Published, Publish, Write, Working, response, Busy
  <1>2. /\ Len(history) \in Nat /\ DOMAIN history = 1 .. Len(history)
        /\ DOMAIN history' = 1 .. (Len(history) + 1)
        /\ \A i \in DOMAIN history : history'[i] = history[i]
        /\ history'[Len(history) + 1] = e
    BY <1>1, EventsKept
  <1>3. Started' = Started
    BY <1>1, GoingOn DEF Published, Busy, Active
  <1>4. /\ \A n \in notices : n.event \in DOMAIN history
        /\ \A s \in Streams : lost[s] \subseteq DOMAIN history
    BY <1>2 DEF TypeOK
  <1>5. \A s \in Streams : \A n \in lost'[s] : history'[n] = "last"
    BY <1>1, <1>2, <1>4 DEF Calm
  <1>6. \A u : u # t => (u \in Busy' <=> u \in Busy)
    BY <1>1 DEF Busy, Active, TypeOK
  <1>7. task'[t] = l
    BY <1>1 DEF TypeOK
  <1>8. CASE e = "event"
    <2>1. t \in Busy' /\ terminal' = terminal
      BY <1>1, <1>7, <1>8 DEF Published, Busy, Active, TypeOK
    <2>2. Busy' = Busy
      <3>1. t \in Busy
        BY <1>1
      <3>2. \A u : u \in Busy' <=> u \in Busy
        BY <1>6, <2>1, <3>1
      <3> QED
        BY <3>2
    <2>3. \A n \in notices' :
            n.by \in Tasks /\ (n.by \in Busy' \/ history'[n.event] = "last")
      BY <1>1, <1>2, <1>4, <2>1, <2>2 DEF Calm
    <2>4. ASSUME NEW s \in Streams, owns'[s] \in Busy'
          PROVE  /\ stream'[s] # "ending"
                 /\ \A i \in DOMAIN history' : i > sent'[s] => history'[i] # "last"
      <3>1. owns[s] \in Tasks /\ owns'[s] = owns[s]
        BY <1>1, <2>4, BusyTasks
      <3>2. owns[s] \in Busy
        BY <2>2, <2>4, <3>1
      <3>3. \A i \in DOMAIN history' : i \in DOMAIN history \/ i = Len(history) + 1
        BY <1>2
      <3> QED
        BY <1>1, <1>2, <1>8, <2>4, <3>1, <3>2, <3>3 DEF Calm
    <2>5. \A u \in Busy' :
            Started' = 1 .. u /\ ~terminal' /\ \E s \in Streams : owns'[s] = u
      BY <1>1, <1>3, <2>1, <2>2 DEF Calm
    <2>6. Busy' # {} /\ \A s \in Streams : stream'[s] \notin {"dropped", "cancelling"}
      BY <1>1, <2>1 DEF Calm
    <2> QED
      BY <1>5, <2>3, <2>4, <2>5, <2>6 DEF Calm
  <1>9. CASE e = "last"
    <2>1. t \notin Busy' /\ terminal'
      BY <1>1, <1>7, <1>9 DEF Published, Busy, Active
    <2>2. Busy' = {}
      BY <1>1, <1>6, <2>1, OneActive
    <2>3. \A n \in notices : n.by \in Tasks /\ history[n.event] = "last"
      BY <1>1, OneActive DEF Calm, Waiting
    <2>4. \A n \in notices' : n.by \in Tasks /\ history'[n.event] = "last"
      BY <1>1, <1>2, <1>4, <1>9, <2>3
    <2>5. \A s \in Streams : owns'[s] \notin Busy'
      BY <1>1, <2>2 DEF Seated, Started
    <2> QED
      BY <1>1, <1>5, <2>1, <2>2, <2>4, <2>5 DEF Calm
  <1> QED
    BY <1>8, <1>9 DEF Events

\* A new invocation is the active one, and its response has seen all there is.
LEMMA CalmEnter ==
    ASSUME Placed, Calm, [Next]_vars, NEW s \in Streams, Start(s) \/ ResumeRun(s)
    PROVE  Calm'
  <1> USE DEF Placed
  <1>1. PICK t \in Tasks :
            /\ t \notin Started /\ Started' = 1 .. t
            /\ task' = [task EXCEPT ![t] = "running"]
            /\ owns' = [owns EXCEPT ![s] = t]
    <2>1. CASE Start(s)
      <3>1. Started = {} /\ 1 \in Tasks
        BY <2>1, MaxTasksAssumption DEF InOrder, Start, Tasks
      <3>2. Started' = 1 .. 1
        BY <2>1, <3>1 DEF Start, Started, TypeOK
      <3> QED
        BY <2>1, <3>1, <3>2 DEF Start, Enter
    <2>2. CASE ResumeRun(s)
      <3>1. PICK k \in 0 .. MaxTasks : Started = 1 .. k
        BY DEF InOrder
      <3>2. Cardinality(Started) = k
        BY <3>1, StartedCount
      <3>3. /\ k + 1 \in Tasks /\ task' = [task EXCEPT ![k + 1] = "running"]
            /\ owns' = [owns EXCEPT ![s] = k + 1]
        BY <2>2, <3>2 DEF ResumeRun, Enter
      <3>4. Started' = Started \union {k + 1}
        BY <3>3 DEF Started, TypeOK
      <3>5. (1 .. k) \union {k + 1} = 1 .. (k + 1) /\ k + 1 \notin 1 .. k
        BY MaxTasksAssumption
      <3> QED
        BY <3>1, <3>3, <3>4, <3>5
    <2> QED
      BY <2>1, <2>2
  <1>2. Busy = {}
    <2>1. CASE Start(s)
      BY <2>1 DEF Start, InOrder, Started, Busy, Active
    <2>2. CASE ResumeRun(s)
      BY <2>2 DEF ResumeRun, Calm
    <2> QED
      BY <2>1, <2>2
  <1>3. Busy' = {t}
    BY <1>1, <1>2 DEF Busy, Active, TypeOK
  <1>4. ~terminal' /\ notices' = notices /\ lost' = lost
        /\ stream' = [stream EXCEPT ![s] = "opening"]
    BY DEF Start, ResumeRun, Enter, InOrder
  <1>5. /\ Len(history) \in Nat /\ DOMAIN history = 1 .. Len(history)
        /\ \A n \in notices : n.event \in DOMAIN history
        /\ \A r \in Streams : lost[r] \subseteq DOMAIN history
    BY LenProperties DEF TypeOK
  <1>6. \A i \in DOMAIN history : history'[i] = history[i]
    <2>1. CASE Start(s)
      <3>1. DOMAIN history = {}
        BY <2>1 DEF Start
      <3> QED
        BY <3>1
    <2>2. CASE ResumeRun(s)
      BY <2>2 DEF ResumeRun
    <2> QED
      BY <2>1, <2>2
  <1>7. \A i \in DOMAIN history' : i > sent'[s] => history'[i] # "last"
    <2>1. CASE Start(s)
      <3>1. DOMAIN history' = {1} /\ history'[1] = "event"
        BY <2>1 DEF Start
      <3> QED
        BY <3>1
    <2>2. CASE ResumeRun(s)
      <3>1. history' = history /\ sent'[s] = Len(history)
        BY <2>2 DEF ResumeRun, Enter, TypeOK
      <3> QED
        BY <1>5, <3>1
    <2> QED
      BY <2>1, <2>2
  <1>8. \A r \in Streams : r # s => owns'[r] = owns[r]
    BY <1>1 DEF TypeOK
  <1>9. owns'[s] = t /\ stream'[s] = "opening"
        /\ \A r \in Streams : r # s => stream'[r] = stream[r]
    BY <1>1, <1>4 DEF TypeOK
  <1>10. \A r \in Streams : owns'[r] \in Busy' => r = s
    <2> SUFFICES ASSUME NEW r \in Streams, owns'[r] \in Busy', r # s
                 PROVE  FALSE
      OBVIOUS
    <2>1. owns[r] \in Started /\ owns'[r] = owns[r]
      BY <1>8, BusyTasks DEF Seated
    <2> QED
      BY <1>1, <1>3, <2>1 DEF Started
  <1>11. \A n \in notices' :
            n.by \in Tasks /\ (n.by \in Busy' \/ history'[n.event] = "last")
    BY <1>2, <1>4, <1>5, <1>6 DEF Calm
  <1>12. \A r \in Streams : \A n \in lost'[r] : history'[n] = "last"
    BY <1>4, <1>5, <1>6 DEF Calm
  <1>13. \A r \in Streams : stream'[r] \notin {"dropped", "cancelling"}
    BY <1>9 DEF Calm
  <1>14. \A u \in Busy' :
            Started' = 1 .. u /\ ~terminal' /\ \E r \in Streams : owns'[r] = u
    BY <1>1, <1>3, <1>4, <1>9
  <1>15. \A r \in Streams : owns'[r] \in Busy' =>
            /\ stream'[r] # "ending"
            /\ \A i \in DOMAIN history' : i > sent'[r] => history'[i] # "last"
    BY <1>7, <1>9, <1>10
  <1> QED
    BY <1>3, <1>11, <1>12, <1>13, <1>14, <1>15 DEF Calm

\* What ends a response is a terminal event after its invocation has ended.
LEMMA CalmFrame ==
    ASSUME Placed, Delivered, Calm, NEW s \in Streams, Frame(s)
    PROVE  Calm'
  <1> USE DEF Placed
  <1> DEFINE h == Head(queue[s])
  <1>1. Joined(s)
    <2>1. s \in subscribers
      BY DEF Frame, Seated
    <2> QED
      BY <2>1 DEF Delivered, Joined
  <1>2. h \in Nat /\ sent[s] < h
    BY <1>1, JoinedFrame
  <1>3. h \in DOMAIN history
    <2>1. queue[s] # <<>> /\ queue[s] \in Seq(1 .. Len(history))
      BY DEF Frame, TypeOK
    <2> QED
      BY <2>1, HeadTailProperties, LenProperties DEF TypeOK
  <1>4. /\ sent' = [sent EXCEPT ![s] = h]
        /\ stream' = [stream EXCEPT ![s] =
                        IF history[h] = "last" THEN "ending" ELSE "sending"]
        /\ lost' = [lost EXCEPT ![s] = {n \in @ : n > h}]
        /\ UNCHANGED <<history, terminal, notices, task, owns>>
    BY DEF Frame, log, agent
  <1> HIDE DEF h
  <1>5. Started' = Started /\ Busy' = Busy
    BY <1>4 DEF Started, Busy, Active
  <1>6. ASSUME NEW r \in Streams, owns'[r] \in Busy'
        PROVE  /\ stream'[r] # "ending"
               /\ \A i \in DOMAIN history' : i > sent'[r] => history'[i] # "last"
    <2>1. owns[r] \in Busy
      BY <1>4, <1>5, <1>6
    <2>2. /\ stream[r] # "ending"
          /\ \A i \in DOMAIN history : i > sent[r] => history[i] # "last"
      BY <2>1 DEF Calm
    <2>3. CASE r = s
      <3>1. history[h] # "last"
        BY <1>2, <1>3, <2>2, <2>3
      <3>2. sent[s] \in Nat /\ \A i \in DOMAIN history : i \in Nat
        BY LenProperties DEF TypeOK
      <3>3. sent'[s] = h /\ stream'[s] = "sending"
        BY <1>4, <3>1 DEF TypeOK
      <3> QED
        BY <1>2, <1>4, <2>2, <2>3, <3>2, <3>3
    <2>4. CASE r # s
      BY <1>4, <2>2, <2>4 DEF TypeOK
    <2> QED
      BY <2>3, <2>4
  <1>7. \A r \in Streams : lost'[r] \subseteq lost[r]
    BY <1>4 DEF TypeOK
  <1>8. \A r \in Streams : stream'[r] \notin {"dropped", "cancelling"}
    BY <1>4 DEF Calm, TypeOK
  <1> QED
    BY <1>4, <1>5, <1>6, <1>7, <1>8 DEF Calm

\* A response that ends cancels an invocation that is over but for the puts of its
\* terminal event.
LEMMA CalmLeft ==
    ASSUME Placed, Calm, NEW s \in Streams, Left(s)
    PROVE  Calm'
  <1> USE DEF Placed
  <1>1. stream[s] = "ending" /\ UNCHANGED <<history, terminal>>
    BY DEF Left, Leave, Calm
  <1>2. /\ Gone(s) /\ Withdraw({s, owns[s]} \ {0}, s)
        /\ task' = [t \in Tasks |-> IF t = owns[s] THEN "over" ELSE task[t]]
    BY DEF Left, Leave, Finally
  <1>3. owns[s] = 0 \/ (owns[s] \in Tasks /\ owns[s] \notin Busy)
    BY <1>1 DEF Calm, Seated, Started
  <1>4. Started' = Started
    BY CancelledOn DEF Left, Leave
  <1>5. Busy' = Busy
    <2>1. \A u \in Tasks : u \in Busy' <=> u \in Busy
      BY <1>2, <1>3, BusyTasks DEF Busy, Active
    <2> QED
      BY <2>1, BusyTasks
  <1>6. \A n \in notices : n.by \in {s, owns[s]} \ {0} => history[n.event] = "last"
    BY <1>3, StreamsAssumption DEF Calm
  <1>7. \A r \in Streams : \A n \in lost'[r] : history'[n] = "last"
    BY <1>1, <1>2, <1>6 DEF Calm, Withdraw
  <1>8. \A x \in notices' : \E m \in notices : x.by = m.by /\ x.event = m.event
    <2> DEFINE ns == {n \in notices : n.by \notin {s, owns[s]} \ {0}}
    <2>1. Len(history) \in Nat /\ ns \subseteq Notices(Len(history))
      BY LenProperties DEF TypeOK, Notices
    <2>2. notices' = Without(s, ns)
      BY <1>2 DEF Withdraw
    <2>3. ns \subseteq notices
      OBVIOUS
    <2> HIDE DEF ns
    <2>4. \A x \in Without(s, ns) : \E m \in ns : Shortened(x, m, s)
      BY <2>1, WithoutTyped
    <2> QED
      BY <2>2, <2>3, <2>4 DEF Shortened
  <1>9. \A x \in notices' :
            x.by \in Tasks /\ (x.by \in Busy' \/ history'[x.event] = "last")
    BY <1>1, <1>5, <1>8 DEF Calm
  <1>10. /\ stream' = [stream EXCEPT ![s] = "idle"] /\ owns' = [owns EXCEPT ![s] = 0]
         /\ sent' = [sent EXCEPT ![s] = 0]
    BY <1>2 DEF Gone
  <1>11. \A u \in Busy' :
            Started' = 1 .. u /\ ~terminal' /\ \E r \in Streams : owns'[r] = u
    <2> SUFFICES ASSUME NEW u \in Busy
                 PROVE  Started' = 1 .. u /\ ~terminal' /\ \E r \in Streams : owns'[r] = u
      BY <1>5
    <2>1. PICK r \in Streams : owns[r] = u
      BY DEF Calm
    <2>2. u # 0
      BY BusyTasks
    <2>3. r # s
      BY <1>3, <2>1, <2>2
    <2> QED
      BY <1>1, <1>4, <1>10, <2>1, <2>3 DEF Calm, TypeOK
  <1>12. \A r \in Streams : stream'[r] \notin {"dropped", "cancelling"}
    BY <1>10 DEF Calm, TypeOK
  <1>13. \A r \in Streams : owns'[r] \in Busy' =>
            /\ stream'[r] # "ending"
            /\ \A i \in DOMAIN history' : i > sent'[r] => history'[i] # "last"
    <2> SUFFICES ASSUME NEW r \in Streams, owns'[r] \in Busy'
                 PROVE  /\ stream'[r] # "ending"
                        /\ \A i \in DOMAIN history' :
                                i > sent'[r] => history'[i] # "last"
      OBVIOUS
    <2>1. r # s
      BY <1>10, BusyTasks DEF TypeOK
    <2>2. owns'[r] = owns[r] /\ stream'[r] = stream[r] /\ sent'[r] = sent[r]
      BY <1>10, <2>1 DEF TypeOK
    <2> QED
      BY <1>1, <1>5, <2>1, <2>2 DEF Calm
  <1> QED
    BY <1>1, <1>5, <1>7, <1>9, <1>11, <1>12, <1>13 DEF Calm

\* What neither writes nor works on the run, and forgets nothing.
LEMMA CalmQuiet ==
    ASSUME Placed, Calm, UNCHANGED <<history, terminal, owns, lost>>,
           notices' \subseteq notices, Started' = Started, Busy' = Busy,
           \A s \in Streams :
                /\ stream'[s] \notin {"dropped", "cancelling"}
                /\ stream'[s] = "ending" => stream[s] = "ending" \/ terminal
                /\ sent'[s] \in Nat /\ sent'[s] >= sent[s]
    PROVE  Calm'
  <1>1. \A s \in Streams : sent[s] \in Nat
    BY DEF Placed, TypeOK
  <1>2. \A i \in DOMAIN history : i \in Nat
    BY LenProperties DEF Placed, TypeOK
  <1>3. ASSUME NEW s \in Streams, owns'[s] \in Busy'
        PROVE  /\ stream'[s] # "ending"
               /\ \A i \in DOMAIN history' : i > sent'[s] => history'[i] # "last"
    <2>1. owns[s] \in Busy
      BY <1>3
    <2>2. /\ stream[s] # "ending" /\ ~terminal
          /\ \A i \in DOMAIN history : i > sent[s] => history[i] # "last"
      BY <2>1 DEF Calm
    <2>3. \A i \in DOMAIN history : i > sent'[s] => i > sent[s]
      BY <1>1, <1>2
    <2> QED
      BY <2>2, <2>3
  <1>4. \A n \in notices' :
            n.by \in Tasks /\ (n.by \in Busy' \/ history'[n.event] = "last")
    BY DEF Calm
  <1>5. \A t \in Busy' :
            Started' = 1 .. t /\ ~terminal' /\ \E s \in Streams : owns'[s] = t
    BY DEF Calm
  <1>6. /\ ~terminal' /\ history' # <<>> => Busy' # {}
        /\ \A s \in Streams : \A n \in lost'[s] : history'[n] = "last"
    BY DEF Calm
  <1> QED
    BY <1>3, <1>4, <1>5, <1>6 DEF Calm

\* An invocation that goes on without publishing remains active, for the run is
\* not terminal.
LEMMA AdvancedBusy ==
    ASSUME TypeOK, Calm, NEW t \in Tasks, NEW l, Advanced(t, l)
    PROVE  Busy' = Busy
  <1>1. task' = [task EXCEPT ![t] = l]
    BY DEF Advanced
  <1>2. \A u \in Tasks : u # t => (u \in Busy' <=> u \in Busy)
    BY <1>1 DEF Busy, Active, TypeOK
  <1>3. t \in Busy' <=> t \in Busy
    <2>1. CASE task[t] = "running" /\ l = "answering"
      BY <1>1, <2>1 DEF Busy, Active, TypeOK
    <2>2. CASE l = "over" /\ task[t] = "published"
      BY <1>1, <2>2 DEF Busy, Active, TypeOK
    <2>3. CASE Active(t) /\ terminal
      BY <2>3 DEF Calm, Busy
    <2> QED
      BY <2>1, <2>2, <2>3 DEF Advanced
  <1> QED
    BY <1>2, <1>3, BusyTasks

LEMMA CalmStep == Placed /\ Delivered /\ CalmOnce /\ [Next]_vars => CalmOnce'
  <1> SUFFICES ASSUME Placed, Delivered, CalmOnce, [Next]_vars, hangups' = 0
               PROVE  Calm'
    BY DEF CalmOnce
  <1> USE DEF Placed
  <1>1. ~HangUp
    BY HangUpCounts
  <1>2. Calm
    <2>1. hangups' = hangups
      BY <1>1, StepForms DEF vars, Deliver, Shutdown, Published, Advanced, Working,
            Start, ResumeRun, View, Enter, Open, Frame, Wait, Left, Leave,
            LeaveOpening, LeaveSending, LeaveWaiting, LeaveAlone, Interrupt
    <2> QED
      BY <2>1 DEF CalmOnce
  <1>3. \A s \in Streams :
            /\ stream[s] \notin {"dropped", "cancelling"}
            /\ sent[s] \in Nat
    BY <1>2 DEF Calm, TypeOK
  <1>4. Len(history) \in Nat /\ \A s \in Streams : sent[s] <= Len(history)
    BY LenProperties DEF TypeOK
  <1>5. ASSUME UNCHANGED vars
        PROVE  Calm'
    <2>1. Started' = Started /\ Busy' = Busy
      BY <1>5 DEF vars, agent, Started, Busy, Active
    <2>2. UNCHANGED <<history, terminal, owns, lost, stream, sent, notices>>
      BY <1>5 DEF vars, log, response
    <2> QED
      BY <1>2, <1>3, <2>1, <2>2, CalmQuiet
  <1>6. ASSUME Deliver
        PROVE  Calm'
    <2>1. Started' = Started /\ Busy' = Busy
      BY <1>6 DEF Deliver, agent, Started, Busy, Active
    <2>2. /\ UNCHANGED <<history, terminal, owns, lost, stream, sent>>
          /\ notices' \subseteq notices
      BY <1>6 DEF Deliver, Put
    <2> QED
      BY <1>2, <1>3, <2>1, <2>2, CalmQuiet
  <1>7. ASSUME Shutdown
        PROVE  Calm'
    <2>1. \A s \in Streams : owns[s] \notin Busy
      BY <1>7, BusyTasks DEF Shutdown, Seated
    <2>2. Busy = {}
      BY <1>2, <2>1 DEF Calm
    <2>3. UNCHANGED <<history, terminal, notices>>
      BY <1>2, <1>7, <2>2 DEF Shutdown, Calm, log
    <2>4. Started' = Started /\ Busy' = Busy
      BY <1>7 DEF Shutdown, agent, Started, Busy, Active
    <2>5. UNCHANGED <<owns, lost, stream, sent>>
      BY <1>7 DEF Shutdown, response
    <2> QED
      BY <1>2, <1>3, <2>3, <2>4, <2>5, CalmQuiet
  <1>8. ASSUME NEW t \in Tasks, NEW l, Advanced(t, l)
        PROVE  Calm'
    <2>1. Busy' = Busy
      BY <1>2, <1>8, AdvancedBusy
    <2>2. Started' = Started
      BY <1>8, GoingOn DEF Advanced, Active
    <2>3. UNCHANGED <<history, terminal, notices, owns, lost, stream, sent>>
      BY <1>8 DEF Advanced, Working, log, response
    <2> QED
      BY <1>2, <1>3, <2>1, <2>2, <2>3, CalmQuiet
  <1>9. ASSUME NEW s \in Streams, NEW k \in {0, Len(history)}, View(s, k)
        PROVE  Calm'
    <2>1. UNCHANGED <<history, terminal, notices, lost>> /\ stream[s] = "idle"
      BY <1>9 DEF View, Enter
    <2>2. Started' = Started /\ Busy' = Busy
      BY <1>9 DEF View, agent, Started, Busy, Active
    <2>3. owns[s] = 0 /\ sent[s] = 0
      BY <2>1 DEF Seated
    <2>4. owns' = owns
      BY <1>9, <2>3 DEF View, Enter, TypeOK
    <2>5. \A r \in Streams :
            /\ stream'[r] = IF r = s THEN "opening" ELSE stream[r]
            /\ sent'[r] = IF r = s THEN k ELSE sent[r]
      BY <1>9 DEF View, Enter, TypeOK
    <2>6. k \in Nat
      BY <1>4
    <2>7. \A r \in Streams :
            /\ stream'[r] \notin {"dropped", "cancelling"}
            /\ stream'[r] = "ending" => stream[r] = "ending" \/ terminal
            /\ sent'[r] \in Nat /\ sent'[r] >= sent[r]
      BY <1>3, <2>3, <2>5, <2>6
    <2> QED
      BY <1>2, <2>1, <2>2, <2>4, <2>7, CalmQuiet
  <1>10. ASSUME NEW s \in Streams, Open(s)
         PROVE  Calm'
    <2>1. UNCHANGED <<history, terminal, notices, owns, lost>>
      BY <1>10 DEF Open, log
    <2>2. Started' = Started /\ Busy' = Busy
      BY <1>10 DEF Open, agent, Started, Busy, Active
    <2>3. \A r \in Streams :
            /\ r # s => stream'[r] = stream[r] /\ sent'[r] = sent[r]
            /\ sent'[s] = Len(history)
            /\ stream'[s] \in {"ending", "waiting", "sending"}
            /\ stream'[s] = "ending" => terminal
      BY <1>10 DEF Open, TypeOK
    <2>4. \A r \in Streams :
            /\ stream'[r] \notin {"dropped", "cancelling"}
            /\ stream'[r] = "ending" => stream[r] = "ending" \/ terminal
            /\ sent'[r] \in Nat /\ sent'[r] >= sent[r]
      BY <1>3, <1>4, <2>3
    <2> QED
      BY <1>2, <2>1, <2>2, <2>4, CalmQuiet
  <1>11. ASSUME NEW s \in Streams, Wait(s)
         PROVE  Calm'
    <2>1. UNCHANGED <<history, terminal, notices, owns, lost, sent>>
      BY <1>11 DEF Wait, log
    <2>2. Started' = Started /\ Busy' = Busy
      BY <1>11 DEF Wait, agent, Started, Busy, Active
    <2>3. \A r \in Streams : stream'[r] \in {stream[r], "waiting"}
      BY <1>11 DEF Wait, TypeOK
    <2> QED
      BY <1>2, <1>3, <2>1, <2>2, <2>3, CalmQuiet
  <1>12. ASSUME NEW s \in Streams,
                LeaveOpening(s) \/ LeaveSending(s) \/ LeaveWaiting(s) \/ LeaveAlone(s)
         PROVE  FALSE
    BY <1>1, <1>12 DEF LeaveOpening, LeaveSending, LeaveWaiting, LeaveAlone, Interrupt
  <1> QED
    BY <1>2, <1>5, <1>6, <1>7, <1>8, <1>9, <1>10, <1>11, <1>12,
       StepForms, CalmPublish, CalmEnter, CalmFrame, CalmLeft

LEMMA CalmInit == Init => CalmOnce
  BY DEF Init, CalmOnce, Calm, Busy, Active

\* While every client stays, a response misses no event but a terminal one, and an
\* open run has an invocation that works on it.
THEOREM OpenIsWorkedOn == Spec => []OnlyDisconnectsHurt
  <1>1. Placed /\ CalmOnce => OnlyDisconnectsHurt
    <2> SUFFICES ASSUME Placed, Calm
                 PROVE  /\ \A s \in Streams, n \in 1 .. Len(history) :
                                n \in lost[s] => history[n] = "last"
                        /\ history # <<>> /\ ~terminal =>
                                \E t \in Started : task[t] # "over"
      BY DEF CalmOnce, OnlyDisconnectsHurt
    <2>1. \A t \in Busy : t \in Started /\ task[t] # "over"
      BY DEF Busy, Active, Started
    <2> QED
      BY <2>1 DEF Calm
  <1> QED
    BY <1>1, DeliveredAlways, CalmInit, CalmStep, PTL DEF Spec
=============================================================================
