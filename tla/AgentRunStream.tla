--------------------------- MODULE AgentRunStream ---------------------------
(***************************************************************************)
(* The event stream of one agent run: AgentRunManager (agent/streaming.py),*)
(* the tasks that publish (_finish_agent_stream_run) and the HTTP          *)
(* responses that read (the stream and resume routes in interfaces/api.py).*)
(* Runs share nothing but the manager's dictionary, so one run stands for  *)
(* all of them.  An event's sequence number is its position in history; of *)
(* its type the model keeps whether it is a terminal one.                  *)
(*                                                                         *)
(* Everything runs in one event loop: what lies between two awaits that    *)
(* can suspend is one step, the bodies of the manager's lock included (no  *)
(* await in them).  _notify does suspend: its puts run, one subscriber     *)
(* after the other, when the loop comes to them, and are cancelled with    *)
(* the task that waits for them if that comes first.                       *)
(*                                                                         *)
(* The server (uvicorn, starlette) cancels a response at the await it is   *)
(* suspended in when its client disconnects: in queue.get that is a        *)
(* CancelledError inside the body's generator; while a frame is sent the   *)
(* error does not enter the generator, which is closed when the loop       *)
(* collects it; before the first frame the generator never runs.           *)
(***************************************************************************)
EXTENDS Naturals, Sequences, FiniteSets

CONSTANTS
    Streams,       \* HTTP responses that may be open at once
    MaxTasks,      \* bound on the invocations of the agent
    MaxProgress,   \* bound on the progress events of an invocation
    MaxHangups     \* bound on the clients that disconnect

ASSUME MaxTasksAssumption == MaxTasks \in Nat \ {0}
ASSUME MaxProgressAssumption == MaxProgress \in Nat
ASSUME MaxHangupsAssumption == MaxHangups \in Nat

VARIABLES
    history,       \* the events of the run, "last" for a terminal one
    terminal,      \* _RunState.terminal
    subscribers,   \* _RunState.subscribers
    closed,        \* AgentRunManager._closed
    pending,       \* whether MainAgent._clarification_runs has the run
    notices,       \* the puts of _notify that have yet to run, by event
    task,          \* where each invocation is
    stream,        \* where each response is
    owns,          \* the invocation whose task it holds, 0 for none
    queue,         \* the live events it has still to send
    sent,          \* the last event it has sent or, at first, the client had
    lost,          \* history: later events that a cancelled put keeps from it
    hangups        \* history: how many clients have disconnected

log == <<history, terminal, notices>>
agent == <<pending, task>>
response == <<stream, owns, queue, sent>>
vars == <<log, subscribers, lost, closed, agent, response, hangups>>

Tasks == 1 .. MaxTasks
Events == {"event", "last"}
Started == {t \in Tasks : task[t] # "none"}

ASSUME StreamsAssumption == Streams \intersect Tasks = {}

\* The task or the response p waits for its puts.
Waiting(p) == \E n \in notices : n.by = p

Init ==
    /\ history = <<>> /\ terminal = FALSE /\ subscribers = {} /\ notices = {}
    /\ closed = FALSE /\ pending = FALSE /\ hangups = 0
    /\ task = [t \in Tasks |-> "none"]
    /\ stream = [s \in Streams |-> "idle"]
    /\ owns = [s \in Streams |-> 0]
    /\ queue = [s \in Streams |-> <<>>]
    /\ sent = [s \in Streams |-> 0]
    /\ lost = [s \in Streams |-> {}]

-----------------------------------------------------------------------------
(* AgentRunManager                                                         *)

Without(s, ns) == {[n EXCEPT !.to = @ \ {s}] : n \in ns}

\* _append_locked, and the puts _notify asks for beside those there are.
Write(p, e, to, puts) ==
    /\ history' = Append(history, e)
    /\ terminal' = (terminal \/ e = "last")
    /\ notices' = puts \union
            (IF to = {} THEN {}
                        ELSE {[by |-> p, event |-> Len(history) + 1, to |-> to]})

\* Fault: publish does not look at the terminal flag.
PublishAnyway(t, e, label) ==
    /\ ~Waiting(t)
    /\ Write(t, e, subscribers, notices)
    /\ task' = [task EXCEPT ![t] = label]

\* publish by invocation t, which is then at label.  (With no subscribers it does
\* not suspend: the steps between two of them are finer than the code's.)
Publish(t, e, label) ==
    /\ ~Waiting(t) /\ ~terminal
    /\ Write(t, e, subscribers, notices)
    /\ task' = [task EXCEPT ![t] = label]

\* publish raises in a run that is terminal, and the handler has nothing to add.
Refused(t) ==
    /\ task[t] \in {"answering", "closing"} /\ ~Waiting(t) /\ terminal
    /\ task' = [task EXCEPT ![t] = "over"]
    /\ UNCHANGED <<log, subscribers, lost, closed, pending, response, hangups>>

\* Fault: _notify puts the event in the queues there are by then.
PutToAll(n) ==
    /\ queue' = [s \in Streams |-> IF s \in subscribers
                                   THEN Append(queue[s], n.event)
                                   ELSE queue[s]]
    /\ notices' = notices \ {n}

\* The puts of notice n run.
Put(n) ==
    /\ queue' = [s \in Streams |-> IF s \in n.to THEN Append(queue[s], n.event)
                                               ELSE queue[s]]
    /\ notices' = notices \ {n}

\* The oldest notice is that of the first event.
Deliver ==
    /\ \E n \in notices : (\A m \in notices : n.event <= m.event) /\ Put(n)
    /\ UNCHANGED <<history, terminal, subscribers, lost, closed, agent, hangups>>
    /\ UNCHANGED <<stream, owns, sent>>

\* aclose; the server has finished its responses by then.
Shutdown ==
    /\ ~closed
    /\ \A s \in Streams : stream[s] = "idle"
    /\ closed' = TRUE
    /\ IF history # <<>> /\ ~terminal THEN Write(0, "last", subscribers, notices)
                                      ELSE UNCHANGED log
    /\ UNCHANGED <<subscribers, lost, agent, response, hangups>>

-----------------------------------------------------------------------------
(* Requests                                                                *)

\* A response that holds task t and continues after event n is on its way.
Enter(s, t, n) ==
    /\ stream[s] = "idle"
    /\ ~closed
    /\ stream' = [stream EXCEPT ![s] = "opening"]
    /\ owns' = [owns EXCEPT ![s] = t]
    /\ sent' = [sent EXCEPT ![s] = n]
    /\ UNCHANGED <<notices, subscribers, lost, closed, queue, hangups>>

\* POST /agent/chat/stream for a new run.
Start(s) ==
    /\ history = <<>>
    /\ Enter(s, 1, 0)
    /\ history' = <<"event">>
    /\ task' = [task EXCEPT ![1] = "running"]
    /\ UNCHANGED <<terminal, pending>>

\* The same with X-Agent-Run-ID and, as Last-Event-ID, an event of the run.
View(s, n) ==
    /\ history # <<>>
    /\ Enter(s, 0, n)
    /\ UNCHANGED <<history, terminal, agent>>

\* Fault: reopen takes an active run.
ResumeActive(s) ==
    LET t == Cardinality(Started) + 1
    IN  /\ t \in Tasks
        /\ pending
        /\ Enter(s, t, Len(history))
        /\ terminal' = FALSE
        /\ task' = [task EXCEPT ![t] = "running"]
        /\ UNCHANGED <<history, pending>>

\* POST /agent/chat/runs/{run_id}/resume: reopen, and a task of its own.
ResumeRun(s) ==
    LET t == Cardinality(Started) + 1
    IN  /\ t \in Tasks
        /\ pending
        /\ terminal /\ history[Len(history)] = "last"
        /\ Enter(s, t, Len(history))
        /\ terminal' = FALSE
        /\ task' = [task EXCEPT ![t] = "running"]
        /\ UNCHANGED <<history, pending>>

-----------------------------------------------------------------------------
(* _finish_agent_stream_run                                                *)

Working == <<subscribers, lost, closed, response, hangups>>

\* A callback publishes while the graph runs; a resumed graph has no callbacks.
Progress(t) ==
    /\ t = 1 /\ task[t] = "running"
    /\ Len(history) <= MaxProgress
    /\ Publish(t, "event", "running")
    /\ UNCHANGED <<pending, Working>>

\* MainAgent.run returns: a clarification is noted, any other result drops the
\* note, and the exception of a graph becomes a result that leaves it.
RunReturns(t) ==
    /\ task[t] = "running" /\ ~Waiting(t)
    /\ task' = [task EXCEPT ![t] = "answering"]
    /\ pending' \in BOOLEAN
    /\ UNCHANGED <<log, Working>>

\* Fault: the exception ends the task and nothing else.
RaisesSilently(t) ==
    /\ task[t] \in {"running", "answering"} /\ ~Waiting(t)
    /\ task' = [task EXCEPT ![t] = "over"]
    /\ UNCHANGED <<log, pending, Working>>

\* resume raises in a run that waits for nothing, or the response cannot be built.
Raises(t) ==
    /\ task[t] \in {"running", "answering"}
    /\ Publish(t, "last", "published")
    /\ UNCHANGED <<pending, Working>>

Answer(t) ==
    /\ task[t] = "answering"
    /\ Publish(t, "event", "closing")
    /\ UNCHANGED <<pending, Working>>

Close(t) ==
    /\ task[t] = "closing"
    /\ Publish(t, "last", "published")
    /\ UNCHANGED <<pending, Working>>

Over(t) ==
    /\ task[t] = "published" /\ ~Waiting(t)
    /\ task' = [task EXCEPT ![t] = "over"]
    /\ UNCHANGED <<log, pending, Working>>

-----------------------------------------------------------------------------
(* event_body, resume_body and events.  A send that does not suspend is one *)
(* step with what follows, so a response sends what it has in one go.       *)

\* events subscribes and takes its replay in one step.  A terminal event that is
\* replayed does not end the stream; the run's being terminal does.
Open(s) ==
    /\ stream[s] = "opening"
    /\ stream' = [stream EXCEPT ![s] = IF terminal THEN "ending"
                                       ELSE IF sent[s] = Len(history) THEN "waiting"
                                       ELSE "sending"]
    /\ sent' = [sent EXCEPT ![s] = Len(history)]
    /\ subscribers' = IF terminal THEN subscribers ELSE subscribers \union {s}
    /\ UNCHANGED <<log, lost, closed, agent, owns, queue, hangups>>

\* Fault: a terminal event does not end the live stream.
FrameOn(s) ==
    /\ stream[s] \in {"sending", "waiting"} /\ queue[s] # <<>>
    /\ stream' = [stream EXCEPT ![s] = "sending"]
    /\ sent' = [sent EXCEPT ![s] = Head(queue[s])]
    /\ queue' = [queue EXCEPT ![s] = Tail(@)]
    /\ lost' = [lost EXCEPT ![s] = {n \in @ : n > Head(queue[s])}]
    /\ UNCHANGED <<log, subscribers, closed, agent, owns, hangups>>

\* queue.get returns and the frame is sent, the last one if the event is terminal.
Frame(s) ==
    /\ stream[s] \in {"sending", "waiting"} /\ queue[s] # <<>>
    /\ stream' = [stream EXCEPT ![s] =
                      IF history[Head(queue[s])] = "last" THEN "ending" ELSE "sending"]
    /\ sent' = [sent EXCEPT ![s] = Head(queue[s])]
    /\ queue' = [queue EXCEPT ![s] = Tail(@)]
    /\ lost' = [lost EXCEPT ![s] = {n \in @ : n > Head(queue[s])}]
    /\ UNCHANGED <<log, subscribers, closed, agent, owns, hangups>>

Wait(s) ==
    /\ stream[s] = "sending" /\ queue[s] = <<>>
    /\ stream' = [stream EXCEPT ![s] = "waiting"]
    /\ UNCHANGED <<log, subscribers, lost, closed, agent, hangups, owns, queue, sent>>

\* The response is over, and its place free for another.
Gone(s) ==
    /\ stream' = [stream EXCEPT ![s] = "idle"]
    /\ owns' = [owns EXCEPT ![s] = 0]
    /\ queue' = [queue EXCEPT ![s] = <<>>]
    /\ sent' = [sent EXCEPT ![s] = 0]
    /\ subscribers' = subscribers \ {s}

\* The puts that the members of cut wait for are cancelled with them, and those
\* into the queue of s, which is leaving, are nobody's.
Withdraw(cut, s) ==
    /\ notices' = Without(s, {n \in notices : n.by \notin cut})
    /\ lost' = [r \in Streams |-> IF r = s THEN {} ELSE lost[r] \union
                {n.event : n \in {m \in notices : m.by \in cut /\ r \in m.to}}]

\* The finally clauses: the queue is discarded and the task that the response
\* holds is cancelled, wherever it is, and awaited.
Finally(s) ==
    /\ Gone(s)
    /\ task' = [t \in Tasks |-> IF t = owns[s] THEN "over" ELSE task[t]]
    /\ Withdraw({s, owns[s]} \ {0}, s)
    /\ UNCHANGED <<closed, pending>>

Leave(s) == Finally(s) /\ UNCHANGED <<history, terminal, hangups>>

Finish(s) ==
    /\ stream[s] = "ending"
    /\ Leave(s)

-----------------------------------------------------------------------------
(* Disconnects                                                             *)

HangUp ==
    /\ hangups < MaxHangups
    /\ hangups' = hangups + 1

\* Before the first frame: no generator, no finally clause.
LeaveOpening(s) ==
    /\ stream[s] = "opening"
    /\ Gone(s)
    /\ HangUp
    /\ UNCHANGED <<log, lost, closed, agent>>

Interrupt(s, from, to) ==
    /\ stream[s] = from
    /\ stream' = [stream EXCEPT ![s] = to]
    /\ HangUp
    /\ UNCHANGED <<lost, closed, agent, owns, queue, sent>>

\* In send: nothing but the finally clauses, once the generator is collected.
LeaveSending(s) ==
    /\ \E sending \in {"sending", "ending"} : Interrupt(s, sending, "dropped")
    /\ UNCHANGED <<log, subscribers>>

Collected(s) ==
    /\ stream[s] = "dropped"
    /\ Leave(s)

\* In queue.get: events gives its queue up, the route cancels the run and waits
\* for the puts to the other subscribers.
LeaveWaiting(s) ==
    LET others == subscribers \ {s}
    IN  /\ ~terminal /\ others # {}
        /\ Interrupt(s, "waiting", "cancelling")
        /\ subscribers' = others
        /\ Write(s, "last", others, Without(s, notices))

\* The same with nothing to wait for.
LeaveAlone(s) ==
    /\ stream[s] = "waiting"
    /\ terminal \/ subscribers = {s}
    /\ HangUp
    /\ history' = IF terminal THEN history ELSE Append(history, "last")
    /\ terminal' = TRUE
    /\ Finally(s)

\* The puts of that event have run, or are cancelled with the response.
Cancelled(s) ==
    /\ stream[s] = "cancelling"
    /\ Leave(s)

-----------------------------------------------------------------------------
Work(t) ==
    \/ Progress(t) \/ RunReturns(t) \/ Raises(t)
    \/ Answer(t) \/ Close(t) \/ Refused(t) \/ Over(t)

Request(s) == Start(s) \/ ResumeRun(s) \/ \E n \in {0, Len(history)} : View(s, n)

Respond(s) ==
    Open(s) \/ Frame(s) \/ Wait(s) \/ Finish(s) \/ Collected(s) \/ Cancelled(s)

Disconnect(s) ==
    LeaveOpening(s) \/ LeaveSending(s) \/ LeaveWaiting(s) \/ LeaveAlone(s)

Next ==
    \/ Deliver
    \/ Shutdown
    \/ \E t \in Tasks : Work(t)
    \/ \E s \in Streams : Request(s) \/ Respond(s) \/ Disconnect(s)

Spec == Init /\ [][Next]_vars

\* The event loop gets round to every step that is ready, the agent's limits end
\* every invocation and connected clients read.  Nobody has to call or to leave.
FairSpec ==
    /\ Spec
    /\ WF_vars(Deliver)
    /\ \A t \in Tasks : WF_vars(Work(t))
    /\ \A s \in Streams : WF_vars(Respond(s))

-----------------------------------------------------------------------------
TypeOK ==
    /\ history \in Seq(Events)
    /\ terminal \in BOOLEAN /\ closed \in BOOLEAN /\ pending \in BOOLEAN
    /\ hangups \in 0 .. MaxHangups
    /\ subscribers \subseteq Streams
    /\ notices \subseteq [by : Tasks \union Streams, event : 1 .. Len(history),
                          to : SUBSET Streams]
    /\ task \in [Tasks -> {"none", "running", "answering", "closing", "published", "over"}]
    /\ stream \in [Streams -> {"idle", "opening", "sending", "waiting", "ending",
                               "dropped", "cancelling"}]
    /\ owns \in [Streams -> 0 .. MaxTasks]
    /\ queue \in [Streams -> Seq(1 .. Len(history))]
    /\ sent \in [Streams -> 0 .. Len(history)]
    /\ lost \in [Streams -> SUBSET (1 .. Len(history))]

\* What is being put in the queue of s.
Incoming(s) == {n.event : n \in {m \in notices : s \in m.to}}

\* What is in the queue of s.
Queued(s) == {queue[s][i] : i \in DOMAIN queue[s]}

\* Nothing gets lost on the way to a subscriber but by a cancelled put: what it
\* has queued and what is being put there are, in the order of the run, the events
\* that follow what it has sent, replayed and live without a seam.
Delivered ==
    \A s \in subscribers :
        /\ \A i, j \in DOMAIN queue[s] : i < j => queue[s][i] < queue[s][j]
        /\ \A m \in Queued(s), n \in Incoming(s) : m < n
        /\ Queued(s) \union Incoming(s) = (sent[s] + 1 .. Len(history)) \ lost[s]

\* Every invocation is closed by one terminal event and no more, whoever of its
\* task, a disconnected client and the shutdown comes first, or is still open.
ClosedOnce ==
    Cardinality(Started) =
        Cardinality({i \in DOMAIN history : history[i] = "last"})
        + (IF terminal \/ history = <<>> THEN 0 ELSE 1)

\* Without disconnects a response misses no event but a terminal one (a response
\* that finds its own run closed cancels the puts of its task), and an open run
\* is being worked on.
OnlyDisconnectsHurt ==
    hangups = 0 =>
        /\ \A s \in Streams, n \in 1 .. Len(history) : n \in lost[s] => history[n] = "last"
        /\ history # <<>> /\ ~terminal => \E t \in Started : task[t] # "over"

\* The stream keeps the promise of a replayable log.
Log == INSTANCE ReplayLog WITH
    Readers <- Streams, Events <- Events, Final <- {"last"},
    log <- history, open <- ~terminal, read <- sent
ImplementsLog == Log!Spec

\* A response ends, unless it has missed an event or nobody works on the run
\* that it waits for.
StreamsEnd ==
    \A s \in Streams : stream[s] = "opening" ~>
        \/ stream[s] = "idle"
        \/ lost[s] # {}
        \/ ~terminal /\ \A t \in Started : task[t] = "over"

\* LLM.md: a disconnect cancels the active run.  (It does not while a frame is
\* being sent.)
DisconnectCancels ==
    terminal \/ history = <<>> \/ \E t \in Started : task[t] # "over"
=============================================================================
