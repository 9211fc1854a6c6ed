------------------------------ MODULE AgentTracing ------------------------------
(***************************************************************************)
(* What a run of the agent tells while it works: the callbacks LangChain   *)
(* makes for its chains, tools and models become public events             *)
(* (agent/langchain_callbacks.py), observations of a trace (the same file, *)
(* agent/tracing.py, platform/langfuse_tracing.py) and lines of the log    *)
(* (agent/logging.py). Calls nest; a task that is cancelled inside a       *)
(* callback never delivers its end, and calls a failed run has left behind *)
(* go on after it is over. The handlers of one callback are a single step, *)
(* in which the events of a call keep their order; the Thinking texts that *)
(* go with events are left out.                                            *)
(***************************************************************************)
EXTENDS Naturals, SequencesExt

CONSTANTS Calls,      \* the run ids of LangChain, numbered as the calls begin
          MaxDeltas   \* bound on the tokens streamed

\* 0 stands for the root.
ASSUME CallsAssumption == Calls \subseteq Nat \ {0}

VARIABLES calls,      \* kind, parent, publicity and phase of each call
          spans,      \* the observations of the tracer, 0 the root
          remotes,    \* what the client of Langfuse holds of each: "none", "open", "ended"
          observed,   \* _observations of the tracing handler
          named,      \* _tool_names of the event handler
          publicRuns, \* _public_llm_runs
          synthesis,  \* _synthesis_started
          events,     \* the events published about each call, and 0 about the run
          listening,  \* the stream takes events
          timed,      \* _started of the logging handler
          over        \* finish has been called

tracingVars == <<calls, spans, remotes, observed, named, publicRuns, synthesis, events, listening, timed, over>>

Kinds == {"chain", "tool", "model"}
NoSpan == [status |-> "none", parent |-> 0]

\* MainAgent.run starts the trace, which is the root of the observations.
TracingInit ==
    /\ calls = [c \in Calls |-> [kind |-> "chain", parent |-> 0, public |-> FALSE, phase |-> "new"]]
    /\ spans = [c \in Calls \cup {0} |-> IF c = 0 THEN [status |-> "running", parent |-> 0] ELSE NoSpan]
    /\ \E remote \in {"none", "open"} : remotes = [c \in Calls \cup {0} |-> IF c = 0 THEN remote ELSE "none"]
    /\ observed = {} /\ named = {} /\ publicRuns = {} /\ synthesis = FALSE
    /\ events = [c \in Calls \cup {0} |-> <<>>] /\ listening = TRUE /\ timed = {} /\ over = FALSE

\* _publish: an event the stream refuses is dropped.
Publish(c, type) ==
    events' = IF listening THEN [events EXCEPT ![c] = Append(@, type)] ELSE events

\* TraceObservation.end: the first status stays.
Ended(span, status) == IF span.status = "running" THEN [span EXCEPT !.status = status] ELSE span

\* _finish_remote, called by the end that closes the local observation.
RemoteEnded(remote, span) == IF span.status = "running" /\ remote = "open" THEN "ended" ELSE remote

EndSpans(cs, status) ==
    /\ spans' = [c \in DOMAIN spans |-> IF c \in cs THEN Ended(spans[c], status) ELSE spans[c]]
    /\ remotes' = [c \in DOMAIN remotes |-> IF c \in cs THEN RemoteEnded(remotes[c], spans[c]) ELSE remotes[c]]

\* The observation of the caller, or the root when the caller has none any more.
ParentOf(parent) == IF parent \in observed THEN parent ELSE 0

NewSpan(parent) == [status |-> "running", parent |-> parent]

\* The client may be off or fail at each call: it then holds nothing.
RemoteStarts == {"none", "open"}

StartSpan(c, parent) ==
    /\ observed' = observed \cup {c}
    /\ spans' = [spans EXCEPT ![c] = NewSpan(ParentOf(parent))]
    /\ \E remote \in RemoteStarts : remotes' = [remotes EXCEPT ![c] = remote]

\* The logging handler measures chains and tools.
TimedFrom(c) == timed' = timed \cup {c}
TimedTo(c) == timed' = timed \ {c}

Begin(c, kind, parent, public) ==
    /\ calls[c].phase = "new"
    /\ \A d \in Calls : d < c => calls[d].phase # "new"
    /\ parent = 0 => kind = "chain" /\ \A d \in Calls : calls[d].phase = "new"
    /\ parent # 0 => calls[parent].phase = "open" /\ calls[parent].kind # "model"
    /\ calls' = [calls EXCEPT ![c] = [kind |-> kind, parent |-> parent, public |-> public, phase |-> "open"]]
    /\ StartSpan(c, parent)
    /\ UNCHANGED <<listening, over>>

\* A stage is announced once, whatever the number of its chains; all are of one stage here.
ChainStart(c, parent) ==
    /\ Begin(c, "chain", parent, FALSE)
    /\ IF \E d \in Calls : calls[d].kind = "chain" /\ calls[d].phase # "new"
       THEN UNCHANGED events ELSE Publish(0, "stage_started")
    /\ TimedFrom(c)
    /\ UNCHANGED <<named, publicRuns, synthesis>>

ToolStart(c, parent) ==
    /\ Begin(c, "tool", parent, FALSE)
    /\ named' = named \cup {c}
    /\ Publish(c, "tool_started")
    /\ TimedFrom(c)
    /\ UNCHANGED <<publicRuns, synthesis>>

\* Only a call tagged as an answer is public, and the first announces the synthesis.
ModelStart(c, parent, public) ==
    /\ Begin(c, "model", parent, public)
    /\ publicRuns' = IF public THEN publicRuns \cup {c} ELSE publicRuns
    /\ synthesis' = (synthesis \/ public)
    /\ IF public /\ ~synthesis THEN Publish(0, "synthesis_started") ELSE UNCHANGED events
    /\ UNCHANGED <<named, timed>>

\* Fault: every model of the run streams once a public one has started.
StreamsAny(c) == synthesis

Streams(c) == c \in publicRuns

ModelToken(c) ==
    /\ calls[c].phase = "open"
    /\ calls[c].kind = "model"
    /\ Len(events[c]) < MaxDeltas
    /\ Streams(c)
    /\ Publish(c, "answer_delta")
    /\ UNCHANGED <<calls, spans, remotes, observed, named, publicRuns, synthesis, listening, timed, over>>

\* on_..._end and on_..._error: what was mapped to the call is taken out. A chain may
\* also announce a decision.
CallEnds(c, failed) ==
    LET kind == calls[c].kind IN
    /\ calls[c].phase = "open"
    /\ calls' = [calls EXCEPT ![c].phase = "ended"]
    /\ observed' = observed \ {c}
    /\ EndSpans({c} \cap observed, IF failed THEN "error" ELSE "ok")
    /\ named' = named \ {c}
    /\ publicRuns' = publicRuns \ {c}
    /\ TimedTo(c)
    /\ CASE kind = "tool"            -> Publish(c, IF c \in named THEN "tool_completed" ELSE "tool_unnamed")
         [] kind = "chain" /\ ~failed -> UNCHANGED events \/ Publish(c, "decision")
         [] OTHER                     -> UNCHANGED events
    /\ UNCHANGED <<synthesis, listening, over>>

\* A cancelled task delivers nothing more.
CallLost(c) ==
    /\ calls[c].phase = "open"
    /\ calls' = [calls EXCEPT ![c].phase = "lost"]
    /\ UNCHANGED <<spans, remotes, observed, named, publicRuns, synthesis, events, listening, timed, over>>

\* A terminal event of a disconnecting client closes the stream.
StreamCloses ==
    /\ listening
    /\ listening' = FALSE
    /\ UNCHANGED <<calls, spans, remotes, observed, named, publicRuns, synthesis, events, timed, over>>

\* finish and the end of the root, after the graph has returned or raised; the tools of
\* a failed run are not awaited.
FinishRun(failed) ==
    /\ ~over
    /\ failed \/ \A c \in Calls : calls[c].phase # "open"
    /\ over' = TRUE
    /\ EndSpans(observed \cup {0}, IF failed THEN "error" ELSE "ok")
    /\ observed' = {}
    /\ UNCHANGED <<calls, named, publicRuns, synthesis, events, listening, timed>>

TracingNext ==
    \/ \E c \in Calls, parent \in Calls \cup {0} :
          \/ ChainStart(c, parent)
          \/ ToolStart(c, parent)
          \/ \E public \in BOOLEAN : ModelStart(c, parent, public)
    \/ \E c \in Calls :
          \/ ModelToken(c) \/ CallLost(c)
          \/ \E failed \in BOOLEAN : CallEnds(c, failed)
    \/ StreamCloses
    \/ \E failed \in BOOLEAN : FinishRun(failed)

TracingSpec == TracingInit /\ [][TracingNext]_tracingVars

-----------------------------------------------------------------------------
(***************************************************************************)
(* Properties                                                              *)
(***************************************************************************)
\* Once a run is over its observations are closed, those whose end was lost included;
\* only a call that began after it can leave one open, and then for ever, because the
\* handler has been finished (langchain_callbacks.py, finish).
SpansClosed ==
    over =>
        /\ spans[0].status # "running"
        /\ \A c \in Calls : spans[c].status = "running" => c \in observed /\ calls[c].phase # "new"

\* An observation is open exactly while its call is mapped to it, so that each end
\* reaches the observation of its own start, what the client holds follows, and no
\* handler keeps anything of a call that has ended.
SpansMatch ==
    /\ \A c \in Calls : c \in observed <=> spans[c].status = "running"
    /\ \A c \in Calls : calls[c].phase = "ended" => c \notin observed \cup named \cup publicRuns \cup timed
    /\ \A c \in Calls \cup {0} : remotes[c] = "ended" => spans[c].status \in {"ok", "error"}
    /\ \A c \in Calls \cup {0} : remotes[c] = "open" => spans[c].status = "running"

\* The calls a trace shows nest as they did: a span hangs under that of its caller, or
\* under the root when the caller has none any more.
SpansNest ==
    \A c \in Calls : spans[c].status # "none" =>
        \/ spans[c].parent = 0
        \/ spans[c].parent = calls[c].parent /\ spans[spans[c].parent].status # "none"

Told(c) == ToSet(events[c])
OnceEach(c) ==
    \A i, j \in DOMAIN events[c] :
        events[c][i] = events[c][j] /\ events[c][i] # "answer_delta" => i = j

\* A client sees each tool start once, before it completes and under the same name, and
\* text of an answer only from a public model, after the announcement.
EventsTell ==
    /\ \A c \in Calls \cup {0} : OnceEach(c) /\ "tool_unnamed" \notin Told(c)
    /\ \A c \in Calls :
          /\ "tool_completed" \in Told(c) => events[c] = <<"tool_started", "tool_completed">>
          /\ "answer_delta" \in Told(c) => calls[c].public /\ "synthesis_started" \in Told(0)

\* The four together: what an operator and a client are told is what happened.
TracesSound == SpansClosed /\ SpansMatch /\ SpansNest /\ EventsTell
================================================================================
