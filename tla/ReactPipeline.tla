----------------------------- MODULE ReactPipeline -----------------------------
(***************************************************************************)
(* One run of the main agent as the application wires it                   *)
(* (agent/react_pipeline.py): an orchestrating model that calls tools in   *)
(* turns, then a synthesis that may send it back for a search it skipped.  *)
(* The calls of one turn run concurrently. The model, the search services  *)
(* and the synthesizer may answer anything their callers accept. A call    *)
(* that raises ends its siblings; what it was doing until its first await  *)
(* is one step. Evidence is an identifier and the size of its text, which  *)
(* is 0 while it has not been found and may change from search to search   *)
(* for a page of the web.                                                  *)
(***************************************************************************)
EXTENDS RunBudget

CONSTANTS DocIds, WebIds,  \* stable_evidence_id of paragraphs and of pages
          Sizes,           \* Sizes[e]: the token counts the text of e may have
          ContextLimit,    \* AgentQuestion.context_limit
          MaxTurns,        \* _MAX_MODEL_TURNS
          MaxBatch         \* tool calls in one answer of the model

ASSUME SizesAssumption ==
    \A e \in DocIds \cup WebIds :
        Sizes[e] \subseteq Nat \ {0} /\ \E n \in Sizes[e] : \A m \in Sizes[e] : m <= n
ASSUME EvidenceAssumption == IsFiniteSet(DocIds \cup WebIds)
ASSUME BoundsAssumption == ContextLimit \in Nat /\ MaxTurns \in Nat /\ MaxBatch \in Nat

VARIABLES budget,    \* state["budget"]
          context,   \* _RunContext, and whether a web search is configured
          pc,        \* the node, or the middleware, that runs
          batch,     \* the tool calls of the current turn
          entry,     \* the candidates when orchestrate was entered
          required,  \* required_search_tool
          ledger,    \* the evidence handed to the synthesis
          outcome

vars == <<budget, context, pc, batch, entry, required, ledger, outcome>>

Evidence == DocIds \cup WebIds
Nothing == [e \in Evidence |-> 0]
Found(f) == {e \in Evidence : f[e] > 0}
Tokens(f) == UNION {{e} \X (1 .. f[e]) : e \in Evidence}
Size(f) == Cardinality(Tokens(f))
Smaller(m, n) == IF m < n THEN m ELSE n
Allowance == Smaller(ContextLimit, MaxContext)

\* Any outcome of a search among ids: a set of results with their texts.
Results(ids) ==
    UNION {{[e \in Evidence |-> IF e \in S THEN s[e] ELSE 0] :
               s \in {t \in [S -> UNION {Sizes[e] : e \in S}] : \A e \in S : t[e] \in Sizes[e]}} :
           S \in SUBSET ids}
Updated(f, g) == [e \in Evidence |-> IF g[e] > 0 THEN g[e] ELSE f[e]]

ToolCalls == [tool : {"search_docs", "search_web"}, ids : {{}}]
             \cup [tool : {"select_context"}, ids : SUBSET Evidence]
Start(call) == [tool |-> call.tool, ids |-> call.ids, step |-> "ready"]
SearchOf(tool) == IF tool = "search_docs" THEN DocumentSearch ELSE WebSearch

\* The reservation a call holds while it waits for its service.
Holds(call) ==
    CASE call.step = "searching" -> SearchOf(call.tool)
      [] call.step = "filtering" -> "search_docs_selection"
      [] OTHER                   -> None

Init ==
    /\ budget = NewBudget
    /\ \E w \in BOOLEAN, h \in BOOLEAN : context =
          [webOnly |-> w, hasWeb |-> h, candidates |-> Nothing, selected |-> Nothing, charged |-> {},
           searchedWeb |-> FALSE, reason |-> None, turns |-> 0, denials |-> 0,
           finalTurn |-> FALSE, force |-> None, revised |-> FALSE]
    /\ pc = "orchestrate"
    /\ batch = <<>>
    /\ entry = Nothing
    /\ required = None
    /\ ledger = [items |-> Nothing, exhausted |-> None]
    /\ outcome = None

-----------------------------------------------------------------------------
(***************************************************************************)
(* The node main_orchestrator and its middleware                           *)
(***************************************************************************)
Orchestrate ==
    /\ pc = "orchestrate"
    /\ entry' = context.candidates
    /\ context' = IF required = None THEN [context EXCEPT !.revised = FALSE]
                  ELSE [context EXCEPT !.revised = FALSE, !.force = required, !.denials = 0]
    /\ pc' = "before_model"
    /\ UNCHANGED <<budget, batch, required, ledger, outcome>>

Because(reason) == IF context.reason = None THEN reason ELSE context.reason

NoSearches ==
    /\ context.webOnly \/ Remaining(budget, DocumentSearch) = 0
    /\ ~context.hasWeb \/ Remaining(budget, WebSearch) = 0

\* A search that the synthesis requires is called without asking the model.
ForceSearch ==
    /\ pc = "before_model"
    /\ context.force # None
    /\ batch' = <<Start([tool |-> context.force, ids |-> {}])>>
    /\ context' = [context EXCEPT !.force = None]
    /\ pc' = "tools"
    /\ UNCHANGED <<budget, entry, required, ledger, outcome>>

Spent == context.denials >= 2 \/ context.turns >= MaxTurns

\* stop_when_budget_ends jumps to the end.
StopTurns ==
    /\ pc = "before_model"
    /\ context.force = None
    /\ \/ /\ RemainingTokens(budget) = 0
          /\ context' = [context EXCEPT !.reason = "max_context_tokens"]
       \/ /\ RemainingTokens(budget) > 0
          /\ Spent
          /\ context' = [context EXCEPT !.reason = Because("max_agent_steps")]
       \/ /\ RemainingTokens(budget) > 0
          /\ ~Spent
          /\ NoSearches
          /\ context.finalTurn
          /\ context' = [context EXCEPT !.reason = Because("search_resources_exhausted")]
    /\ pc' = "collect"
    /\ UNCHANGED <<budget, batch, entry, required, ledger, outcome>>

BeforeModel ==
    /\ pc = "before_model"
    /\ context.force = None
    /\ RemainingTokens(budget) > 0
    /\ ~Spent
    /\ ~(NoSearches /\ context.finalTurn)
    /\ context' = [context EXCEPT
                     !.turns = @ + 1,
                     !.finalTurn = @ \/ NoSearches,
                     !.reason = IF NoSearches THEN Because("search_resources_exhausted") ELSE @]
    /\ pc' = "model"
    /\ UNCHANGED <<budget, batch, entry, required, ledger, outcome>>

\* The model finishes, or asks for tools; its unknown tools raise.
ModelFinishes ==
    /\ pc = "model"
    /\ pc' = "collect"
    /\ UNCHANGED <<budget, context, batch, entry, required, ledger, outcome>>

ModelCalls ==
    /\ pc = "model"
    /\ \E n \in 1 .. MaxBatch : \E calls \in [1 .. n -> ToolCalls] :
          batch' = [i \in 1 .. n |-> Start(calls[i])]
    /\ pc' = "tools"
    /\ UNCHANGED <<budget, context, entry, required, ledger, outcome>>

ToolsReturn ==
    /\ pc = "tools"
    /\ \A i \in DOMAIN batch : batch[i].step = "done"
    /\ batch' = <<>>
    /\ pc' = "before_model"
    /\ UNCHANGED <<budget, context, entry, required, ledger, outcome>>

-----------------------------------------------------------------------------
(***************************************************************************)
(* Tool calls                                                              *)
(***************************************************************************)
\* Fault: run_with_budget closes a call on Exception, which a cancellation is not.
AbandonCancelled(b, calls) == b

\* run_with_budget, except BaseException: the cancelled calls, members of batch by
\* their place, close their reservations.
Abandon(b, calls) ==
    FailAll(b, [t \in Tools |-> Cardinality({i \in calls : Holds(batch[i]) = t})])

Others(i) == DOMAIN batch \ {i}

\* Call i raises, with budget b after its own reservation is closed: its siblings
\* are cancelled. Only an exhausted budget is caught by orchestrate.
Raise(i, b, reason) ==
    /\ budget' = Abandon(b, Others(i))
    /\ batch' = <<>>
    /\ IF reason = None
       THEN pc' = "over" /\ outcome' = "failed" /\ UNCHANGED context
       ELSE /\ pc' = "collect"
            /\ context' = [context EXCEPT !.reason = reason]
            /\ UNCHANGED outcome
    /\ UNCHANGED <<entry, required, ledger>>

Goto(i, step) == batch' = [batch EXCEPT ![i].step = step]

\* quota_response and source_response: the call answers with an instruction.
Deny(i, reason) ==
    /\ Goto(i, "done")
    /\ context' = [context EXCEPT !.denials = @ + 1, !.reason = IF reason = None THEN @ ELSE reason]
    /\ UNCHANGED <<budget, pc, entry, required, ledger, outcome>>

At(i, tool, step) == pc = "tools" /\ batch[i].tool = tool /\ batch[i].step = step

Admit(i, tool) ==
    IF CanReserve(budget, tool)
    THEN /\ budget' = Reserve(budget, tool)
         /\ Goto(i, "searching")
         /\ UNCHANGED <<context, pc, entry, required, ledger, outcome>>
    ELSE Deny(i, Refusal(budget, tool))

SearchDocs(i) ==
    /\ At(i, "search_docs", "ready")
    /\ IF context.webOnly THEN Deny(i, None) ELSE Admit(i, DocumentSearch)

\* Fault: the web is searched while document searches remain.
DocsFirstIgnored == FALSE

DocsFirst == ~context.webOnly /\ Remaining(budget, DocumentSearch) > 0

SearchWeb(i) ==
    /\ At(i, "search_web", "ready")
    /\ CASE DocsFirst             -> Deny(i, None)
         [] ~DocsFirst /\ ~context.hasWeb -> Raise(i, budget, None)
         [] OTHER                 -> Admit(i, WebSearch)

\* The batch of planned queries is merged; what it found is kept, then filtered.
DocsFound(i) ==
    /\ At(i, "search_docs", "searching")
    /\ LET b == Close(budget, DocumentSearch, "completed") IN
       \E r \in Results(DocIds) :
          LET known == [context EXCEPT !.candidates = Updated(@, r)] IN
          IF r = Nothing
          THEN /\ budget' = b
               /\ context' = [known EXCEPT !.denials = 0]
               /\ Goto(i, "done")
               /\ UNCHANGED <<pc, entry, required, ledger, outcome>>
          ELSE IF CanReserve(b, "search_docs_selection")
          THEN /\ budget' = Reserve(b, "search_docs_selection")
               /\ context' = known
               /\ Goto(i, "filtering")
               /\ UNCHANGED <<pc, entry, required, ledger, outcome>>
          ELSE /\ budget' = Abandon(b, Others(i))
               /\ batch' = <<>>
               /\ pc' = "collect"
               /\ context' = [known EXCEPT !.reason = Refusal(b, "search_docs_selection")]
               /\ UNCHANGED <<entry, required, ledger, outcome>>

DocsFiltered(i) ==
    /\ At(i, "search_docs", "filtering")
    /\ budget' = Close(budget, "search_docs_selection", "completed")
    /\ context' = [context EXCEPT !.denials = 0]
    /\ Goto(i, "done")
    /\ UNCHANGED <<pc, entry, required, ledger, outcome>>

WebFound(i) ==
    /\ At(i, "search_web", "searching")
    /\ budget' = Close(budget, WebSearch, "completed")
    /\ \E r \in Results(WebIds) :
          context' = [context EXCEPT !.candidates = Updated(@, r), !.searchedWeb = TRUE,
                                     !.denials = 0]
    /\ Goto(i, "done")
    /\ UNCHANGED <<pc, entry, required, ledger, outcome>>

\* A service fails or times out; a result that its caller refuses raises as well,
\* after its reservation was completed.
ServiceFails(i) ==
    /\ pc = "tools"
    /\ Holds(batch[i]) # None
    /\ \E status \in {"failed", "timeout", "completed"} :
          Raise(i, Close(budget, Holds(batch[i]), status), None)

\* Fault: the part of the selection that was charged before is charged again.
UnchargedAll(selected) == Size(selected)

Uncharged(selected) == Size([e \in Evidence |-> IF e \in context.charged THEN 0 ELSE selected[e]])

Fits(selected) == Size(selected) <= Allowance

SelectContext(i) ==
    /\ At(i, "select_context", "ready")
    /\ LET ids == batch[i].ids
           selected == [e \in Evidence |-> IF e \in ids THEN context.candidates[e] ELSE 0]
           b == Reserve(budget, "select_context")
       IN CASE ~CanReserve(budget, "select_context") ->
                  Raise(i, budget, Refusal(budget, "select_context"))
            [] CanReserve(budget, "select_context") /\ ~(ids \subseteq Found(context.candidates)) ->
                  Raise(i, Close(b, "select_context", "failed"), None)
            [] /\ CanReserve(budget, "select_context")
               /\ ids \subseteq Found(context.candidates)
               /\ ~(Fits(selected) /\ Affordable(b, Uncharged(selected))) ->
                  Raise(i, Close(b, "select_context", "failed"), "max_context_tokens")
            [] OTHER ->
                  /\ budget' = Close(RecordTokens(b, Uncharged(selected)), "select_context", "completed")
                  /\ context' = [context EXCEPT !.selected = selected, !.charged = @ \cup ids,
                                                !.revised = TRUE, !.denials = 0]
                  /\ Goto(i, "done")
                  /\ UNCHANGED <<pc, entry, required, ledger, outcome>>

-----------------------------------------------------------------------------
(***************************************************************************)
(* From the last turn to the answer                                        *)
(***************************************************************************)
\* Whether selection_revision is what it was on entry is kept as a flag.
Recovered == required # None /\ ~context.revised

\* What a recovery chooses from: all candidates, or those of the required search
\* and the earlier selection.
Pool ==
    LET new == Found(context.candidates) \ Found(entry)
        kind == IF required = "search_web" THEN WebIds ELSE DocIds
        ids == IF new # {} THEN new ELSE Found(context.candidates) \cap kind
        texts == [e \in Evidence |-> IF e \in ids THEN context.candidates[e] ELSE 0]
    IN IF ~Recovered THEN context.candidates
       ELSE [e \in Evidence |-> IF context.selected[e] > 0 THEN context.selected[e] ELSE texts[e]]

\* Candidates are taken while they fit: in whatever order, a maximal set that fits.
Recoverable ==
    LET Take(S) == [e \in Evidence |-> IF e \in S THEN Pool[e] ELSE 0]
        Fitting(S) == Fits(Take(S)) /\ Affordable(budget, Uncharged(Take(S)))
    IN {Take(S) : S \in {T \in SUBSET Found(Pool) :
                            Fitting(T) /\ \A e \in Found(Pool) \ T : ~Fitting(T \cup {e})}}

Recovers == (context.reason # None /\ context.selected = Nothing) \/ Recovered

Collect ==
    /\ pc = "collect"
    /\ \E s \in IF Recovers THEN Recoverable ELSE {context.selected} :
          /\ budget' = IF Recovers THEN RecordTokens(budget, Uncharged(s)) ELSE budget
          /\ context' = IF Recovers
                        THEN [context EXCEPT !.selected = s, !.charged = @ \cup Found(s)]
                        ELSE context
          /\ IF context.webOnly /\ ~context.searchedWeb /\ context.reason = None
             THEN pc' = "over" /\ outcome' = "failed" /\ UNCHANGED ledger
             ELSE /\ pc' = "synthesize"
                  /\ ledger' = [items |-> s, exhausted |-> context.reason]
                  /\ UNCHANGED outcome
    /\ required' = None
    /\ UNCHANGED <<batch, entry>>

\* Fault: the quota of the search is not asked for.
MissingUnchecked ==
    CASE ~context.webOnly /\ Remaining(budget, DocumentSearch) > 0 -> "search_docs"
      [] context.webOnly \/ Remaining(budget, DocumentSearch) = 0 ->
            IF ~context.searchedWeb /\ context.hasWeb THEN "search_web" ELSE None

\* The search an answer from internal knowledge must not bypass.
Missing ==
    CASE ~context.webOnly /\ CanReserve(budget, DocumentSearch) -> "search_docs"
      [] /\ context.webOnly \/ ~CanReserve(budget, DocumentSearch)
         /\ ~context.searchedWeb /\ context.hasWeb /\ CanReserve(budget, WebSearch) -> "search_web"
      [] OTHER -> None

\* A sufficient answer cites the ledger, so it needs one that is not empty.
Synthesize ==
    /\ pc = "synthesize"
    /\ \E sufficient \in BOOLEAN :
          /\ sufficient => ledger.items # Nothing
          /\ IF ~sufficient /\ Missing # None
             THEN required' = Missing /\ pc' = "orchestrate" /\ UNCHANGED outcome
             ELSE /\ pc' = "over"
                  /\ outcome' = IF sufficient THEN "grounded" ELSE "internal"
                  /\ UNCHANGED required
    /\ UNCHANGED <<budget, context, batch, entry, ledger>>

\* The model or the synthesizer raises: the run fails.
NodeFails ==
    /\ pc \in {"model", "synthesize"}
    /\ pc' = "over"
    /\ outcome' = "failed"
    /\ UNCHANGED <<budget, context, batch, entry, required, ledger>>

\* The task of the run is cancelled while it awaits something.
Cancel ==
    /\ pc \in {"model", "tools", "synthesize"}
    /\ budget' = Abandon(budget, DOMAIN batch)
    /\ batch' = <<>>
    /\ pc' = "over"
    /\ outcome' = "cancelled"
    /\ UNCHANGED <<context, entry, required, ledger>>

Call(i) ==
    \/ SearchDocs(i) \/ SearchWeb(i) \/ DocsFound(i) \/ DocsFiltered(i) \/ WebFound(i)
    \/ ServiceFails(i) \/ SelectContext(i)

Work ==
    \/ Orchestrate \/ ForceSearch \/ StopTurns \/ BeforeModel
    \/ ModelFinishes \/ ModelCalls \/ ToolsReturn
    \/ \E i \in DOMAIN batch : Call(i)
    \/ Collect \/ Synthesize \/ NodeFails

Next == Work \/ Cancel

Spec == Init /\ [][Next]_vars

\* Every await of a node is bounded: tool calls by wait_for, the model and the
\* synthesizer by the time-out of their HTTP client.
FairSpec == Spec /\ WF_vars(Work)

-----------------------------------------------------------------------------
(***************************************************************************)
(* Properties                                                              *)
(***************************************************************************)
\* Types of the run: what react_pipeline.py keeps in its state and its context.
TypeOK ==
    /\ \A t \in Tools : budget.calls[t] \in Nat /\ budget.active[t] \in Nat
    /\ \A f \in {context.candidates, context.selected, ledger.items} :
          \A e \in Evidence : f[e] = 0 \/ f[e] \in Sizes[e]
    /\ context.turns \in 0 .. MaxTurns
    /\ context.force \in {None, "search_docs", "search_web"}
    /\ required \in {None, "search_docs", "search_web"}
    /\ pc \in {"orchestrate", "before_model", "model", "tools", "collect", "synthesize", "over"}
    /\ (pc = "tools") = (batch # <<>>)
    /\ outcome \in {None, "grounded", "internal", "failed", "cancelled"}
    /\ (outcome # None) = (pc = "over")

\* The records, the counters and the calls in flight of a budget agree, whichever
\* siblings fail, time out or are cancelled, and no snapshot of it can raise; in
\* particular nothing is in flight once the run is over (policies.py,
\* run_with_budget; contracts.py, RunBudget).
CallsAccounted ==
    /\ Sound(budget)
    /\ Accounted(budget)
    /\ \A t \in Tools :
          budget.active[t] = Cardinality({i \in DOMAIN batch : Holds(batch[i]) = t})

\* The synthesis gets no more text than the question and the run allow, nothing
\* that was not found and charged, and no text is charged twice, however often the
\* selection is replaced or recovered (react_pipeline.py, select_context and
\* orchestrate).
ContextFits ==
    /\ Size(context.selected) <= Allowance
    /\ Size(ledger.items) <= Allowance
    /\ Found(context.selected) \subseteq context.charged
    /\ context.charged \subseteq Found(context.candidates)
    /\ LET Largest(e) == CHOOSE n \in Sizes[e] : \A m \in Sizes[e] : m <= n
       IN budget.tokens <= Size([e \in Evidence |-> IF e \in context.charged THEN Largest(e) ELSE 0])

\* Documents before the web, unless the question asks for the web: then no document
\* is read. An answer from internal knowledge comes last: no search it could have
\* used is left (react_pipeline.py, search_docs, search_web, synthesize).
SourcesInOrder ==
    /\ context.webOnly => budget.calls[DocumentSearch] = 0 /\ Found(ledger.items) \subseteq WebIds
    /\ ~context.webOnly /\ budget.calls[WebSearch] > 0 => budget.calls[DocumentSearch] = MaxDocs
    /\ outcome = "internal" =>
          \/ RemainingTokens(budget) = 0
          \/ /\ context.webOnly \/ Remaining(budget, DocumentSearch) = 0
             /\ context.searchedWeb \/ ~context.hasWeb \/ Remaining(budget, WebSearch) = 0

\* Every run ends, whatever the model asks for and however often the synthesis sends
\* it back (react_pipeline.py, stop_when_budget_ends and the edge from synthesize).
RunEnds == <>(pc = "over")
================================================================================
