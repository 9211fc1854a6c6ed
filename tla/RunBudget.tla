------------------------------- MODULE RunBudget -------------------------------
(***************************************************************************)
(* The budget one agent run shares among its tools (agent/contracts.py,    *)
(* RunBudget) and the admission of a tool call (agent/policies.py,         *)
(* run_with_budget). Every method holds the budget's lock, so each is one  *)
(* operator from a budget to the next. Only the two searches have a quota; *)
(* max_tool_calls no longer refuses anything and is left out, like the     *)
(* durations of calls. A call is known by the place of its record.         *)
(***************************************************************************)
EXTENDS Naturals, Sequences, FiniteSets

CONSTANTS MaxDocs,     \* max_document_search_calls
          MaxWeb,      \* max_web_search_calls
          MaxContext   \* max_context_tokens

ASSUME LimitsAssumption == MaxDocs \in Nat /\ MaxWeb \in Nat /\ MaxContext \in Nat

DocumentSearch == "document_search"
WebSearch == "web_search"
Tools == {DocumentSearch, WebSearch, "search_docs_selection", "select_context"}
None == "none"

Total(f) == f[DocumentSearch] + f[WebSearch] + f["search_docs_selection"] + f["select_context"]

\* RunBudget.__init__: nothing consumed, no call recorded.
NewBudget == [calls |-> [t \in Tools |-> 0], active |-> [t \in Tools |-> 0],
              tokens |-> 0, completed |-> 0, failed |-> 0, timedOut |-> 0, trace |-> <<>>]

Remaining(b, tool) ==
    CASE tool = DocumentSearch -> MaxDocs - b.calls[tool]
      [] tool = WebSearch      -> MaxWeb - b.calls[tool]
      [] OTHER                 -> 1

RemainingTokens(b) == MaxContext - b.tokens

\* _reservation_reason_locked: why the call is refused, None when it is admitted.
Refusal(b, tool) ==
    CASE RemainingTokens(b) <= 0                               -> "max_context_tokens"
      [] tool = DocumentSearch /\ b.calls[tool] >= MaxDocs     -> "max_document_search_calls"
      [] tool = WebSearch /\ b.calls[tool] >= MaxWeb           -> "max_web_search_calls"
      [] OTHER                                                 -> None

CanReserve(b, tool) == Refusal(b, tool) = None

\* reserve, once admitted: the unit is consumed when the call starts.
Reserve(b, tool) ==
    [b EXCEPT !.calls[tool] = @ + 1, !.active[tool] = @ + 1,
              !.trace = Append(@, [tool |-> tool, status |-> "reserved"])]

\* complete closes the latest open call of the tool, whichever call has ended.
Mark(trace, tool, status) ==
    LET Open == {i \in DOMAIN trace : trace[i] = [tool |-> tool, status |-> "reserved"]}
        last == CHOOSE i \in Open : \A j \in Open : j <= i
    IN [trace EXCEPT ![last].status = status]

\* complete, fail and timeout of a call that is active: the unit stays consumed.
Close(b, tool, status) ==
    [b EXCEPT !.active[tool] = @ - 1,
              !.completed = IF status = "completed" THEN @ + 1 ELSE @,
              !.failed = IF status = "completed" THEN @ ELSE @ + 1,
              !.timedOut = IF status = "timeout" THEN @ + 1 ELSE @,
              !.trace = Mark(@, tool, status)]

\* fail, for calls that are cancelled: held says how many of each tool. Each closes
\* the latest record of its tool that is still open.
FailAll(b, held) ==
    LET Open(t) == {i \in DOMAIN b.trace : b.trace[i] = [tool |-> t, status |-> "reserved"]}
        Latest == UNION {{i \in Open(t) : Cardinality({j \in Open(t) : j > i}) < held[t]} :
                         t \in Tools}
    IN [b EXCEPT !.active = [t \in Tools |-> @[t] - held[t]],
                 !.failed = @ + Total(held),
                 !.trace = [i \in DOMAIN @ |-> IF i \in Latest THEN [@[i] EXCEPT !.status = "failed"]
                                               ELSE @[i]]]

\* record_context_tokens checks and adds under the lock.
Affordable(b, n) == b.tokens + n <= MaxContext
RecordTokens(b, n) == [b EXCEPT !.tokens = @ + n]

Traced(b, tool, status) ==
    Cardinality({i \in DOMAIN b.trace : b.trace[i] = [tool |-> tool, status |-> status]})
TracedStatus(b, status) == Cardinality({i \in DOMAIN b.trace : b.trace[i].status = status})

\* BudgetSnapshot refuses anything else, so that every snapshot would raise.
Sound(b) ==
    /\ b.calls[DocumentSearch] <= MaxDocs
    /\ b.calls[WebSearch] <= MaxWeb
    /\ b.tokens <= MaxContext
    /\ Total(b.active) <= Total(b.calls)
    /\ b.completed + b.failed <= Total(b.calls)
    /\ b.timedOut <= b.failed

\* The records of the calls add up to the counters, tool by tool.
Accounted(b) ==
    /\ \A t \in Tools : /\ Traced(b, t, "reserved") = b.active[t]
                        /\ Cardinality({i \in DOMAIN b.trace : b.trace[i].tool = t}) = b.calls[t]
    /\ TracedStatus(b, "completed") = b.completed
    /\ TracedStatus(b, "timeout") = b.timedOut
    /\ TracedStatus(b, "failed") + b.timedOut = b.failed
================================================================================
