------------------------------- MODULE AgentGraph -------------------------------
(***************************************************************************)
(* The main agent over its explicit graph (agent/graph.py), which is built *)
(* when no orchestrating model is given, and the runs and resumed runs of  *)
(* MainAgent (agent/orchestrator.py). The channels of the graph belong to  *)
(* the thread of a run and survive its rounds: a question, then one answer *)
(* to each clarification. What a search, a selection or an answer is about *)
(* is the round in which it was made; 0 stands for a channel never         *)
(* written. Services may answer anything their callers accept, or raise.   *)
(***************************************************************************)
EXTENDS RunBudget

CONSTANT MaxRounds   \* bound on the rounds of a run

VARIABLES deps,      \* which optional dependencies are configured
          channels,  \* AgentGraphState of the thread
          spent,     \* the RunBudget of the run
          node,      \* the node that runs, or "idle" between rounds
          round,     \* rounds begun so far
          waiting,   \* _clarification_runs holds the run
          cut,       \* some round was cancelled or ended by an exception
          answer     \* the last AgentRunResult

graphVars == <<deps, channels, spent, node, round, waiting, cut, answer>>

NoDocs == [status |-> None, round |-> 0]
Empty == [decision |-> None, outcome |-> None, stage |-> None, docs |-> NoDocs, strategy |-> None,
          selection |-> 0, web |-> 0, ledger |-> {}, synthesis |-> None,
          answer |-> 0, clarification |-> 0, error |-> None]
NoResult == [outcome |-> None, stage |-> None, answer |-> 0, clarification |-> 0]

GraphInit ==
    /\ deps \in [web : BOOLEAN, synthesizer : BOOLEAN, orchestrator : BOOLEAN,
                 clarify : BOOLEAN, strategy : BOOLEAN, concepts : BOOLEAN]
    /\ channels = Empty
    /\ spent = NewBudget
    /\ node = "idle"
    /\ round = 0
    /\ waiting = FALSE
    /\ cut = FALSE
    /\ answer = NoResult

\* The conditional edges; a decision without one makes the graph raise.
Edges ==
    [receive_question |-> [select |-> "document_search_tool", web |-> "web_search_tool",
                           failed |-> "failed"],
     evaluate_local_evidence |-> [select |-> "choose_selection_strategy", synthesize |-> "synthesize",
                                  web |-> "web_search_tool", clarify |-> "needs_clarification",
                                  insufficient |-> "completed", failed |-> "failed"],
     select_evidence |-> [synthesize |-> "synthesize", web |-> "web_search_tool",
                          clarify |-> "needs_clarification", insufficient |-> "completed",
                          failed |-> "failed"],
     web_search_tool |-> [synthesize |-> "synthesize", clarify |-> "needs_clarification",
                          insufficient |-> "completed", failed |-> "failed"],
     synthesize |-> [validate |-> "validate_answer", insufficient |-> "completed",
                     failed |-> "failed"],
     validate_answer |-> [complete |-> "completed", failed |-> "failed"]]

\* Nodes whose only edge is unconditional.
Always ==
    [document_search_tool |-> "evaluate_local_evidence",
     choose_selection_strategy |-> "select_evidence",
     needs_clarification |-> "completed", completed |-> "end", failed |-> "end"]

\* The node writes its update into the channels, and its edge is taken.
Write(update) ==
    /\ channels' = update
    /\ node' = IF node \in DOMAIN Always THEN Always[node]
               ELSE IF update.decision \in DOMAIN Edges[node] THEN Edges[node][update.decision]
               ELSE "raised"
    /\ UNCHANGED <<deps, round, waiting, cut, answer>>

Failure(error) ==
    [channels EXCEPT !.stage = "failed", !.outcome = "failed", !.decision = "failed",
                     !.answer = 0, !.synthesis = None, !.error = error]
BudgetFailure(error) ==
    [channels EXCEPT !.stage = "failed", !.outcome = "budget_exhausted", !.decision = "failed",
                     !.error = error]
Insufficient ==
    [channels EXCEPT !.stage = "evaluating", !.outcome = "insufficient", !.decision = "insufficient"]

\* A policy or a factory that is not guarded raises.
Throw ==
    /\ node' = "raised"
    /\ UNCHANGED <<deps, channels, spent, round, waiting, cut, answer>>

-----------------------------------------------------------------------------
(***************************************************************************)
(* The nodes                                                               *)
(***************************************************************************)
ReceiveQuestion(explicitWeb) ==
    /\ node = "receive_question"
    /\ Write([channels EXCEPT !.stage = "received", !.outcome = None,
                              !.decision = IF explicitWeb THEN "web" ELSE "select"])
    /\ UNCHANGED spent

\* A search under run_with_budget, with everything that comes of it.
Search(tool, Then) ==
    IF ~CanReserve(spent, tool)
    THEN Write(BudgetFailure(tool)) /\ UNCHANGED spent
    ELSE \E status \in {"completed", "failed", "timeout"} :
            /\ spent' = Close(Reserve(spent, tool), tool, status)
            /\ IF status = "completed" THEN Then ELSE Write(Failure(tool))

DocumentSearchTool ==
    LET Found == \E status \in {"ready", "no_hits", "no_context"} :
            Write([channels EXCEPT !.docs = [status |-> status, round |-> round],
                                   !.stage = "searching", !.decision = "select"])
    IN /\ node = "document_search_tool"
       /\ Search(DocumentSearch, Found)

\* What ModelOrchestratorPolicy may answer at a stage; None when it raises.
Routes(stage) ==
    IF ~deps.orchestrator THEN {None}
    ELSE IF stage = "web" THEN {None, "synthesize"} ELSE {None, "select", "web", "synthesize"}
Routed(fallback, route) == IF route = None THEN fallback ELSE route

\* Fault: the node that evaluates does not look at what failed before.
HasFailedIgnored == FALSE

HasFailed == channels.decision = "failed" \/ channels.outcome \in {"failed", "budget_exhausted"}

\* ClarificationPolicy asks only about results that are ready.
EvaluateLocalEvidence ==
    /\ node = "evaluate_local_evidence"
    /\ \/ HasFailed /\ Write(channels)
       \/ ~HasFailed /\ channels.docs = NoDocs /\ Write(Failure("evaluate"))
       \/ /\ ~HasFailed
          /\ channels.docs # NoDocs
          /\ deps.clarify
          /\ channels.docs.status = "ready"
          /\ Write([channels EXCEPT !.clarification = round, !.stage = "evaluating",
                                    !.decision = "clarify"])
       \/ /\ ~HasFailed
          /\ channels.docs # NoDocs
          /\ LET ready == channels.docs.status = "ready"
                 fallback == IF ready THEN "select" ELSE IF deps.web THEN "web" ELSE "insufficient"
             IN \E route \in IF ready THEN Routes("documents") ELSE {None} :
                   Write([channels EXCEPT
                            !.stage = "evaluating", !.decision = Routed(fallback, route),
                            !.outcome = IF Routed(fallback, route) = "insufficient"
                                        THEN "insufficient" ELSE None])
    /\ UNCHANGED spent

\* What the strategy policy answers is a strategy or refused; without one, concepts
\* are used when the results have relations.
ChooseSelectionStrategy ==
    /\ node = "choose_selection_strategy"
    /\ \/ Write(Failure("strategy")) /\ deps.strategy
       \/ \E strategy \in {"concept", "paragraph"} :
             /\ deps.strategy \/ strategy = "paragraph" \/ deps.concepts
             /\ Write([channels EXCEPT !.strategy = strategy, !.stage = "selecting",
                                       !.decision = "synthesize"])
    /\ UNCHANGED spent

SelectEvidence ==
    /\ node = "select_evidence"
    /\ \/ /\ channels.strategy = None \/ (channels.strategy = "concept" /\ ~deps.concepts)
          /\ Write(Failure("selection"))
       \/ /\ channels.strategy # None
          /\ channels.strategy = "concept" => deps.concepts
          /\ \/ Write(Failure("selection"))
             \/ LET decision == IF deps.web THEN "web" ELSE "insufficient" IN
                Write([channels EXCEPT
                         !.selection = 0, !.stage = "selecting", !.decision = decision,
                         !.outcome = IF decision = "insufficient" THEN "insufficient" ELSE None])
             \/ \E route \in Routes("selection") :
                Write([channels EXCEPT
                         !.selection = channels.docs.round, !.stage = "selecting",
                         !.decision = Routed("synthesize", route),
                         !.outcome = IF route = None THEN @ ELSE None])
    /\ UNCHANGED spent

WebSearchTool ==
    LET Found ==
            \/ IF deps.synthesizer
               THEN Write([channels EXCEPT !.web = 0, !.stage = "web_searching", !.decision = "synthesize"])
               ELSE Write(Insufficient)
            \/ \E route \in Routes("web") :
               Write([channels EXCEPT !.web = round, !.stage = "web_searching",
                                      !.decision = Routed("synthesize", route)])
    IN /\ node = "web_search_tool"
       /\ IF deps.web THEN Search(WebSearch, Found) ELSE Write(Insufficient) /\ UNCHANGED spent

NeedsClarification ==
    /\ node = "needs_clarification"
    /\ Write(IF channels.clarification = 0 THEN Failure("clarification")
             ELSE [channels EXCEPT !.stage = "waiting", !.outcome = "needs_clarification",
                                   !.decision = "complete"])
    /\ UNCHANGED spent

\* _default_ledger: the paragraphs of the selection and the pages of the web.
Ledger == {r \in {channels.selection, channels.web} : r > 0}

\* What the synthesizer cites lies in the ledger or not.
SynthesizeAnswer ==
    /\ node = "synthesize"
    /\ \/ ~deps.synthesizer /\ Write(Insufficient)
       \/ /\ deps.synthesizer
          /\ \/ Write(Failure("synthesis"))
             \/ \E cites \in {"inside", "outside"} :
                Write([channels EXCEPT !.ledger = Ledger, !.synthesis = cites, !.answer = round,
                                       !.stage = "synthesizing", !.decision = "validate"])
    /\ UNCHANGED spent

ValidateAnswer ==
    /\ node = "validate_answer"
    /\ Write(IF channels.synthesis = "inside"
             THEN [channels EXCEPT !.decision = "complete", !.outcome = "answered"]
             ELSE Failure("validation"))
    /\ UNCHANGED spent

Completed ==
    /\ node = "completed"
    /\ LET outcome == IF channels.outcome = None THEN "insufficient" ELSE channels.outcome IN
       Write([channels EXCEPT !.outcome = outcome,
                              !.stage = IF outcome = "needs_clarification" THEN "waiting" ELSE "completed"])
    /\ UNCHANGED spent

Failed ==
    /\ node = "failed"
    /\ Write([channels EXCEPT
                !.stage = "failed",
                !.outcome = IF @ \in {"budget_exhausted", "failed"} THEN @ ELSE "failed"])
    /\ UNCHANGED spent

\* The clarification and strategy policies are called without a guard.
PolicyRaises ==
    \/ /\ node = "evaluate_local_evidence"
       /\ ~HasFailed /\ channels.docs # NoDocs /\ deps.clarify
       /\ Throw
    \/ /\ node = "choose_selection_strategy"
       /\ deps.strategy
       /\ Throw

-----------------------------------------------------------------------------
(***************************************************************************)
(* MainAgent                                                               *)
(***************************************************************************)
\* run: the graph starts over on the channels of its thread.
Ask ==
    /\ node = "idle"
    /\ round = 0
    /\ round' = 1
    /\ node' = "receive_question"
    /\ UNCHANGED <<deps, channels, spent, waiting, cut, answer>>

\* resume: one of the options, the same budget and thread.
Resume ==
    /\ node = "idle"
    /\ waiting
    /\ round < MaxRounds
    /\ round' = round + 1
    /\ node' = "receive_question"
    /\ UNCHANGED <<deps, channels, spent, waiting, cut, answer>>

Waits(result) == result.outcome = "needs_clarification" /\ result.clarification > 0

Return ==
    /\ node = "end"
    /\ answer' = [outcome |-> channels.outcome, stage |-> channels.stage,
                  answer |-> channels.answer, clarification |-> channels.clarification]
    /\ waiting' = Waits(answer')
    /\ node' = "idle"
    /\ UNCHANGED <<deps, channels, spent, round, cut>>

\* except BaseException: the entry of the run stays.
ReturnFailed ==
    /\ node = "raised"
    /\ answer' = [NoResult EXCEPT !.outcome = "failed", !.stage = "failed"]
    /\ cut' = TRUE
    /\ node' = "idle"
    /\ UNCHANGED <<deps, channels, spent, round, waiting>>

\* The task is cancelled at an await of a node; a search gives its reservation up.
CancelRun ==
    /\ node \notin {"idle", "end", "raised"}
    /\ LET tool == CASE node = "document_search_tool" -> DocumentSearch
                     [] node = "web_search_tool"      -> WebSearch
                     [] OTHER                         -> None
       IN spent' = IF tool = None \/ ~CanReserve(spent, tool) THEN spent
                   ELSE Close(Reserve(spent, tool), tool, "failed")
    /\ answer' = NoResult
    /\ cut' = TRUE
    /\ node' = "idle"
    /\ UNCHANGED <<deps, channels, round, waiting>>

GraphStep ==
    \/ \E w \in BOOLEAN : ReceiveQuestion(w)
    \/ DocumentSearchTool \/ EvaluateLocalEvidence \/ ChooseSelectionStrategy \/ SelectEvidence
    \/ WebSearchTool \/ NeedsClarification \/ SynthesizeAnswer \/ ValidateAnswer
    \/ Completed \/ Failed \/ PolicyRaises \/ Return \/ ReturnFailed

GraphNext == GraphStep \/ Ask \/ Resume \/ CancelRun

GraphSpec == GraphInit /\ [][GraphNext]_graphVars

-----------------------------------------------------------------------------
(***************************************************************************)
(* Properties                                                              *)
(***************************************************************************)
\* An answer reaches the caller only with the outcome of its validation, and never
\* with a failure (graph.py, _failure: "Never expose a synthesis that failed"); a round
\* whose budget ends does not take back what one cut short before it had written.
OnlyValidated ==
    /\ answer.outcome = "answered" => answer.answer = round /\ channels.synthesis = "inside"
    /\ answer.outcome = "failed" => answer.answer = 0
    /\ ~cut /\ answer.outcome = "budget_exhausted" => answer.answer = 0

\* Evidence is of the round it is cited in, so that no interpretation is answered
\* with what was found for another, unless a round was cut short: it leaves its
\* entry and its channels behind (orchestrator.py, run and resume).
FreshEvidence ==
    ~cut /\ answer.outcome = "answered" => channels.ledger \subseteq {round}

\* A run can be resumed after an outcome that asks for it, and a round that was not
\* cut short ends the wait otherwise; its budget spans all its rounds.
WaitsAsTold ==
    /\ ~cut /\ node = "idle" => waiting = (answer.outcome = "needs_clarification")
    /\ Sound(spent)
    /\ Accounted(spent)
    /\ \A t \in Tools : spent.active[t] = 0

\* The three together: what a caller of MainAgent.run and resume can rely on.
GraphSound == OnlyValidated /\ FreshEvidence /\ WaitsAsTold
================================================================================
