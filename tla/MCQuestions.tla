------------------------------- MODULE MCQuestions -------------------------------
(***************************************************************************)
(* The views of how a question is answered, one at a time: the tools of    *)
(* the react pipeline under its budget, the node graph of the other        *)
(* pipeline over several rounds, what becomes of the evidence, and what is *)
(* traced of it.                                                           *)
(***************************************************************************)
EXTENDS ReactPipeline, AgentGraph, Retrieval, AgentTracing

CONSTANTS d1, d2, w1

\* Two paragraphs, and a page whose text may change between two searches.
MCDocIds == {d1, d2}
MCWebIds == {w1}
MCSizes == [e \in {d1, d2, w1} |-> IF e = w1 THEN {1, 2} ELSE IF e = d2 THEN {2} ELSE {1}]

Paragraph(ref, chunk, text, pages, image, facts) ==
    [ref |-> ref, chunk |-> chunk, text |-> text, pages |-> pages, image |-> image, facts |-> facts]

\* Chunk 2 has no concepts, chunk 4 no paragraph; a text is stored twice, a concept has
\* two spellings and two roles, a paragraph no page to cite.
MCLibrary ==
    <<Paragraph(1, 1, "x", <<1>>, FALSE, << <<"c", "C", "def">> >>),
      Paragraph(2, 1, "y", <<0>>, TRUE, <<>>),
      Paragraph(3, 2, "x", <<0, 2>>, FALSE, << <<"c", "c", "use">>, <<"d", "d", "def">> >>),
      Paragraph(4, 3, "z", <<3>>, TRUE, << <<"c", "c", "def">> >>)>>
MCWords == [x |-> 1, y |-> 2, z |-> 3]

VARIABLE part
suiteVars == <<part, vars, graphVars, retrievalVars, tracingVars>>

\* Components that do not run start in one state only.
SuiteInit ==
    /\ part \in {"react", "graph", "retrieval", "tracing"}
    /\ Init /\ GraphInit /\ RetrievalInit /\ TracingInit
    /\ part # "react" => ~context.webOnly /\ ~context.hasWeb
    /\ part # "graph" => \A d \in DOMAIN deps : ~deps[d]
    /\ remotes[0] = IF part = "tracing" THEN "open" ELSE "none"

ReactStep ==
    /\ part = "react" /\ Next
    /\ UNCHANGED <<part, graphVars, retrievalVars, tracingVars>>
AskingStep ==
    /\ part = "graph" /\ GraphNext
    /\ UNCHANGED <<part, vars, retrievalVars, tracingVars>>
RetrievalStep ==
    /\ part = "retrieval" /\ RetrievalNext
    /\ UNCHANGED <<part, vars, graphVars, tracingVars>>
TracingStep ==
    /\ part = "tracing" /\ TracingNext
    /\ UNCHANGED <<part, vars, graphVars, retrievalVars>>
SuiteNext == ReactStep \/ AskingStep \/ RetrievalStep \/ TracingStep

\* The fairness of the react pipeline (FairSpec) while it runs.
SuiteSpec ==
    /\ SuiteInit /\ [][SuiteNext]_suiteVars
    /\ WF_suiteVars(/\ part = "react" /\ Work
                    /\ UNCHANGED <<part, graphVars, retrievalVars, tracingVars>>)

\* RunEnds, of the part it is about.
ReactEnds == part = "react" => RunEnds
=================================================================================
