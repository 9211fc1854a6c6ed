------------------------------- MODULE MCDocuments -------------------------------
(***************************************************************************)
(* The parts of the work on documents that share no state with each other, *)
(* one at a time: the jobs of the PDF viewer, the files (artifacts, the    *)
(* outputs of an extraction, the catalog of tags), the preparation of a    *)
(* document, the calls of models and the health of their providers, the    *)
(* tagging of a chunk, the catalog of concepts, the index, and the process *)
(* that holds them all together.                                           *)
(***************************************************************************)
EXTENDS LayoutJobs, ArtifactStore, Preparation, ModelCalls, ChunkTagging,
        ConceptCatalog, DocumentIndex, Application

\* One or two blocks of up to four tokens: "h" and "l" are the halves of one character, "s"
\* is a space.
Blocks2 == {b \in UNION {[1..n -> {"w", "s", "h", "l"}] : n \in 1..4} :
              /\ b[1] \notin {"s", "l"} /\ b[Len(b)] \notin {"s", "h"}
              /\ \A i \in 1..Len(b) - 1 : b[i] = "h" <=> b[i + 1] = "l"}
MCRows == {<<b>> : b \in Blocks2} \cup {<<b, d>> : b, d \in Blocks2}

MCKey(concept) == IF concept = "N" THEN "n" ELSE concept

\* The second version of d1 uses x twice and y no more; d2 goes from x to y.
MCObserved(d, v, l) ==
    CASE d = "d1" /\ v = 1 -> 1
      [] d = "d1" /\ v = 2 -> IF l = "x" THEN 2 ELSE 0
      [] d = "d2" /\ v = 1 -> IF l = "x" THEN 1 ELSE 0
      [] OTHER              -> IF l = "y" THEN 1 ELSE 0

\* Version 2 keeps a chunk and drops one, version 3 has none.
MCRecords(v) == CASE v = 1 -> <<1, 2>> [] v = 2 -> <<2>> [] OTHER -> <<>>

VARIABLE part
suiteVars == <<part, layoutVars, putVars, documentVars, catalogVars,
               preparationVars, taggingVars, conceptVars, indexVars,
               callVars, healthVars, applicationVars>>

\* Components that do not run start in one state only.
SuiteInit ==
    /\ part \in {"layout", "puts", "outputs", "tags", "preparation", "tagging", "concepts", "index",
                "calls", "health", "application"}
    /\ LayoutInit /\ FilesInit /\ ConceptsInit /\ IndexInit
    /\ IF part = "preparation" THEN PreparationInit
       ELSE step = "read" /\ product = <<>> /\ source = [i \in 1..Length |-> "text"]
    /\ TaggingInit /\ CallsInit /\ HealthInit /\ ApplicationInit
    /\ part # "tagging" => tagStep = "chunk" /\ alike
    /\ part # "calls" => client = "gateway"

LayoutStep ==
    /\ part = "layout" /\ LayoutNext
    /\ UNCHANGED <<part, putVars, documentVars, catalogVars, preparationVars, taggingVars, conceptVars, indexVars,
                   callVars, healthVars, applicationVars>>
PutsStep ==
    /\ part = "puts" /\ PutsNext
    /\ UNCHANGED <<part, layoutVars, documentVars, catalogVars, preparationVars, taggingVars, conceptVars, indexVars,
                   callVars, healthVars, applicationVars>>
OutputsStep ==
    /\ part = "outputs" /\ DocumentNext
    /\ UNCHANGED <<part, layoutVars, putVars, catalogVars, preparationVars, taggingVars, conceptVars, indexVars,
                   callVars, healthVars, applicationVars>>
TagsStep ==
    /\ part = "tags" /\ CatalogNext
    /\ UNCHANGED <<part, layoutVars, putVars, documentVars, preparationVars, taggingVars, conceptVars, indexVars,
                   callVars, healthVars, applicationVars>>
PreparationStep ==
    /\ part = "preparation" /\ PreparationNext
    /\ UNCHANGED <<part, layoutVars, putVars, documentVars, catalogVars, taggingVars, conceptVars, indexVars,
                   callVars, healthVars, applicationVars>>
TaggingStep ==
    /\ part = "tagging" /\ TaggingNext
    /\ UNCHANGED <<part, layoutVars, putVars, documentVars, catalogVars, preparationVars, conceptVars, indexVars,
                   callVars, healthVars, applicationVars>>
ConceptsStep ==
    /\ part = "concepts" /\ ConceptsNext
    /\ UNCHANGED <<part, layoutVars, putVars, documentVars, catalogVars, preparationVars, taggingVars, indexVars,
                   callVars, healthVars, applicationVars>>
IndexingStep ==
    /\ part = "index" /\ IndexNext
    /\ UNCHANGED <<part, layoutVars, putVars, documentVars, catalogVars, preparationVars, taggingVars, conceptVars,
                   callVars, healthVars, applicationVars>>

CallsStep ==
    /\ part = "calls" /\ CallsNext
    /\ UNCHANGED <<part, layoutVars, putVars, documentVars, catalogVars,
                   preparationVars, taggingVars, conceptVars, indexVars, healthVars, applicationVars>>
\* The clock is that of the calls.
HealthStep ==
    /\ part = "health" /\ (HealthNext \/ HealthTick)
    /\ UNCHANGED <<client, requests, circuit, outcomes, gauges, reports, counted, used>>
    /\ UNCHANGED <<part, layoutVars, putVars, documentVars, catalogVars,
                   preparationVars, taggingVars, conceptVars, indexVars, applicationVars>>
ProcessStep ==
    /\ part = "application" /\ ApplicationNext
    /\ UNCHANGED <<part, layoutVars, putVars, documentVars, catalogVars, preparationVars, taggingVars,
                   conceptVars, indexVars, callVars, healthVars>>

SuiteNext ==
    \/ LayoutStep \/ PutsStep \/ OutputsStep \/ TagsStep
    \/ PreparationStep \/ TaggingStep \/ ConceptsStep \/ IndexingStep
    \/ CallsStep \/ HealthStep \/ ProcessStep

SuiteSpec == SuiteInit /\ [][SuiteNext]_suiteVars

\* What is told apart in a document, tagged in its chunks and counted in the catalog is
\* what the document says.
TextsSound == PreparationExact /\ TaggingSound /\ CatalogAgrees
==================================================================================
