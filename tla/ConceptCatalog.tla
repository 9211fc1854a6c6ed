---------------------------- MODULE ConceptCatalog ----------------------------
(***************************************************************************)
(* The concept catalog of all documents while they are ingested: the       *)
(* observations that each version left (ingestion/concept_repository.py),  *)
(* the sums of them that a run embeds (ingestion/concept_embedding.py) and *)
(* writes as events with its document (ingestion/use_cases.py,             *)
(* vector_events.py), and the concept vectors that the events set. A       *)
(* version is ingested by one run, which may fail and be taken up again,   *)
(* and the runs of two documents go on at once.                            *)
(***************************************************************************)
EXTENDS Integers, FiniteSets, FiniteSetsExt

CONSTANTS Documents, Versions,     \* Versions == 1..n
          Terms,                 \* concepts by their normalized label
          Observed(_, _, _),       \* in how many paragraphs of a version a concept is
          MaxFailures              \* bound on the failures of runs

ASSUME CatalogAssumption == Versions \subseteq Nat \ {0}

VARIABLES observations,   \* the versions with rows in concept_catalog_observations
          active,         \* the published version of a document, or 0
          work,           \* its run: the version, how far it is, the catalog it read
          pending,        \* concept events to be applied
          vectors,        \* the usage in each concept's vector, or 0 without one
          failures,       \* how many runs have failed
          interleaved      \* some run has replaced its entries while another was under way

conceptVars == <<observations, active, work, pending, vectors, failures, interleaved>>

NoRun == [version |-> 0, at |-> "idle", catalog |-> <<>>]

ConceptsInit ==
    /\ observations = {}
    /\ active = [d \in Documents |-> 0]
    /\ work = [d \in Documents |-> NoRun]
    /\ pending = {}
    /\ vectors = [l \in Terms |-> 0]
    /\ failures = 0
    /\ interleaved = FALSE

\* The usage of the concepts over all observations; a concept that has none is not in
\* the catalog.
Sum(obs, l) == MapThenSumSet(LAMBDA o : Observed(o[1], o[2], l), obs)
Aggregate(obs) ==
    [l \in {x \in Terms : \E o \in obs : Observed(o[1], o[2], x) > 0} |-> Sum(obs, l)]

\* A version is handed in until it or a later one is published.
BeginVersion(d) ==
    /\ work[d].at = "idle"
    /\ \E v \in Versions :
          /\ v > active[d]
          /\ work' = [work EXCEPT ![d] = [NoRun EXCEPT !.version = v, !.at = "tagged"]]
    /\ UNCHANGED <<observations, active, pending, vectors, failures, interleaved>>

\* Fault: the rows of the published version stay.
ScopesOwn(d) == {<<d, work[d].version>>}

\* Only the published version is a previous version.
Scopes(d) == {<<d, work[d].version>>, <<d, active[d]>>}

ReplaceEntries(d) ==
    /\ work[d].at = "tagged"
    /\ observations' = (observations \ Scopes(d)) \cup {<<d, work[d].version>>}
    /\ work' = [work EXCEPT ![d].at = "replaced", ![d].catalog = Aggregate(observations')]
    /\ interleaved' = (interleaved \/ \E e \in Documents \ {d} : work[e].at \in {"replaced", "committed"})
    /\ UNCHANGED <<active, pending, vectors, failures>>

\* The whole catalog is embedded, and an event for each concept is committed.
EventsOf(d) ==
    {[run |-> <<d, work[d].version>>, label |-> l, usage |-> work[d].catalog[l]] : l \in DOMAIN work[d].catalog}

CommitEntries(d) ==
    /\ work[d].at = "replaced"
    /\ pending' = pending \cup EventsOf(d)
    /\ work' = [work EXCEPT ![d].at = "committed"]
    /\ UNCHANGED <<observations, active, vectors, failures, interleaved>>

\* A run applies its own events; the order of those of one concept is not that of time.
ApplyEvent(d) ==
    /\ work[d].at = "committed"
    /\ \E e \in pending :
          /\ e.run = <<d, work[d].version>>
          /\ vectors' = [vectors EXCEPT ![e.label] = e.usage]
          /\ pending' = pending \ {e}
    /\ UNCHANGED <<observations, active, work, failures, interleaved>>

PublishVersion(d) ==
    /\ work[d].at = "committed"
    /\ \A e \in pending : e.run # <<d, work[d].version>>
    /\ active' = [active EXCEPT ![d] = work[d].version]
    /\ work' = [work EXCEPT ![d] = NoRun]
    /\ UNCHANGED <<observations, pending, vectors, failures, interleaved>>

\* The embedding, the commit, the vector store or the process fails.
RunFails(d) ==
    /\ work[d].at # "idle"
    /\ failures < MaxFailures
    /\ failures' = failures + 1
    /\ work' = [work EXCEPT ![d] = NoRun]
    /\ UNCHANGED <<observations, active, pending, vectors, interleaved>>

ConceptsNext ==
    \E d \in Documents :
       \/ BeginVersion(d) \/ ReplaceEntries(d) \/ CommitEntries(d)
       \/ ApplyEvent(d) \/ PublishVersion(d) \/ RunFails(d)

ConceptsSpec == ConceptsInit /\ [][ConceptsNext]_conceptVars

-----------------------------------------------------------------------------
\* What the published versions amount to.
ShownVersions == {<<d, active[d]>> : d \in {e \in Documents : active[e] # 0}}
Quiet == \A d \in Documents : work[d].at = "idle"

\* The observations of a document are of its published version, of the run that is under
\* way or of a failed one: without failures no version is counted with its
\* predecessor, and none is lost (replace_document_entries).
CountedOnce ==
    /\ \A d \in Documents :
          failures = 0 => Cardinality({o \in observations : o[1] = d}) <= 1
    /\ failures = 0 /\ Quiet => observations = ShownVersions
    /\ \A d \in Documents : active[d] # 0 => \E o \in observations : o[1] = d

\* When nothing has failed and no two runs have interleaved, the vector of every concept
\* in the catalog has the usage of the catalog (ConceptCatalogVectorPreparationService,
\* publish, drain).
VectorsAgree ==
    failures = 0 /\ ~interleaved /\ Quiet =>
        \A l \in DOMAIN Aggregate(ShownVersions) : vectors[l] = Aggregate(ShownVersions)[l]

CatalogAgrees == CountedOnce /\ VectorsAgree

=============================================================================
