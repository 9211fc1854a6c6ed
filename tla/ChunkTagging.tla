----------------------------- MODULE ChunkTagging -----------------------------
(***************************************************************************)
(* What a model's answer becomes: the labels of a chunk                    *)
(* (tagging/structured_chunk.py, chunk_models.py, chunk_service.py), its   *)
(* relations in the database (ingestion/transaction.py) and its entries of *)
(* the concept catalog (ingestion/concept_catalog.py), and the tags of a   *)
(* single paragraph (tagging/adapters.py, models.py, use_cases.py). A      *)
(* request has two paragraphs under one heading, of which the first has    *)
(* existing candidates. The model may answer anything of the right shape;  *)
(* an answer of another shape is refused like an invalid one.              *)
(***************************************************************************)
EXTENDS Integers, FiniteSets, SequencesExt

CONSTANTS Concepts,      \* spellings of concepts
          Key(_),        \* normalize_concept_label
          Candidates,    \* existing candidates of the first paragraph, spellings
          Generated,     \* what the model may call a concept before it resolves it
          MaxLabels      \* bound on the labels of the first paragraph

ASSUME TaggingAssumption == Candidates \subseteq Concepts /\ MaxLabels \in Nat

VARIABLES tagStep,       \* how far the request has come
          alike,         \* whether its two paragraphs have one text
          result         \* what has been made of the answer

taggingVars == <<tagStep, alike, result>>

Paragraphs == {"p1", "p2"}
Offered(p) == IF p = "p1" THEN Candidates ELSE {}

TaggingInit == tagStep \in {"chunk", "paragraph"} /\ alike \in BOOLEAN /\ result = <<>>

To(next, value) == tagStep' = next /\ result' = value /\ UNCHANGED alike
Refused == To("refused", <<>>)

-----------------------------------------------------------------------------
(***************************************************************************)
(* The answer for a chunk                                                  *)
(***************************************************************************)
Actions == {"reuse_existing", "reuse_chunk_new", "create_new"}
Roles == {<<"Definition">>, <<"Definition", "Example">>, <<"Example", "Example">>}
Labels == [generated : Generated, action : Actions, resolved : Concepts, roles : Roles]

LabelLists(n) == UNION {[1..k -> Labels] : k \in 0..n}
FewLabels == {l \in LabelLists(1) : l = <<>> \/ l[1].roles = <<"Definition">>}

NewConcepts == {s \in SeqOf(Concepts \ Candidates, 2) : IsInjective(s)} \cup {<<c, c>> : c \in Concepts}

Answer(refs, one, two, new) ==
    [refs |-> refs, labels |-> [p \in Paragraphs |-> IF p = "p1" THEN one ELSE two], new |-> new]

\* _ParagraphRefAliases.restore
Restored(a) == IsInjective(a.refs) /\ ToSet(a.refs) = Paragraphs

\* The results check themselves.
WellFormed(a) ==
    /\ IsInjective(a.new)
    /\ \A p \in Paragraphs :
          /\ IsInjective([i \in DOMAIN a.labels[p] |-> a.labels[p][i].generated])
          /\ \A i \in DOMAIN a.labels[p] : IsInjective(a.labels[p][i].roles)

Provided(a, p, label) ==
    IF label.action = "reuse_existing" THEN label.resolved \in Offered(p)
    ELSE label.resolved \in ToSet(a.new)

ValidAgainst(a) ==
    \A p \in Paragraphs : \A i \in DOMAIN a.labels[p] : Provided(a, p, a.labels[p][i])

Relation(p, label, role) == <<p, label.resolved, role>>

\* ChunkTaggingService.tag_chunk: the relations in the order of the answer.
RelationsOf(a) ==
    FlattenSeq([n \in DOMAIN a.refs |->
        LET p == a.refs[n] IN
        FlattenSeq([i \in DOMAIN a.labels[p] |->
            LET label == a.labels[p][i] IN
            [r \in DOMAIN label.roles |-> Relation(p, label, label.roles[r])]])])

Answered(a) ==
    IF Restored(a) /\ WellFormed(a) /\ ValidAgainst(a)
    THEN To("tagged", [answer |-> a, relations |-> RelationsOf(a)])
    ELSE Refused

\* An answer may name a paragraph twice, leave one out or name another.
TagChunk ==
    /\ tagStep = "chunk"
    /\ \/ \E refs \in SetToSeqs(Paragraphs), new \in NewConcepts :
             \E one \in LabelLists(MaxLabels), two \in FewLabels : Answered(Answer(refs, one, two, new))
       \/ \E refs \in SeqOf(Paragraphs \cup {"p3"}, 3) : Answered(Answer(refs, <<>>, <<>>, <<>>))

\* Two labels may resolve to one concept: the commit refuses relations that repeat.
CommitChunk ==
    /\ tagStep = "tagged"
    /\ IF IsInjective(result.relations)
       THEN To("committed", [answer |-> result.answer, rows |-> ToSet(result.relations)])
       ELSE Refused

-----------------------------------------------------------------------------
(***************************************************************************)
(* The catalog of the document                                             *)
(***************************************************************************)
UsedIn(rows, key) == {row[1] : row \in {r \in rows : Key(r[2]) = key}}

Usage(rows, key) == Cardinality(UsedIn(rows, key))
SpellingsOf(rows, key) == {row[2] : row \in {r \in rows : Key(r[2]) = key}}

Entries(rows) ==
    {[key |-> k, usage |-> Usage(rows, k), spellings |-> SpellingsOf(rows, k)] :
        k \in {Key(row[2]) : row \in rows}}

\* An entry refuses two examples with one heading and text.
SameExamples(rows) == alike /\ \E row \in rows : UsedIn(rows, Key(row[2])) = Paragraphs

BuildCatalog ==
    /\ tagStep = "committed"
    /\ IF SameExamples(result.rows) THEN Refused
       ELSE To("catalogued", [rows |-> result.rows, entries |-> Entries(result.rows)])

-----------------------------------------------------------------------------
(***************************************************************************)
(* The tags of one paragraph                                               *)
(***************************************************************************)
TagLists == SeqOf(Generated, 2)
Resolutions == SeqOf([generated : Generated, action : {"reuse_existing", "keep_new"}, resolved : Concepts], 2)

Resolved(tags, resolutions) ==
    /\ \A i \in DOMAIN resolutions :
          resolutions[i].action = "reuse_existing" => resolutions[i].resolved \in Candidates
    /\ [i \in DOMAIN resolutions |-> resolutions[i].generated] = tags

TagsOf(resolutions) == [i \in DOMAIN resolutions |-> resolutions[i].resolved]

\* A result that repeats a tag is refused, be it generated or resolved.
TagParagraph ==
    /\ tagStep = "paragraph"
    /\ \E tags \in TagLists, resolutions \in Resolutions :
          IF IsInjective(tags) /\ Resolved(tags, resolutions) /\ IsInjective(TagsOf(resolutions))
          THEN To("resolved", [generated |-> tags, resolutions |-> resolutions])
          ELSE Refused

TaggingNext == TagChunk \/ CommitChunk \/ BuildCatalog \/ TagParagraph
TaggingSpec == TaggingInit /\ [][TaggingNext]_taggingVars

-----------------------------------------------------------------------------
(***************************************************************************)
(* Properties                                                              *)
(***************************************************************************)
RolesOf(labels, concept) ==
    UNION {ToSet(l.roles) : l \in {x \in ToSet(labels) : x.resolved = concept}}

\* What is committed for a paragraph are the roles its labels give to each concept, no
\* two labels give the same, and each concept was offered for that paragraph or is
\* new to the chunk (tag_chunk, validate_against, _validate_inputs).
CommittedIsAnswered ==
    tagStep = "committed" =>
        LET a == result.answer IN
        /\ \A p \in Paragraphs, c \in Concepts :
              {row[3] : row \in {r \in result.rows : r[1] = p /\ r[2] = c}} = RolesOf(a.labels[p], c)
        /\ Cardinality(result.rows)
              = FoldFunction(+, 0, [p \in Paragraphs |->
                    FoldLeft(LAMBDA sum, l : sum + Len(l.roles), 0, a.labels[p])])
        /\ \A row \in result.rows : row[2] \in Offered(row[1]) \cup ToSet(a.new)

\* The catalog has one entry per concept, however it is spelled, and counts the
\* paragraphs that use it, however many roles it has in them (build_concept_catalog).
CatalogCounts ==
    tagStep = "catalogued" =>
        /\ \A e, f \in result.entries : e.key = f.key => e = f
        /\ \A e \in result.entries : e.usage <= Cardinality(Paragraphs)
        /\ FoldSet(LAMBDA e, sum : e.usage + sum, 0, result.entries)
              = Cardinality({<<row[1], Key(row[2])>> : row \in result.rows})
        /\ alike => \A e \in result.entries : e.usage = 1

\* Every generated tag has one resolution, which is distinct from the others and, when it
\* is reused, was a candidate (TagParagraph.execute, TagConflictResolution).
TagsResolved ==
    tagStep = "resolved" =>
        /\ Len(result.resolutions) = Len(result.generated)
        /\ IsInjective(TagsOf(result.resolutions))
        /\ \A i \in DOMAIN result.resolutions :
              LET r == result.resolutions[i] IN r.action = "reuse_existing" => r.resolved \in Candidates

TaggingSound == CommittedIsAnswered /\ CatalogCounts /\ TagsResolved

=============================================================================
