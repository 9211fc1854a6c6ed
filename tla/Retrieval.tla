------------------------------- MODULE Retrieval -------------------------------
(***************************************************************************)
(* From ranked chunks to a cited answer: the rankings of two searches are  *)
(* fused (retrieval/adapters.py) or merged (agent/react_pipeline.py), the  *)
(* paragraphs of the hits are read back (retrieval/sqlite_context.py), a   *)
(* model selects paragraphs or concepts (agent/evidence_selection.py), the *)
(* selection is limited and rendered (retrieval) or becomes the evidence   *)
(* of a run (graph.py, evidence.py), whose answer has its citations        *)
(* renumbered (agent/synthesis.py). A question passes the stages in turn,  *)
(* and keeps of each what the next one reads. Chunks and paragraphs are    *)
(* numbers in the order of their names; a text stands for all texts that   *)
(* are equal once normalised, a concept is a key with a spelling.          *)
(***************************************************************************)
EXTENDS Lists

CONSTANTS Chunks,      \* the indexed chunks, numbers
          Library,     \* the stored paragraphs, a sequence ordered by chunk and position
          Words,       \* how many words each text has
          HitLimit,    \* how many hits a search may return
          RrfK,        \* rrf_k of the fusion
          MaxWords     \* bound on the token limits tried

\* What has a fact has a key, a spelling and a role.
Facts == [1..3 -> STRING]
Stored == [ref : Nat \ {0}, chunk : Nat \ {0}, text : DOMAIN Words, pages : Seq(Int),
           image : BOOLEAN, facts : Seq(Facts)]

ASSUME RetrievalAssumption ==
    /\ Chunks \in SUBSET (Nat \ {0}) /\ IsFiniteSet(Chunks)
    /\ HitLimit \in Nat \ {0} /\ RrfK \in Nat /\ MaxWords \in Nat
    /\ \A text \in DOMAIN Words : Words[text] \in Nat
    /\ Library \in Seq(Stored)
    /\ \A i, j \in DOMAIN Library : Library[i].ref = Library[j].ref => i = j

VARIABLES stage,       \* the last stage passed
          given,       \* what that stage was given
          made         \* what it made of it

retrievalVars == <<stage, given, made>>

Rankings == {r \in SetToAllKPermutations(Chunks) : Len(r) <= HitLimit}

RetrievalInit == stage = "asked" /\ given = <<>> /\ made = <<>>

Pass(next, inputs, output) == stage' = next /\ given' = inputs /\ made' = output
Refuse(inputs, error) == Pass("refused", inputs, error)

Prefix(s, n) == SubSeq(s, 1, IF n < Len(s) THEN n ELSE Len(s))

-----------------------------------------------------------------------------
(***************************************************************************)
(* Hits                                                                    *)
(***************************************************************************)
\* 1 / (rrf_k + rank) over the common denominator of all ranks.
Weight(ranking, c) ==
    LET rank == SelectInSeq(ranking, LAMBDA x : x = c)
    IN IF rank = 0 THEN 0
       ELSE ProductSet({RrfK + r : r \in 1..Cardinality(Chunks)}) \div (RrfK + rank)

Fused(semantic, lexical, c) == Weight(semantic, c) + Weight(lexical, c)

Fuse(semantic, lexical) ==
    LET Before(a, b) ==
            \/ Fused(semantic, lexical, a) > Fused(semantic, lexical, b)
            \/ Fused(semantic, lexical, a) = Fused(semantic, lexical, b) /\ a < b
    IN Prefix(InOrder(ToSet(semantic) \cup ToSet(lexical), Before), HitLimit)

\* The rows of zip_longest one after the other.
Interleaved(one, other) ==
    LET At(s, i) == IF i \in DOMAIN s THEN <<s[i]>> ELSE <<>>
        longest == IF Len(one) < Len(other) THEN Len(other) ELSE Len(one)
    IN FlattenSeq([i \in 1..longest |-> At(one, i) \o At(other, i)])

Merged(one, other) == FirstOnes(Interleaved(one, other), HitLimit)

SearchFused ==
    /\ stage = "asked"
    /\ \E semantic, lexical \in Rankings :
          Pass("fused", <<semantic, lexical>>, Fuse(semantic, lexical))

SearchTwoLanguages ==
    /\ stage = "asked"
    /\ \E one, other \in Rankings : Pass("merged", <<one, other>>, Merged(one, other))

-----------------------------------------------------------------------------
(***************************************************************************)
(* What is stored about them                                               *)
(***************************************************************************)
StoredIn(chunk) == Among(Library, {p \in ToSet(Library) : p.chunk = chunk})
Hydrated(hits) == FlattenSeq([i \in DOMAIN hits |-> StoredIn(hits[i])])

\* The concept relations of paragraphs, in their order.
Relations(ps) ==
    FlattenSeq([i \in DOMAIN ps |->
        [j \in DOMAIN ps[i].facts |-> [ref |-> ps[i].ref, chunk |-> ps[i].chunk, key |-> ps[i].facts[j][1],
                                       spelling |-> ps[i].facts[j][2], role |-> ps[i].facts[j][3]]]])

\* The status of a DocumentSearchResult; the legacy service builds one as well.
StatusOf(hits) ==
    IF hits = <<>> THEN "no_hits" ELSE IF Hydrated(hits) = <<>> THEN "no_context" ELSE "ready"

LoadForHits ==
    /\ stage \in {"fused", "merged"}
    /\ IF StatusOf(made) = "ready"
       THEN Pass("found", made, Hydrated(made))
       ELSE Pass("answered", made, StatusOf(made))

\* RetrieveEvidence.execute: every hit with its text; no hits, a reason.
BundleEvidence ==
    /\ stage = "fused"
    /\ Pass("bundled", made, [refs |-> made, reason |-> made = <<>>])

-----------------------------------------------------------------------------
(***************************************************************************)
(* Selection                                                               *)
(***************************************************************************)
\* Two paragraphs of one text become one choice: the reference of the first with
\* the place of the second.
MergedChoice(left, right) ==
    [right EXCEPT !.ref = left.ref, !.pages = Distinct(left.pages \o right.pages),
                  !.image = left.image \/ right.image]

AddChoice(choices, p) ==
    LET same == SelectInSeq(choices, LAMBDA c : c.text = p.text)
    IN IF same = 0 THEN Append(choices, p) ELSE [choices EXCEPT ![same] = MergedChoice(@, p)]

ParagraphChoices(ps) == FoldLeft(AddChoice, <<>>, ps)

Context(roles, ps, refs) == [roles |-> roles, paragraphs |-> ps, refs |-> refs]

\* The model answers with keys, perhaps unknown ones.
SelectDirect ==
    /\ stage = "found"
    /\ LET choices == ParagraphChoices(made) IN
       \E keys \in SetToAllKPermutations(DOMAIN choices \cup {Len(choices) + 1}) :
          IF \E i \in DOMAIN keys : keys[i] > Len(choices)
          THEN Refuse(given, "unknown key")
          ELSE LET chosen == [i \in DOMAIN keys |-> choices[keys[i]]] IN
               Pass("selected", given, Context(<<>>, chosen, [i \in DOMAIN chosen |-> chosen[i].ref]))

\* One item per concept key, labelled with the spelling met first.
Inventory(rels) ==
    {[key |-> k,
      label |-> rels[SelectInSeq(rels, LAMBDA r : r.key = k)].spelling,
      roles |-> {r.role : r \in {x \in ToSet(rels) : x.key = k}},
      chunks |-> {r.chunk : r \in {x \in ToSet(rels) : x.key = k}}]
     : k \in {r.key : r \in ToSet(rels)}}

\* The model answers with roles of listed concepts, validated against the request.
Picks(items) ==
    UNION {[1..n -> {[item |-> it, role |-> r] : it \in items, r \in UNION {i.roles : i \in items}}]
           : n \in 1..2}
Valid(picks) ==
    /\ \A i \in DOMAIN picks : picks[i].role \in picks[i].item.roles
    /\ \A i, j \in DOMAIN picks : i # j => picks[i] # picks[j]

IsAbout(rel, pick) == rel.key = pick.item.key /\ rel.role = pick.role

\* Sorted references of the paragraphs a selected concept and role stand for.
Traversed(rels, pick) ==
    InOrder({r.ref : r \in {x \in ToSet(rels) : IsAbout(x, pick) /\ x.chunk \in pick.item.chunks}},
            LAMBDA a, b : a < b)

ByRef(ps, ref) == ps[SelectInSeq(ps, LAMBDA p : p.ref = ref)]

\* Paragraphs with images of the selected chunks, when the question asks to see them.
WithImages(ps, all, wanted) ==
    LET chunks == {ps[i].chunk : i \in DOMAIN ps}
    IN IF ~wanted THEN ps
       ELSE ps \o Among(all, {p \in ToSet(all) : p.chunk \in chunks /\ p.image /\ ~Contains(ps, p)})

SelectConcepts ==
    /\ stage = "found"
    /\ LET rels == Relations(made) IN
       IF rels = <<>> THEN Pass("selected", given, Context(<<>>, <<>>, <<>>))
       ELSE \E picks \in {p \in Picks(Inventory(rels)) : Valid(p)}, wanted \in BOOLEAN :
               LET refs == [i \in DOMAIN picks |-> Traversed(rels, picks[i])]
                   named == Distinct(FlattenSeq(refs))
                   chosen == [i \in DOMAIN named |-> ByRef(made, named[i])]
               IN IF \E i \in DOMAIN refs : refs[i] = <<>>
                  THEN Refuse(given, "no paragraph")
                  ELSE Pass("selected", given, Context(refs, WithImages(chosen, made, wanted), <<>>))

\* SelectionResult and validate_against.
RefsOf(context) ==
    IF context.refs # <<>> THEN context.refs ELSE Distinct(FlattenSeq(context.roles))
InScope(context, hits) ==
    LET ps == context.paragraphs IN
    /\ \A i, j \in DOMAIN ps : ps[i].ref = ps[j].ref => i = j
    /\ \A ref \in ToSet(RefsOf(context)) :
          /\ \E i \in DOMAIN ps : ps[i].ref = ref
          /\ \E p \in ToSet(Hydrated(hits)) : p.ref = ref
    /\ \A i \in DOMAIN ps : Contains(hits, ps[i].chunk)

-----------------------------------------------------------------------------
(***************************************************************************)
(* Limit and rendering                                                     *)
(***************************************************************************)
WordCount(ps) == FoldLeft(LAMBDA n, p : n + Words[p.text], 0, ps)

\* Whole paragraphs as long as they fit.
Kept(ps, maxParagraphs, maxTokens) ==
    LET fits == {n \in 0..Len(ps) : n <= maxParagraphs /\ WordCount(Prefix(ps, n)) <= maxTokens}
    IN Prefix(ps, CHOOSE n \in fits : \A m \in fits : m <= n)

Limited(context, kept) ==
    LET Known(refs) == Among(refs, {kept[i].ref : i \in DOMAIN kept})
        roles == [i \in DOMAIN context.roles |-> Known(context.roles[i])]
    IN Context(Among(roles, ToSet(roles) \ {<<>>}), kept, Known(context.refs))

LimitAndRender ==
    /\ stage = "selected"
    /\ IF RefsOf(made) = <<>> THEN Pass("answered", given, "nothing relevant")
       ELSE \E maxParagraphs \in 1..3, maxTokens \in 1..MaxWords :
               LET kept == Kept(made.paragraphs, maxParagraphs, maxTokens)
                   limited == Limited(made, kept)
               IN IF kept = <<>> THEN Refuse(given, "first paragraph exceeds token limit")
                  ELSE Pass("rendered", [context |-> made, tokens |-> maxTokens],
                            [context |-> limited, labels |-> RefsOf(limited)])

\* What a model may say it used: keys of labels, or references it should not know.
Names == {<<>>} \cup UNION {[1..n -> [key : BOOLEAN, n : 1..2]] : n \in 1..2}

Named(labels, name) ==
    IF ~name.key THEN name.n ELSE IF name.n \in DOMAIN labels THEN labels[name.n] ELSE 0

\* The answer of the chat without an agent (chat/compatibility.py); an image that is not to be
\* had is left out, but its caption is not: with one, the answer is refused.
AnswerGrounded ==
    /\ stage = "rendered"
    /\ \E names \in Names, captioned \in BOOLEAN :
          LET shown == made.context.paragraphs
              refs == [i \in DOMAIN names |-> Named(made.labels, names[i])]
              sources == Among(made.labels, ToSet(refs))
              images == {r \in ToSet(sources) : ByRef(shown, r).image}
          IN IF \/ Distinct(refs) # refs
                \/ \E i \in DOMAIN refs : \A j \in DOMAIN shown : shown[j].ref # refs[i]
             THEN Refuse(given, "used paragraph refs")
             ELSE \E missing \in SUBSET images :
                     IF captioned /\ missing # {} THEN Refuse(given, "image captions")
                     ELSE Pass("grounded", [refs |-> refs, labels |-> made.labels],
                               [sources |-> sources, images |-> images \ missing])

-----------------------------------------------------------------------------
(***************************************************************************)
(* Evidence and citations                                                  *)
(***************************************************************************)
\* A paragraph without a positive page is left out.
Citable(p) == \E i \in DOMAIN p.pages : p.pages[i] > 0

\* _default_ledger: the identities are those of places, so that they are unique
\* unless two pages of the web have one address.
BuildLedger ==
    /\ stage = "selected"
    /\ \E web \in {<<>>, <<"a">>, <<"a", "b">>, <<"a", "a">>} :
          IF Distinct(web) # web THEN Refuse(given, "evidence IDs must be unique")
          ELSE LET cited == Among(made.paragraphs, {p \in ToSet(made.paragraphs) : Citable(p)}) IN
               Pass("ledger", [paragraphs |-> Len(made.paragraphs)],
                    [size |-> Len(cited) + Len(web),
                     images |-> {i \in DOMAIN cited : cited[i].image}])

\* What the model may answer: citations, the markers of its text, images, and
\* whether the evidence sufficed; what it says it used is what it cites or not.
Outputs(ledger) ==
    LET ids == 1..(ledger.size + 1)
        labels == 1..3
        cites == {<<>>} \cup {<<c>> : c \in ids \X labels}
                 \cup {<<c, d>> : c, d \in ids \X labels}
    IN [cites : cites, marks : {<<>>, <<1>>, <<2>>, <<3>>, <<1, 2>>, <<2, 1>>, <<2, 1, 2>>, <<3, 2>>},
        used : {"cited", "other"}, images : SUBSET (1..1), enough : BOOLEAN]

CitedIds(output) == {output.cites[i][1] : i \in DOMAIN output.cites}
CitedLabels(output) == {output.cites[i][2] : i \in DOMAIN output.cites}

\* validate_unique_ids, validate_against and _normalize_inline_citations.
Accepted(output, ledger) ==
    /\ Cardinality(CitedIds(output)) = Len(output.cites)
    /\ Cardinality(CitedLabels(output)) = Len(output.cites)
    /\ CitedIds(output) \subseteq 1..ledger.size
    /\ output.images \subseteq ledger.images
    /\ ToSet(output.marks) = CitedLabels(output)
    /\ output.used = "cited"
    /\ output.enough => output.cites # <<>>

LabelIndex(output, label) == SelectInSeq(output.cites, LAMBDA c : c[2] = label)

\* Fault: the labels are replaced one after the other in the whole text.
RenumberedInTurn(output) ==
    LET Replace(marks, i) == ReplaceAll(marks, output.cites[i][2], i)
    IN FoldLeft(Replace, output.marks, [i \in DOMAIN output.cites |-> i])

\* One substitution over the text.
Renumbered(output) == [i \in DOMAIN output.marks |-> LabelIndex(output, output.marks[i])]

SynthesizeCited ==
    /\ stage = "ledger"
    /\ \E output \in Outputs(made), wanted \in BOOLEAN :
          LET shown == output.images \cup IF wanted /\ output.enough THEN made.images ELSE {}
          IN IF ~Accepted(output, made) THEN Refuse(given, "synthesis")
             ELSE Pass("cited", [output |-> output, ledger |-> made],
                       [marks |-> Renumbered(output), images |-> shown,
                        used |-> CitedIds(output) \cup IF wanted /\ output.enough THEN made.images ELSE {}])

RetrievalNext ==
    \/ SearchFused \/ SearchTwoLanguages \/ LoadForHits \/ BundleEvidence
    \/ SelectDirect \/ SelectConcepts \/ LimitAndRender \/ AnswerGrounded
    \/ BuildLedger \/ SynthesizeCited

RetrievalSpec == RetrievalInit /\ [][RetrievalNext]_retrievalVars

-----------------------------------------------------------------------------
(***************************************************************************)
(* Properties                                                              *)
(***************************************************************************)
\* A chunk that no ranking places behind another, and one before it, comes first.
FusedInOrder ==
    stage = "fused" =>
        LET Rank(s, c) == IF Contains(s, c) THEN SelectInSeq(s, LAMBDA x : x = c) ELSE HitLimit + 1
            Behind(a, b) == \A s \in ToSet(given) : Rank(s, a) >= Rank(s, b)
        IN \A a, b \in ToSet(given[1]) \cup ToSet(given[2]) :
              Behind(a, b) /\ ~Behind(b, a) /\ Contains(made, a)
                  => Contains(made, b) /\ Rank(made, b) < Rank(made, a)

\* "One language cannot crowd the other out of the hit cap": the better half of
\* either ranking is kept.
NothingCrowdedOut ==
    stage = "merged" =>
        \A q \in 1..2 : \A i \in DOMAIN given[q] : 2 * i <= HitLimit => Contains(made, given[q][i])

\* Every selection a model may make of what it is offered stands in the scope of its
\* search, with each text in a place where it is stored, and no concept it may name
\* lacks a paragraph.
SelectionHolds ==
    /\ stage = "selected" =>
          /\ InScope(made, given)
          /\ \A p \in ToSet(made.paragraphs) :
                \E q \in ToSet(Library) : q.text = p.text /\ q.chunk = p.chunk
    /\ stage = "refused" => made # "no paragraph"

\* What is rendered fits, and every reference of a selected role has its label.
RenderedWhole ==
    stage = "rendered" =>
        LET shown == made.context IN
        /\ WordCount(shown.paragraphs) <= given.tokens
        /\ IsPrefix(shown.paragraphs, given.context.paragraphs)
        /\ \A ref \in UNION {ToSet(refs) : refs \in ToSet(shown.roles)} : Contains(made.labels, ref)
        /\ \A ref \in ToSet(made.labels) : \E i \in DOMAIN shown.paragraphs : shown.paragraphs[i].ref = ref

\* The sources of a grounded answer are those it names, in the order of their labels.
GroundedInOrder ==
    stage = "grounded" =>
        /\ ToSet(made.sources) = ToSet(given.refs) \cap ToSet(given.labels)
        /\ \A i, j \in DOMAIN made.sources :
              i < j => SelectInSeq(given.labels, LAMBDA r : r = made.sources[i])
                       < SelectInSeq(given.labels, LAMBDA r : r = made.sources[j])

\* Each marker of the answer still names the evidence the model named with it, and
\* the markers count from 1 without a gap.
CitationsKept ==
    stage = "cited" =>
        LET output == given.output IN
        /\ \A i \in DOMAIN made.marks :
              /\ made.marks[i] \in DOMAIN output.cites
              /\ \E c \in ToSet(output.cites) :
                    c[2] = output.marks[i] /\ output.cites[made.marks[i]][1] = c[1]
        /\ ToSet(made.marks) = DOMAIN output.cites
        /\ made.used \cup made.images \subseteq 1..given.ledger.size

\* What is found, selected, shown and cited is what was stored and named.
EvidenceExact ==
    /\ FusedInOrder /\ NothingCrowdedOut /\ SelectionHolds
    /\ RenderedWhole /\ GroundedInOrder /\ CitationsKept
================================================================================
