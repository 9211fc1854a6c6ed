------------------------------ MODULE Preparation ------------------------------
(***************************************************************************)
(* From extracted Markdown to what is tagged and indexed: the sections of  *)
(* a document (ingestion/chunking.py), their paragraphs                    *)
(* (tagging/parser.py), the tagging requests and the index records         *)
(* (ingestion/use_cases.py), and the parts of an oversized row             *)
(* (cli/topic_input_vl.py). A document passes the stages in turn, and      *)
(* keeps of each what the next one reads. A document is a sequence of      *)
(* lines, of which only the kind counts; all its texts are equal, and what *)
(* is made of a line names it by its number, a blank line by 0. A row is a *)
(* sequence of blocks of tokens.                                           *)
(***************************************************************************)
EXTENDS Integers, FiniteSets, SequencesExt, Lists

CONSTANTS Length,        \* bound on the lines of a document
          Rows,          \* the rows the command line may read: sequences of blocks
          HeaderCosts,   \* the tokens of a header
          TokenLimit,    \* _EMBEDDING_TOKEN_LIMIT
          SplitTarget,   \* _EMBEDDING_SPLIT_TARGET
          SuffixCost     \* the tokens of " (Part i of n)"

\* A token is a word "w", a space "s", or a half of one character, "h" and "l". A
\* half that a slice leaves alone is decoded as a replacement character "x".
Tokens == {"w", "s", "h", "l", "x"}

ASSUME PreparationAssumption ==
    /\ Length \in Nat /\ TokenLimit \in Nat /\ SplitTarget \in Nat /\ SuffixCost \in Nat
    /\ Rows \subseteq Seq(Seq(Tokens)) /\ HeaderCosts \subseteq Nat
    /\ SplitTarget + SuffixCost <= TokenLimit

VARIABLES step,          \* the last stage passed
          source,        \* the document or row
          product        \* what that stage made

preparationVars == <<step, source, product>>

LineKinds == {"page", "h1", "h2", "h3", "text", "image", "blank", "rule"}
Markdowns == [1..Length -> LineKinds]

PreparationInit ==
    /\ product = <<>>
    /\ \/ step = "read" /\ source \in Markdowns
       \/ /\ step = "row"
          /\ \E row \in Rows, cost \in HeaderCosts : source = [header |-> cost, blocks |-> row]

Move(next, output) == step' = next /\ product' = output /\ UNCHANGED source

-----------------------------------------------------------------------------
(***************************************************************************)
(* Sections                                                                *)
(***************************************************************************)
\* The lines of a section without rules; a run of blank lines is one, and there is
\* none at either end.
NormalizeContent(lines) ==
    FoldLeft(LAMBDA acc, i :
                CASE source[i] = "rule"  -> acc
                  [] source[i] = "blank" -> [acc EXCEPT !.blank = TRUE]
                  [] OTHER -> [blank |-> FALSE,
                               out |-> acc.out \o (IF acc.blank /\ acc.out # <<>> THEN <<0>> ELSE <<>>) \o <<i>>],
             [blank |-> FALSE, out |-> <<>>], lines).out

Finish(acc) ==
    IF acc.current = <<>> THEN acc
    ELSE LET content == NormalizeContent(acc.current[1].lines)
             done == [acc.current[1] EXCEPT !.lines = content]
         IN [acc EXCEPT !.chunks = IF content = <<>> THEN @ ELSE Append(@, done), !.current = <<>>]

Opened(acc) ==
    [acc EXCEPT !.current = <<[start |-> acc.page, end |-> acc.page, lines |-> <<>>]>>]

OnPage(acc, page) ==
    [acc EXCEPT !.page = page,
                !.current = IF @ = <<>> THEN @ ELSE <<[@[1] EXCEPT !.end = page]>>]

WithLine(acc, i) ==
    LET moves == acc.page # 0 /\ source[i] \in {"text", "image", "rule"}
        open == acc.current
    IN IF open = <<>> THEN acc
       ELSE [acc EXCEPT !.current =
                <<[open[1] EXCEPT !.lines = Append(@, i), !.end = IF moves THEN acc.page ELSE @]>>]

\* The markers of a document count its pages.
ReadLine(acc, i) ==
    CASE source[i] = "page" -> OnPage(acc, acc.page + 1)
      [] source[i] = "h1"   -> Finish(acc)
      [] source[i] = "h2"   -> Opened(Finish(acc))
      [] OTHER              -> WithLine(acc, i)

BuildSourceChunks ==
    Finish(FoldLeft(ReadLine, [chunks |-> <<>>, current |-> <<>>, page |-> 0],
                    [i \in DOMAIN source |-> i])).chunks

Chunk ==
    /\ step = "read"
    /\ Move("chunked", BuildSourceChunks)

-----------------------------------------------------------------------------
(***************************************************************************)
(* Paragraphs                                                              *)
(***************************************************************************)
Flush(acc) == [acc EXCEPT !.blocks = @ \o acc.current, !.current = <<>>]

WithImages(s, images) == [s EXCEPT ![Len(s)].images = @ \o images]

\* A heading of level 3 keeps two of the headings before it.
UnderHeading(acc, i) ==
    LET flushed == Flush(acc)
        kept == SubSeq(acc.headings, 1, IF Len(acc.headings) < 2 THEN Len(acc.headings) ELSE 2)
    IN [flushed EXCEPT !.headings = Append(kept, i)]

WithImage(acc, i) ==
    IF acc.blocks # <<>> /\ acc.current = <<>>
    THEN [acc EXCEPT !.blocks = WithImages(@, <<i>>)]
    ELSE [acc EXCEPT !.pending = Append(@, i)]

WithText(acc, i) ==
    IF acc.current = <<>>
    THEN [acc EXCEPT !.current = <<[lines |-> <<i>>, path |-> acc.headings, images |-> acc.pending]>>,
                     !.pending = <<>>]
    ELSE [acc EXCEPT !.current = <<[acc.current[1] EXCEPT !.lines = Append(@, i)]>>]

ParseLine(acc, i) ==
    IF i = 0 THEN Flush(acc)
    ELSE CASE source[i] = "h3"    -> UnderHeading(acc, i)
           [] source[i] = "image" -> WithImage(acc, i)
           [] OTHER               -> WithText(acc, i)

Blocks(lines) ==
    LET parsed == Flush(FoldLeft(ParseLine, [blocks |-> <<>>, current |-> <<>>, headings |-> <<>>,
                                             pending |-> <<>>], lines))
    IN IF parsed.blocks = <<>> THEN <<>> ELSE WithImages(parsed.blocks, parsed.pending)

\* How often the text of a block, which is its length, has occurred up to it.
Occurrence(blocks, k) == Cardinality({j \in 1..k : Len(blocks[j].lines) = Len(blocks[k].lines)})

ParagraphId(chunk, blocks, k) == <<chunk, Len(blocks[k].lines), Occurrence(blocks, k)>>

Paragraph(chunk, blocks, k) ==
    [id |-> ParagraphId(chunk, blocks, k), chunk |-> chunk, ordinal |-> k, text |-> blocks[k].lines,
     path |-> blocks[k].path, images |-> blocks[k].images]

ParseChunkParagraphs(chunks) ==
    FlattenSeq([c \in DOMAIN chunks |->
        LET blocks == Blocks(chunks[c].lines)
        IN [k \in DOMAIN blocks |-> Paragraph(c, blocks, k)]])

\* Without a tagging profile the chunks are indexed as they are.
Parse ==
    /\ step = "chunked"
    /\ \/ Move("parsed", [chunks |-> product, paragraphs |-> ParseChunkParagraphs(product)])
       \/ Move("indexed", [c \in DOMAIN product |-> [chunk |-> c, tagged |-> {}]])

-----------------------------------------------------------------------------
(***************************************************************************)
(* Requests and records                                                    *)
(***************************************************************************)
Of(paragraphs, c) == Among(paragraphs, {p \in ToSet(paragraphs) : p.chunk = c})
TextAt(ps, k) == IF k \in DOMAIN ps THEN ps[k].text ELSE <<>>

BuildRequests(chunks, paragraphs) ==
    [c \in DOMAIN chunks |->
        LET ps == Of(paragraphs, c) IN
        [k \in DOMAIN ps |-> [id |-> ps[k].id, previous |-> TextAt(ps, k - 1), target |-> ps[k].text,
                              next |-> TextAt(ps, k + 1)]]]

Requested ==
    /\ step = "parsed"
    /\ LET ids == {p.id : p \in ToSet(product.paragraphs)} IN
       IF \/ Cardinality(ids) < Len(product.paragraphs)
          \/ \E c \in DOMAIN product.chunks : Of(product.paragraphs, c) = <<>>
       THEN Move("refused", product)
       ELSE Move("requested", [chunks |-> product.chunks,
                               requests |-> BuildRequests(product.chunks, product.paragraphs)])

\* Every paragraph has its result: the records name the tagged paragraphs.
Index ==
    /\ step = "requested"
    /\ Move("indexed", [c \in DOMAIN product.chunks |->
            [chunk |-> c, tagged |-> {r.id : r \in ToSet(product.requests[c])}]])

-----------------------------------------------------------------------------
(***************************************************************************)
(* Rows of the command line                                                *)
(***************************************************************************)
Joined(blocks) == FlattenSeq([i \in DOMAIN blocks |-> IF i = 1 THEN blocks[i] ELSE <<"s">> \o blocks[i]])
Cost(header, tokens) == header + Len(tokens)

Decoded(slice) ==
    [i \in DOMAIN slice |->
        IF \/ slice[i] = "h" /\ i = Len(slice)
           \/ slice[i] = "l" /\ i = 1
        THEN "x" ELSE slice[i]]

Stripped(tokens) ==
    LET solid == {i \in DOMAIN tokens : tokens[i] # "s"}
    IN IF solid = {} THEN <<>> ELSE SubSeq(tokens, Min(solid), Max(solid))

SplitLargeBlock(header, block) ==
    LET budget == SplitTarget - header
        slices == (Len(block) + budget - 1) \div budget
        End(n) == IF n * budget < Len(block) THEN n * budget ELSE Len(block)
    IN [n \in 1..slices |-> Stripped(Decoded(SubSeq(block, (n - 1) * budget + 1, End(n))))]

Emit(acc) == [parts |-> acc.parts \o (IF acc.open = <<>> THEN <<>> ELSE <<Joined(acc.open)>>), open |-> <<>>]

AddBlock(header, acc, block) ==
    LET emitted == Emit(acc) IN
    CASE Cost(header, Joined(Append(acc.open, block))) <= SplitTarget ->
            [acc EXCEPT !.open = Append(@, block)]
      [] Cost(header, block) <= SplitTarget -> [emitted EXCEPT !.open = <<block>>]
      [] OTHER -> [emitted EXCEPT !.parts = @ \o SplitLargeBlock(header, block)]

SplitContent(header, blocks) ==
    Emit(FoldLeft(LAMBDA acc, b : AddBlock(header, acc, b), [parts |-> <<>>, open |-> <<>>], blocks)).parts

Oversized(row) == Cost(row.header, Joined(row.blocks)) > TokenLimit
NoBudget(row) ==
    row.header >= SplitTarget \* every block is large then

\* A part that strips to nothing is refused as a blank content.
SplitRow ==
    /\ step = "row"
    /\ IF ~Oversized(source)
       THEN Move("split", <<[header |-> source.header, content |-> Joined(source.blocks)]>>)
       ELSE LET parts == IF NoBudget(source) THEN <<>> ELSE SplitContent(source.header, source.blocks) IN
            IF NoBudget(source) \/ <<>> \in ToSet(parts)
            THEN Move("rejected", parts)
            ELSE Move("split", [n \in DOMAIN parts |-> [header |-> source.header + SuffixCost,
                                                        content |-> parts[n]]])

PreparationNext == Chunk \/ Parse \/ Requested \/ Index \/ SplitRow
PreparationSpec == PreparationInit /\ [][PreparationNext]_preparationVars

-----------------------------------------------------------------------------
(***************************************************************************)
(* Properties                                                              *)
(***************************************************************************)
\* The level-2 heading that owns a line: the last heading of level 1 or 2 before it.
Owner(i) ==
    LET above == {j \in 1..i : source[j] \in {"h1", "h2"}}
    IN IF above # {} /\ source[Max(above)] = "h2" THEN Max(above) ELSE 0

ContentOf(h) ==
    {i \in DOMAIN source : Owner(i) = h /\ source[i] \in {"h3", "text", "image"}}

PageOf(i) == Cardinality({j \in 1..i : source[j] = "page"})

Solid(lines) == Among(lines, 1..Length)
Sorted(numbers) == InOrder(numbers, LAMBDA i, j : i < j)

\* The chunks are the sections that have content, in the order of the document, each
\* with all of it and within its pages (build_source_chunks).
SectionsComplete ==
    step = "chunked" =>
        LET owners == {h \in DOMAIN source : source[h] = "h2" /\ ContentOf(h) # {}}
            order == Sorted(owners)
        IN /\ Len(product) = Len(order)
           /\ \A c \in DOMAIN product :
                 /\ Solid(product[c].lines) = Sorted(ContentOf(order[c]))
                 /\ product[c].start = PageOf(order[c])
                 /\ \A i \in ContentOf(order[c]) : source[i] # "h3" => PageOf(i) <= product[c].end

\* No paragraph begins between a paragraph and an image.
NextTo(ps, p, i) ==
    \A q \in ToSet(ps) \ {p} : /\ ~(i < q.text[1] /\ q.text[1] < p.text[1])
                               /\ ~(Last(p.text) < q.text[1] /\ q.text[1] < i)

\* Every line of text is in one paragraph, in order, and paragraphs have names of
\* their own; every image of a section with text is with one paragraph
\* beside it (parse_chunk_paragraphs, paragraph_reference).
ParagraphsComplete ==
    step = "parsed" =>
        LET ps == product.paragraphs
            lines == FlattenSeq([n \in DOMAIN ps |-> ps[n].text])
            inChunks == UNION {ToSet(Solid(c.lines)) : c \in ToSet(product.chunks)}
            images == FlattenSeq([n \in DOMAIN ps |-> ps[n].images])
        IN /\ lines = Sorted({i \in inChunks : source[i] = "text"})
           /\ \A m, n \in DOMAIN ps : ps[m].id = ps[n].id => m = n
           /\ IsInjective(images)
           /\ ToSet(images) = {i \in inChunks : source[i] = "image"
                                  /\ \E p \in ToSet(ps) : Owner(p.text[1]) = Owner(i)}
           /\ \A p \in ToSet(ps) : \A i \in ToSet(p.images) : Owner(p.text[1]) = Owner(i) /\ NextTo(ps, p, i)

\* A document is refused only for a section without text, and of all others every
\* paragraph is asked for in one request, in order (build_chunk_tagging_requests).
RequestsComplete ==
    /\ step = "refused" =>
          \E h \in DOMAIN source : /\ source[h] = "h2" /\ ContentOf(h) # {}
                                   /\ \A i \in ContentOf(h) : source[i] # "text"
    /\ step = "requested" =>
          LET asked == FlattenSeq(product.requests) IN
          FlattenSeq([n \in DOMAIN asked |-> asked[n].target])
              = Sorted({i \in DOMAIN source : source[i] = "text" /\ Owner(i) # 0})

\* Every section has its record, in order; either no record is tagged or every one is, and
\* none with a paragraph of another section (build_index_inputs).
RecordsComplete ==
    step = "indexed" =>
        LET owners == {h \in DOMAIN source : source[h] = "h2" /\ ContentOf(h) # {}}
        IN /\ Len(product) = Len(Sorted(owners))
           /\ \A c \in DOMAIN product :
                 product[c].chunk = c /\ \A name \in product[c].tagged : name[1] = c
           /\ \/ \A c \in DOMAIN product : product[c].tagged = {}
              \/ \A c \in DOMAIN product : product[c].tagged # {}

\* The search text of every part fits the embedding, and the parts have the content of
\* the row in its order, but for characters that a slice has cut (_split_oversized_rows).
Loose(tokens) == Among(tokens, Tokens \ {"s"})
PartsFit ==
    step = "split" =>
        LET parts == [n \in DOMAIN product |-> Loose(product[n].content)]
            content == Loose(FlattenSeq(source.blocks))
            got == FlattenSeq(parts)
        IN /\ \A part \in ToSet(product) : Cost(part.header, part.content) <= TokenLimit
           /\ Len(got) = Len(content)
           /\ \A i \in DOMAIN content : got[i] # content[i] => got[i] = "x"

PreparationExact ==
    SectionsComplete /\ ParagraphsComplete /\ RequestsComplete /\ RecordsComplete /\ PartsFit

=============================================================================
