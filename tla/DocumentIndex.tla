---------------------------- MODULE DocumentIndex ----------------------------
(***************************************************************************)
(* The indexing of a document without checkpoints                          *)
(* (IndexDocument in ingestion/use_cases.py): the vectors kept for reuse   *)
(* in a file under a lock (FileEmbeddingReuseStore), the answer of the     *)
(* embedding provider, the sidecars of the knowledge repository, and the   *)
(* records of the document in Chroma (ingestion/adapters.py).  Calls come  *)
(* from the route POST /documents/{document_ref}/ingest and from ingestion *)
(* with chunk tagging off, in any number of processes; nothing keeps two   *)
(* calls for one document apart.                                           *)
(***************************************************************************)
EXTENDS Integers, Sequences, FiniteSets

CONSTANTS Indexers,          \* the calls of IndexDocument.execute
          SourceVersions,          \* source versions of the document, from 1
          Records(_),        \* the sequence of the chunk ids of a version
          Details,           \* what comes with a record: tags, access scope, ...
          Dimensions,        \* dimensions of the vectors a provider may return
          Configured,        \* the dimension configured for the collection
          Unset              \* no caller, no details

ASSUME IndexersAssumption == Unset \notin Indexers
ASSUME VersionsAssumption == SourceVersions \subseteq Nat \ {0}
ASSUME RecordsAssumption == \A v \in SourceVersions : Len(Records(v)) \in Nat /\ DOMAIN Records(v) = 1..Len(Records(v))

VARIABLES indexing,      \* how far each call is, and what it holds
          reuse,         \* embedding-reuse.json: records by key
          fileLock,      \* who holds the lock of that file
          saved,         \* history: the keys that some save has put in it
          knowledge,      \* the version whose sidecar each chunk has
          collection,    \* the document's records in Chroma, by chunk id
          shown,         \* the version the last call reported indexed, or 0
          muddled        \* calls have overlapped since the last undisturbed one

indexVars == <<indexing, reuse, fileLock, saved, knowledge, collection, shown, muddled>>

NotRunning == [at |-> "idle", version |-> 0, details |-> Unset, found |-> <<>>,
               prepared |-> <<>>, merged |-> <<>>, listed |-> {}, written |-> 0,
               disturbed |-> FALSE]

IndexInit ==
    /\ indexing = [c \in Indexers |-> NotRunning]
    /\ reuse = <<>> /\ fileLock = Unset /\ saved = {}
    /\ knowledge = <<>> /\ collection = <<>>
    /\ shown = 0 /\ muddled = FALSE

ChunkIds(v) == {Records(v)[i] : i \in DOMAIN Records(v)}

\* A record is found again by its chunk id, version, profile and text; the profile is one
\* and the text of a chunk is settled by its version.
KeysOf(v) == {<<k, v>> : k \in ChunkIds(v)}
Missing(c) == KeysOf(indexing[c].version) \ DOMAIN indexing[c].found

\* Fault: what was there is kept where it should be replaced.
OverlayOld(old, new) == [k \in DOMAIN old \cup DOMAIN new |->
                            IF k \in DOMAIN old THEN old[k] ELSE new[k]]

Overlay(old, new) == [k \in DOMAIN old \cup DOMAIN new |->
                         IF k \in DOMAIN new THEN new[k] ELSE old[k]]

Running(c) == indexing[c].at # "idle"

Become(c, r) == indexing' = [indexing EXCEPT ![c] = r]

\* An exception becomes a report that does not say indexed.
ReportFailure(c) == Become(c, NotRunning)

\* An empty projection is refused before anything is read, and reported as a failure.
Projections == {v \in SourceVersions : ChunkIds(v) # {}}

RefuseEmpty(c) ==
    /\ ~Running(c)
    /\ Projections # SourceVersions
    /\ shown' = 0
    /\ UNCHANGED <<indexing, reuse, fileLock, saved, knowledge, collection, muddled>>

BeginIndex(c) ==
    /\ ~Running(c)
    /\ LET others == {x \in Indexers : Running(x)}
       IN  \E v \in Projections, d \in Details :
             /\ indexing' = [x \in Indexers |->
                   IF x = c
                   THEN [NotRunning EXCEPT !.at = "finding", !.version = v, !.details = d,
                                           !.disturbed = others # {}]
                   ELSE IF x \in others
                   THEN [indexing[x] EXCEPT !.disturbed = TRUE]
                   ELSE indexing[x]]
             /\ muddled' = (muddled \/ others # {})
    /\ shown' = 0
    /\ UNCHANGED <<reuse, fileLock, saved, knowledge, collection>>

OneDimension(rs) == Cardinality({rs[k].dimension : k \in DOMAIN rs}) = 1

\* The cached records are taken as they are, with the details they were saved with.
FindReusable(c) ==
    LET call == indexing[c]
        found == [k \in KeysOf(call.version) \cap DOMAIN reuse |-> reuse[k]]
    IN  /\ call.at = "finding"
        /\ fileLock = Unset
        /\ IF DOMAIN found # KeysOf(call.version)
           THEN Become(c, [call EXCEPT !.found = found, !.at = "embedding"])
           ELSE IF OneDimension(found)
           THEN Become(c, [call EXCEPT !.prepared = found, !.at = "listing"])
           ELSE ReportFailure(c)
        /\ UNCHANGED <<reuse, fileLock, saved, knowledge, collection, shown, muddled>>

\* What the provider may answer: vectors for the chunks in the order asked or not, and the
\* dimensions the vectors have.
Answers == [inOrder : BOOLEAN, dimensions : (SUBSET Dimensions) \ {{}}]
AnswerRefused(answer) == ~answer.inOrder \/ Cardinality(answer.dimensions) # 1

EmbedMissing(c) ==
    LET call == indexing[c]
    IN  /\ call.at = "embedding"
        /\ \E answer \in Answers :
              LET fresh == [k \in Missing(c) |->
                               [dimension |-> CHOOSE n \in answer.dimensions : TRUE,
                                details |-> call.details]]
                  all == Overlay(call.found, fresh)
              IN  IF AnswerRefused(answer) \/ ~OneDimension(all)
                  THEN ReportFailure(c)
                  ELSE Become(c, [call EXCEPT !.prepared = all, !.at = "saving"])
        /\ UNCHANGED <<reuse, fileLock, saved, knowledge, collection, shown, muddled>>

\* The merged records are written to a temporary file that is moved over the old one.
ReadToMerge(c) ==
    LET call == indexing[c]
        fresh == [k \in Missing(c) |-> call.prepared[k]]
    IN  /\ call.at = "saving"
        /\ fileLock = Unset
        /\ fileLock' = c
        /\ Become(c, [call EXCEPT !.merged = Overlay(reuse, fresh), !.at = "replacing"])
        /\ UNCHANGED <<reuse, saved, knowledge, collection, shown, muddled>>

ReplaceReuse(c) ==
    LET call == indexing[c]
    IN  /\ call.at = "replacing"
        /\ reuse' = call.merged
        /\ saved' = saved \cup Missing(c)
        /\ fileLock' = Unset
        /\ Become(c, [call EXCEPT !.merged = <<>>, !.found = <<>>, !.at = "listing"])
        /\ UNCHANGED <<knowledge, collection, shown, muddled>>

ListIds(c) ==
    LET call == indexing[c]
    IN  /\ call.at = "listing"
        /\ Become(c, [call EXCEPT !.listed = DOMAIN collection, !.at = "publishing"])
        /\ UNCHANGED <<reuse, fileLock, saved, knowledge, collection, shown, muddled>>

SidecarOf(i, v) == [x \in {i} |-> v]

\* One sidecar after the other, by chunk id alone.
WriteSidecar(c) ==
    LET call == indexing[c]
        next == call.written + 1
    IN  /\ call.at = "publishing" /\ next <= Len(Records(call.version))
        /\ knowledge' = Overlay(knowledge, SidecarOf(Records(call.version)[next], call.version))
        /\ Become(c, [call EXCEPT !.written = next])
        /\ UNCHANGED <<reuse, fileLock, saved, collection, shown, muddled>>

Row(v, r) == [version |-> v, dimension |-> r.dimension, details |-> r.details]

Fits(rs) == \A k \in DOMAIN rs : rs[k].dimension = Configured

\* All records in one call of the collection.
UpsertChunks(c) ==
    LET call == indexing[c]
        rows == [i \in ChunkIds(call.version) |->
                    Row(call.version, call.prepared[<<i, call.version>>])]
    IN  /\ call.at = "publishing" /\ call.written = Len(Records(call.version))
        /\ IF Fits(call.prepared)
           THEN /\ collection' = Overlay(collection, rows)
                /\ Become(c, [call EXCEPT !.at = "deleting"])
           ELSE ReportFailure(c) /\ UNCHANGED collection
        /\ UNCHANGED <<reuse, fileLock, saved, knowledge, shown, muddled>>

StaleIds(c) == indexing[c].listed \ ChunkIds(indexing[c].version)

DeleteStale(c) ==
    LET call == indexing[c]
    IN  /\ call.at = "deleting"
        /\ collection' = [i \in DOMAIN collection \ StaleIds(c) |-> collection[i]]
        /\ shown' = call.version
        /\ muddled' = (muddled /\ call.disturbed)
        /\ Become(c, NotRunning)
        /\ UNCHANGED <<reuse, fileLock, saved, knowledge>>

\* A read, a provider call or a write raises, or the process stops: the rest of the call does
\* not happen, and the lock of the file is released.
CallFails(c) ==
    /\ Running(c)
    /\ ReportFailure(c)
    /\ fileLock' = IF fileLock = c THEN Unset ELSE fileLock
    /\ UNCHANGED <<reuse, saved, knowledge, collection, shown, muddled>>

IndexStep(c) ==
    \/ RefuseEmpty(c) \/ BeginIndex(c) \/ FindReusable(c) \/ EmbedMissing(c)
    \/ ReadToMerge(c) \/ ReplaceReuse(c) \/ ListIds(c)
    \/ WriteSidecar(c) \/ UpsertChunks(c) \/ DeleteStale(c) \/ CallFails(c)

IndexNext == \E c \in Indexers : IndexStep(c)

IndexSpec == IndexInit /\ [][IndexNext]_indexVars

-----------------------------------------------------------------------------
\* Two calls that save at once lose no vector of each other (FileEmbeddingReuseStore._save).
ReuseKept == saved \subseteq DOMAIN reuse

\* A version that has chunks is in the collection as a whole.
Whole(v) == v \in Projections /\ \A i \in ChunkIds(v) : i \in DOMAIN collection /\ collection[i].version = v

\* While calls have not overlapped, a search finds some version as a whole, whatever failed or
\* stopped on the way: stale chunks go only after the new ones are there (IndexDocument.publish).
ReadersFindAVersion ==
    ~muddled /\ collection # <<>> => \E v \in SourceVersions : Whole(v)

\* A call that reported indexed and was not disturbed has left exactly its chunks, each with
\* the vector and the details that are kept for reuse, and a sidecar for each.
ReportedIsExact ==
    ~muddled /\ shown # 0 =>
       /\ Whole(shown)
       /\ DOMAIN collection = ChunkIds(shown)
       /\ \A i \in DOMAIN collection :
             collection[i] = Row(shown, reuse[<<i, shown>>]) /\ knowledge[i] = shown

\* The index stays sound: no saved vector is lost, every vector shown has the configured
\* dimension, readers find a whole version, and what was reported is what is there.
IndexSound ==
    /\ ReuseKept
    /\ \A i \in DOMAIN collection : collection[i].dimension = Configured
    /\ ReadersFindAVersion
    /\ ReportedIsExact
=============================================================================
