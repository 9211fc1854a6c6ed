# A TLA+ verification of core-saxo-agent

This directory models the core logic of `src/src/saxophone` in TLA+, checks the
models with TLC and proves the most important results with TLAPS. It is meant
to be read beside the code: every definition that models code is listed in
`PROJECT.json` ("map") with the lines it stands for.

Running it:

    tlc -workers 2 -config MCContentLedger.cfg MCContentLedger.tla
    tlapm ReuseProofs.tla

## 1. The system and its parts

Saxophone ingests documents (chunks, paragraphs, tags, vectors) and answers
questions about them with an agent. All paths below are under
`src/src/saxophone/`.

| part | state | operations | what makes it correct |
|---|---|---|---|
| **content ledger** `ingestion/content_ledger.py`, batches in `ingestion/use_cases.py` | one SQLite row per content key: status, reservation token, result, `updated_at` | reserve, complete, fail; prepare/complete/fail of a batch | content is tagged once; a late answer of a superseded claim never lands; no claim blocks its content forever |
| **run lifecycle** `ingestion/state.py`, `ingestion/services.py` | `ingestion_runs.status`, `documents.ingestion_status`, `active_version` | start_or_resume, mark_tagged, mark_ready, mark_failed, driven by ingest_document | one active run per document; versions are published one at a time and for good |
| **outbox and vector sync** `tagging/vector_outbox.py`, `ingestion/vector_sync.py`, `ingestion/vector_state.py` | events with a status, Chroma's records, `vector_index_state` | enqueue, list, apply, record, mark; drain per chunk and per document | once settled, Chroma is what the index state says; nothing is lost, nothing played back |
| **checkpointed ingestion** `ingestion/use_cases.py`, `ingestion/transaction.py` | the relational projection of each version | a chunk: tag, embed, commit, complete, drain; the document: catalog, reconcile, commit, publish | readers always find a complete version; a reported one is complete in all stores; nothing of older ones stays behind |
| **preparation** `ingestion/chunking.py`, `tagging/parser.py`, `cli/topic_input_vl.py` | none: one stage after the other | cut into sections, paragraphs, requests, records, parts | no line of text is lost, doubled or moved; every part fits the embedding |
| **chunk tagging** `tagging/`, `ingestion/transaction.py` | what one answer of the model becomes | ask, repair once, validate, commit, catalogue | what is committed is what was answered and offered |
| **concept catalog** `ingestion/concept_*.py` | one catalog shared by all documents | replace a document's entries, embed the catalog, commit and apply events | every version counts once; vectors follow the catalog |
| **document index** `ingestion/use_cases.py`, `ingestion/adapters.py`, `platform/knowledge.py` | a file of vectors kept for reuse, sidecars, Chroma's records | find, embed, save, publish, delete stale | readers find a whole version; reported is exact |
| **PDF layout jobs** `workflows/pdf_layout_*.py`, `interfaces/pdf_layout_web.py` | a `job.json` per job, one thread per extraction, a global lock | upload, queue, run, progress, complete, fail, show | one extraction at a time; what the file says is so; a completed job is whole |
| **files** `platform/artifacts.py`, `extraction/persistence.py`, `tagging/persistence.py` | immutable artifacts, outputs of an extraction, tag catalog | put, persist, add | what is kept never changes; outputs are complete |
| **agent run streams** `agent/streaming.py`, routes in `interfaces/api.py` | per run: history, subscribers, terminal flag | start, publish, cancel, reopen, events, aclose | gapless, ordered, replayable; one terminal event per invocation |
| **run budget and tool policies** `agent/contracts.py`, `agent/policies.py` | counters per tool, the call trace, context tokens | reserve, complete, fail, timeout, record_context_tokens | quotas hold under concurrency, time-outs and cancellation |
| **agent pipelines** `agent/react_pipeline.py`, `agent/graph.py`, `agent/orchestrator*.py` | the state of one question, clarifications that wait | search, select, synthesise, clarify, resume | it ends; documents before the web; an answer rests on evidence of its own round |
| **retrieval and citations** `retrieval/`, `agent/evidence*.py`, `agent/synthesis.py`, `chat/compatibility.py` | none: one stage after the other | fuse, load, select, limit, render, cite | what is cited is what was stored, selected and named |
| **tracing** `agent/tracing.py`, `agent/langchain_callbacks.py`, `platform/langfuse_tracing.py` | observations, what handlers remember of calls | starts, ends, errors, tokens, finish | everything opened is closed; events come in pairs |
| **clients and gateway** `platform/model_client.py`, `direct_model_client.py`, `remote_gpu.py`, `observability.py` | circuit, gauges, usage, a cached health | request with retries; probe | the circuit follows the answers; each request is told once; probes are bounded |
| **composition** `app/settings.py`, `app/factory.py`, `main.py` | settings, the services of a process | read the environment, compose, serve, shut down | no route fails for a service its guard did not ask for; everything owned is closed in order |
| **database browser** `interfaces/db_browser.py` | none | reads for a viewer | - |

How they interact. `DocumentIngestionService.ingest_document` opens a run in
the lifecycle, runs the ingestion workflow and closes the run. The workflow
claims content in the ledger, commits rows and events in one SQLite
transaction, and calls back into the service after every chunk to drain the
outbox into Chroma. SQLite, Chroma and the index state are separate stores: no
transaction spans them. Several processes (CLI, HTTP server) may ingest at the
same time; every awaited call is a point where others run. The agent side reads
the published documents and shares nothing else with ingestion. The plain index
(`IndexDocument`) serves the route without checkpoints; the PDF viewer has jobs
and files of its own. `app/factory.py` decides by the settings which of these
exist in a process.

Which behaviours are hard: leases that time out while their holder is still at
work; decisions taken on a read that is stale when the write comes; three
stores written one after the other; retries of what was done already; crashes
and cancellations at every await; runs that must not stay active forever.
`PROJECT.json` ("hazards") lists them at their lines, with the properties that
would catch them.

## 2. Modules

| module | models | state and actions |
|---|---|---|
| `ContentLedger` | the ledger and the batches that use it | `ledger` is the table; `_reserve`, `_complete`, `_fail` are single transactions, hence single actions; everything between two of them interleaves. `readAge` is the clock value a processor has read before its transaction runs. |
| `ReuseCache` | abstract: a write-once cache | what the ledger promises, without claims and clocks |
| `ReuseProofs` | theorems about `ContentLedger`, and about `LayoutJobs` and `DocumentIndex`, whose results are kept for reuse as well | |
| `IngestionRuns` | the lifecycle tables under ingest_document | every lifecycle method is its read (`StartRead`, `MarkRead`) and its write (`StartWrite`, `MarkWrite`), because Python's sqlite3 opens the transaction at the first write |
| `Publication` | abstract: versions published one by one | |
| `IngestionRunsProofs` | theorems about `IngestionRuns` | |
| `VectorSync` | outbox, Chroma, index state and the two drains | one action per store write; `Judge` is what the service makes of a sweep |
| `VectorSyncProofs` | theorems about `VectorSync` | |
| `Ingestion` | the checkpointed ingestion of a document, composed of `VectorSync`, the lifecycle and the ledger's cache | `pc` is where a call of ingest_document is: one action per await that changes a store |
| `IngestionProofs` | theorems about `Ingestion`; those of `VectorSyncProofs` on types come in through an INSTANCE | |
| `AgentRunStream` | the event stream of an agent run: the manager, the tasks that publish, the HTTP responses that read | one action per stretch of code between two awaits that can suspend |
| `ReplayLog` | abstract: a log with readers | |
| `AgentRunStreamProofs` | theorems about `AgentRunStream` | |
| `RunBudget` | the budget of an agent run | every method is an operator from a budget to the next, since each holds the lock |
| `ReactPipeline` | the pipeline the application wires, under `RunBudget` | `pc` is the node or the middleware that runs, `batch` the concurrent tool calls of a turn; one action per stretch between two awaits |
| `PipelineProofs` | theorems about `ReactPipeline`, `AgentGraph`, `AgentTracing` and `Retrieval`, lemmas about `RunBudget` | |
| `AgentGraph` | the explicit node graph and the rounds of MainAgent | one action per node; `channels` is the state LangGraph keeps for the thread of a run |
| `Retrieval` | from ranked hits to a cited answer | `stage` is what has been made, `given` what it was made of; one action per function |
| `AgentTracing` | callbacks, observations, public events, log lines | one action per callback |
| `LayoutJobs` | jobs of the PDF viewer | an update of job.json is its read, open, write and rename |
| `ArtifactStore` | artifacts, outputs of an extraction, the tag catalog | three state machines that share nothing |
| `ModelCalls` | the model clients and the cached health | a request is one step between two awaits |
| `Preparation` | sections, paragraphs, requests, records, parts | one action per stage |
| `ChunkTagging` | a model's answer until it is in the database and the catalog | one action per stage |
| `ConceptCatalog` | the catalog under the runs of several documents | replace, commit, apply, publish and failures of each run |
| `DocumentIndex` | IndexDocument over the reuse file, sidecars and collection | one action per read or write of a store |
| `DocumentsProofs` | theorems about `ArtifactStore`, `ConceptCatalog`, `ChunkTagging`, `ModelCalls`, `Application`, `Preparation` and the texts together (`MCDocuments`) | |
| `Lists` | what the code does to lists: filtering, sorting, first occurrences | operators on sequences and sets |
| `SequenceFacts` | lemmas about the operators of `Lists` and the folds of the community modules | |
| `Application` | environment, composition, routes, shutdown of a process | `life` is how far the process is |
| `MCLifecycles` | `IngestionRuns` and one key of `ContentLedger` under their fairness | one part of the state moves, the other stands still |
| `MCQuestions`, `MCDocuments` | the parts of answering a question; the parts of the work on documents | as above: the variable `part` chooses at the start |
| other `MC*` | instances for TLC | model values, small sets, symmetry |

Definitions that start with a comment "Fault:" are deliberate mistakes used to
show that the properties can fail: `PROJECT.json` ("mutants") says which
definition each one stands in for. They are not part of any specification.

### ContentLedger

A row's age counts ticks since `updated_at`, so time-outs are comparisons of
ages and time needs no bound: ages saturate at `MaxAge`, beyond which no
comparison can tell them apart. `reserve` reads the clock and then hands the
transaction to a worker thread; `MaxHop` bounds the ticks in between. A
processor can be cancelled while its worker thread still commits a claim
(`AbandonReserve`), get an error anywhere (`Abort`), and die (`Crash`).
`prepare` keeps the runs of earlier chunks of the same batch (`LocalRuns`) and
drops what `_reserve` answered for a repeated chunk (`ReserveLocal`), which is
what the run `ledger_retry` is about. A checkpointed ingestion prepares batches
of one chunk, an ordinary one batches of the whole document: both are values
of `Batches`.

### IngestionRuns

A run is a pair of document and version, since its identifier is made of the
two. `Shared` says whether two calls may work on the same run at once: nothing
in the code forbids it, a user who starts the same ingestion twice does it, and
`runs_stale` shows what then happens to `ReadyIsFinal` (`ShownIsCurrent` goes the
same way). What is proved and checked of
published versions assumes `Shared = FALSE`, except `OneActiveRun`, which the
unique index guarantees in any case (`OneRunAtATime`).

### VectorSync

An event is its own identity: its identifier is a digest of its contents.
Hence the outbox's `ORDER BY event_id` is an order that has nothing to do with
the order of commits, and a worker takes listed events in any order. `Overlap`
says whether workers may be at work on the same records at once; chunks of a
document are written by one active run, but catalog concepts are shared by all
documents. With `Overlap = TRUE` two of them that rewrite one concept at once
can leave Chroma and the index state with different vectors; the runs keep to
`FALSE`; `ConceptCatalog` shows the order of events alone.
Reports count events; the service only asks whether the counts are positive, so
`tally` keeps which of them are. `requeue` is called by nobody and left out.

### Ingestion

The composition of the parts. A call of ingest_document (`Begin` to `Return` or
`MarkFailed`) takes its version's chunks through `Prepare`, `Commit`, `Complete`
and `Checkpoint`, and inside every checkpoint the actions of `VectorSync` run
for it (`Synchronise`, `SyncFails`; `Sync` is the instance, its runs are the
versions and its workers the processes). Then come `Plan`, `Document`,
`MarkTagged`, the last synchronisation and `MarkReady`. What is taken over from
the other modules instead of being modelled again:

* the ledger is the write-once `cached`, which is what `ContentLedger` implements
  (`ImplementsCache`); `Skip` is a claim in flight, `Foreign` another document
  with the same content, and a lost claim shows in `Complete`;
* lifecycle methods are single actions, since `IngestionRunsProofs` shows
  (`Sound`) that with one call per run nothing comes between their read and
  write; `Begin` keeps to one call per run;
* `Events` has one upsert per chunk and result, and one deletion per run and
  chunk, as their identifiers are digests of just that; chunk identifiers
  contain the version, so two versions share no chunk.

`Returns` says whether callers may hand in an older version after a newer one.
Nothing in the code forbids it. `FALSE` keeps to the order of versions, with
retries, overlaps and reruns of the newest version all the same; `ingestion_return` shows
what happens otherwise. A document transaction refuses deletions of vectors
that belong to neither the new nor the previously published version
(`DocumentRefused`); this is what makes `PublishedAlone` true and what
`ingestion_blocked` shows the price of.

### AgentRunStream

One run of the agent: `history`, `terminal` and `subscribers` are its `_RunState`,
`task` holds the invocations (the first and its resumptions), `stream` the HTTP
responses, whose places are used again when they are over. The program is one
event loop, so a step ends where the code suspends. Two things about suspending
carry the hazards. `_notify` appends to the queues through tasks of their own
(`notices` is the set of those that have not run), and these are cancelled with whoever
awaits them, so that an event can be in the history and never reach a queue;
`lost` remembers which. And a disconnect does different things at different
awaits (`LeaveOpening`, `LeaveSending`, `LeaveWaiting`, `LeaveAlone`): the run is
cancelled only if the response was in `queue.get`. How starlette and asyncio
cancel is outside `src/`; the definitions for it are marked external. Of events
the model keeps whether they are terminal; the clarification a run waits for is
`pending`.

A response that missed nothing gets replay and live events without a seam
(`Delivered`), but one whose last event was kept from it by a cancelled put waits
for the next invocation or for ever; `StreamsEnd` says that there are no other
reasons than this and a run left open, and `streams_left` shows the latter.

### RunBudget and ReactPipeline

`RunBudget` has no variables: a budget is a record, and what the methods do to it
under the lock are operators. `ReactPipeline` composes them with what uses them.
A turn of the model is a `batch` of up to `MaxBatch` tool calls, each of which
reserves, waits, and completes, fails, times out or is abandoned when a sibling
raises or the run is cancelled (`run_with_budget`, `Abandon`). The model may ask
for any tools with any arguments, searches may return anything, a page of the
web may have another size when it is found again (`Sizes`), the synthesis may
send the run back for a search it skipped (`Missing`). `complete` marks the latest open call of
a tool whichever has ended; the counters and the trace agree all the same
(`CallsAccounted`), since calls of a tool are alike but for their durations. Cancelled
calls close the latest records of their tools, all in one step (`FailAll`). The size of some
texts is the number of their tokens, a cardinality (`Tokens`, `Size`). Evidence is named by
digests, so there are finitely many, and every text has a longest variant
(`EvidenceAssumption`, `SizesAssumption`).

### AgentGraph

What `MainAgent` runs when dependencies without an orchestrating model are given
(tests and embedders; `app/factory.py` always gives one). `deps` says which policies
and services exist. The channels survive the rounds of a run, so that the
question is what a later round can still see of an earlier one. A round that
fails or is cancelled leaves its clarification entry behind (`cut`), a run can
then be resumed on channels that are half written: the properties say what holds
until then, `OnlyValidated` in part also after it.

### Retrieval

A question goes through the stages with whatever a model may select. `Library` is
what SQLite holds, chosen so that a text occurs twice, a concept has two
spellings and two roles, a chunk has no paragraph and a page no number. The
fusion works on integers: ranks are compared by cross-multiplied reciprocals. `SearchFused`
is `HybridRetriever.search`, which tests compose and the application does not yet;
`SearchTwoLanguages` is the batch of planned queries in `search_docs` (`react_pipeline.py`).
How a single search ranks, by Chroma or by terms, is any ranking (`Rankings`).
`AnswerGrounded` is the chat without an agent. That its sources are numbered anew
by their position in `interfaces/api.py` while the text keeps the labels of the context is not
in the model.

### AgentTracing

LangChain calls the handlers in an order that a cancelled task cuts short, and
calls of a failed run go on after `finish`. `spans` are the observations of
`agent/tracing.py`, `remotes` what Langfuse holds of them, `events` what the stream
was handed. A call that begins after `finish` opens an observation nobody closes;
`SpansClosed` says that nothing else does.

### LayoutJobs

`update_state` reads job.json, writes job.tmp and renames it, without a lock: these
are `ReadState`, `OpenTmp`, `FillTmp` and `ReplaceFile`, and a thread that has job.tmp
open while another renames it writes into job.json (`Moved`). Two posts that
queue one job at once (`overlapped`) can garble its file; the properties leave such jobs
out, except that pages are always written by one extraction (`OneExtracts`). A stop
of the server leaves `abandoned` jobs that can never be queued again.

### ArtifactStore

`put` looks, writes a temporary file and links it, under a lock of its process and
next to other processes; writers may die at each step. `DocumentNext` keeps the
three outputs of an extraction one after the other. `CatalogNext` adds the
tags of a paragraph to a catalog that is read and written without a lock;
`crossed` remembers whose adds did.

### ModelCalls

Requests of one client interleave at their awaits: attempts, delays, answers and
cancellations. The gateway's client retries only requests with an idempotency
key and has a circuit that all requests share; the direct client retries all and
counts what refused responses cost. `outcomes` is the history that says what the
circuit should be. The second half is `CachedRemoteGpuGateway`: a probe under a
lock and a result that is kept for `Ttl`.

### Preparation

A document is a sequence of kinds of lines (headings of three levels, text,
images, pages, blanks), a row a sequence of blocks of tokens in which "h" and "l"
are the halves of one character. The properties define sections, paragraphs and
their images once more, from the lines alone, and compare. A row that cannot be split is `rejected`, a
document whose paragraphs cannot be asked for `refused`. `RequestsComplete` speaks of the requests to
the model, `RecordsComplete` of the records of the index, tagged or not.
The tokens of a text are those of its pieces together; tiktoken may count one or two more or less where pieces
meet, for which the 400 tokens between the target and the limit leave room beside the suffix.

### ChunkTagging and ConceptCatalog

`ChunkTagging` takes any answer of the model through validation, the one repair,
the database and the catalog of one document; `ConceptCatalog` takes the sums over
all documents through overlapping runs. In the latter, events of one concept are
applied in the order of their digests, and a catalog may have been read before another
document changed it: `VectorsAgree` therefore speaks of runs that did not
interleave (`interleaved`), which the code does not ensure. Concepts that leave
the catalog keep their vectors: nothing deletes them.

### DocumentIndex

Indexing without checkpoints, on `FileEmbeddingReuseStore`. Nothing keeps two calls for one document apart
(`muddled`); the properties say that a reader finds a whole version as long as
none overlapped, that the first undisturbed call repairs the rest, and that no
saved vector is lost in any case. Vectors of a wrong dimension are saved for reuse
before the collection refuses them, and a cached record comes back with the
metadata it was saved with (`details`). A projection without records, which the route
lets in, is refused before anything is read (`RefuseEmpty`): a document cannot be emptied
in this way, and `Whole` is said of versions that have chunks only.

### Application

`Environments` are the variables that decide what exists; `Accepted` is what
`from_environment` and `AppSettings` require together. A service is a name in `Services`,
a function of the settings and the overrides. Three things show that a
reader of the factory may not expect: a direct provider gets a `ProcessDocument`
whose extractor is None, so that its route fails instead of answering 503
(`GuardsSuffice` names it as the only such case); `agent_chat` is composed only when
the agent runner is, which then answers in its place (the second part of `GuardsSuffice`); the health report calls
retrieval and chat disabled in every deployment without test overrides.

## 3. Runs

| run | instance | checks | result |
|---|---|---|---|
| `ledger` | 2 processors, 2 keys, batches `<<k1, k2>>` and `<<k1, k1>>`, time-out 2, hop 1 | types, one owner, delivered = cached, owner publishes, no early takeover, failure releases, refinement of `ReuseCache` | pass |
| `ledger_retry` | repeated chunk, no crash | a failed batch leaves its content retryable | **violated** |
| `runs` | `MCLifecycles`: 1 document, 2 versions, 2 processes, crashes; or 1 key, 3 tokens, 2 processors; fairness | one active run, shown = current, reported = ready, refinement of `Publication`, every run ends, every claim ends | pass |
| `runs_stale` | calls on the same run at once | ready is final | **violated** |
| `sync` | 2 runs and a chunk; the first run writes it twice, the second deletes it; limit 1; crashes, fairness | settled stores agree, drained is done, succeeded is final, no replay, committed work is done | pass |
| `ingestion` | 2 versions of 2 chunks, 2 processes, limit 1, crashes and failures everywhere | always readable, no dangling vectors, published alone, reported is complete | pass |
| `ingestion_return` | 2 versions of 1 chunk, 1 process, any order of versions | a chunk whose checkpoint is done is in both stores | **violated** |
| `ingestion_blocked` | 2 versions, 1 process, any order, fairness | the newest version is published in the end | **violated** |
| `streams` | 2 responses at once, 2 invocations, a progress event, 1 disconnect, fairness | delivered without a seam, closed once, only disconnects hurt, refinement of `ReplayLog`, every response ends but for two reasons | pass |
| `streams_left` | 2 responses, 1 disconnect | a disconnect cancels the active run | **violated** |
| `questions` | `MCQuestions`: the pipeline (2 paragraphs, 1 page, 2 calls a turn), the graph (3 rounds), a library of 4 paragraphs, 3 nested calls; fairness of the pipeline | calls accounted, context fits, sources in order, graph sound, evidence exact, traces sound, the react loop ends | pass |
| `documents` | `MCDocuments`: 2 jobs, 3 writers in 2 processes, documents of 5 lines, rows of 8 tokens, 2 documents of 2 versions, 2 calls of the index over 3 versions of which one is empty, 3 requests, every combination of the modelled variables | calls, jobs, files, the index, texts and the application are sound; a completed job stays so | pass |

The two suites hold parts that share no state, so that an interleaving of them
shows nothing that one of them at a time does not: `part` chooses at the start,
and what does not run has one initial state. A joined property is the
conjunction of those of its parts: `TextsSound` of `PreparationExact`, `TaggingSound` and
`CatalogAgrees`, and `CallsSound`, `JobsSound`, `FilesSound`, `IndexSound`, `GraphSound`, `EvidenceExact`, `TracesSound` and `ApplicationSound` of the named
properties of their modules.

That ready rows and runs stay so has no place of its own in the passing runs, since the abstract
`ReuseCache` and `Publication` cannot take anything back: `ImplementsCache` and
`ImplementsPublication` fail when a ready row or run is changed. The theorems say it by itself (`ReadyForever`).

The violated runs are disagreements between the code and what its comments,
tests or tables say; `PROJECT.json` ("findings") quotes both sides.

### Bounds, and why they are enough

* Ledger: rows do not interact except through a batch, so two keys and batches
  of two show every interaction, a repeated content included; two processors
  suffice for a claim, its takeover and the late answer. Five tokens suffice:
  whenever a claim can be made, one of them is free. Time-out 2 with hop 1
  separates "stale", "fresh" and "fresh for a late clock value".
* Lifecycle: documents do not interact, so one document; two versions and two
  processes let one run be refused while another is active, be started after
  the other was published or failed, and be resumed by another process.
* Sync: records do not interact except through the limit; a limit of one is below
  the number of events of the first run, so a sweep leaves one over, and at
  that of the second. Two runs suffice for an older and a newer event of a
  record.
* Ingestion: two versions, as a call reads one published version and
  reconciles against what the others left; two chunks, so that a version can
  be left in the middle; two processes, so that the newer version overlaps
  with a rerun of the older; one result, as the properties do not tell tags
  apart. The violations need one process and one chunk.
* Lifecycles: three tokens are enough for one key: the row, a claim that was
  superseded and a fresh one.
* Streams: two responses are the one that holds the task and one that joins,
  leaves or resumes, and places are used again; two invocations show everything a
  reopened run adds, since a third finds the state the second found; one disconnect at
  any point, as a second only meets what another response's end leaves too.
  With three responses, or with two disconnects (3.9 million states), the invariants hold as well.
* React pipeline: two calls a turn race for the last unit of each quota (`MaxDocs` 2,
  `MaxWeb` 1); the question's limit is below the run's and below the size of all
  evidence, so that selections are refused, replaced and recovered; two turns of
  the model, as each turn starts from the same place.
* Graph: three rounds, so that a round can follow one that followed a
  clarification; every combination of dependencies.
* Retrieval: rankings of up to three of four chunks, every selection of what is
  offered, answers with up to two citations, three labels and an unknown identifier.
* Tracing: three calls, so that a call has a caller and a sibling. The root's client is
  there in this suite ("open"); the other case differs in nothing but `remotes`.
* Layout jobs: two posts and two jobs, one page: a third post meets the same lock and
  the same file. Files: three writers, two of them in one process, two contents.
* Preparation: five lines hold a section, a subsection, a paragraph, an image and a
  page break in any order; rows of two blocks of four tokens, with headers of every
  cost, fall below, on and above both limits.
* Tagging: two paragraphs, two concepts that differ in spelling only and one that
  does not, two labels each. Catalog: two documents of two versions,
  one failure. Index: two calls, two versions that share a chunk, two dimensions.
* Calls: three requests around a threshold and a number of attempts of two, `MaxTime` 3 with a
  cool-down and a time to live of two: the clock passes before, at and after both.
* Application: every combination of the modelled variables and every set of overrides in one pass.

The theorems below have no such bounds.

### Fairness

* `ContentLedger!FairSpec`: processors run on (weak fairness of their steps),
  the clock advances, callers that were refused come back with the batch
  (the user or the next ingestion does), and errors do not hit every attempt
  before its transaction (strong fairness of the transaction steps). Without
  callers a dead claim stays in the table, which harms nobody: it is judged
  only by the next reserve.
* `IngestionRuns!FairSpec`, `VectorSync!FairSpec`, `Ingestion!FairSpec`: calls run on, callers come
  back for each run, and crashes and errors stop some day (`calm`). A run whose
  process was killed is resumed by nothing but a new call for it, and an event
  that failed only by a new drain of its run.
* `MCLifecycles!SuiteSpec`: the conditions of `IngestionRuns!FairSpec` and
  `ContentLedger!FairSpec`. Since one part stands still, a condition on a step of one
  is joined with a condition on a step of the other: a disjunction whose one side is never
  enabled says what the other side says.
* `ReactPipeline!FairSpec`: whatever is ready to run runs on: the models and services answer or
  raise, within the time-outs of the policies.
* `AgentRunStream!FairSpec`: the event loop gets round to every step that is ready,
  the agent's budget ends every invocation, connected clients read, and dropped
  generators are collected. Nobody has to call, resume or disconnect.

## 4. Theorems

`ReuseProofs`, for all keys, results, processors, batches, tokens,
time-outs and hops:

* `TypeCorrect`: `Typed` = `TypeOK`, positions are inside the batch and every
  chunk before the position is prepared (needed for a batch to be completed
  with results only).
* `ReadyForever`, `LeaseHonoured`, `OwnerPublishes`: action properties, each
  from `Typed` and a lemma on how a step may change the ledger.
* `SingleOwner`: from `TokensUnique`, which says that a token occurs in one
  slot only; `FreshTokens` makes it inductive.
* `Delivery`: from `Deliverable`, which says of a batch being completed that
  the rows behind its position already hold its results; ready rows never
  change, so it is kept.
* `GivenUpIsReleased`, an action property, and `WriteOnceCache`,
  the refinement of `ReuseCache`: a step that completes a row is `Put`, one that hands
  results to a caller is an answer, and every other step leaves what the cache shows as it is;

and in the same module, for two parts of the suite `documents`, each under its own specification:

* `JobsAreSound` and `CompletedForGood`, for any posts, jobs and number of pages. `JobsInv` has three parts beside
  the types. `LockHeld`: a thread that writes pages or reports them has the extraction lock.
  `FilesStay`: a job that a client was told of keeps a file. `Kept(j)`, for a job whose posts did not queue it at once:
  at most one post is past the reading that may refuse it (`Lone`), what that post has in hand and what the file says
  are what its place in the code allows (`Held`), and where there is no such post the
  file tells what the pages show (`Told`). A second post gets past its reading only after the first is through or is
  `overlapped`, and this is what the proof turns on (`QueueingTurn`);
* `IndexIsSound`, for any calls, versions, chunks and dimensions. `IndexCallSound` is what every call
  keeps: the vectors it holds are those of its version, and what it is about to write into the file for reuse has all
  that is there, since it holds the lock. `CallExact` is what an undisturbed call may rely on besides: what it
  found and saved, the ids it listed, its sidecars and its records are still as it left them. `CallsApart` says
  that an undisturbed call is alone, and that after a disturbed one the index counts as muddled.

`IngestionRunsProofs`, for all documents, versions and processes:

* `TypeCorrect` (its `TypeOK` is what the other proofs rest on, no run checks it apart)
  and `OneRunAtATime` without further assumptions, any number of
  calls on one run included;
* with one call per run (`~Shared`): `ShownAlways`, `ReportsHold`,
  `ReadyForever` and `PublishesInTurn`, the refinement of `Publication`. The
  invariant `Sound` adds to the properties what a call that has read the run
  may rely on when it writes: nobody else writes that run, so what it has seen
  is still so.

`VectorSyncProofs`, for all runs, records, values, events, workers and limits:

* `TypeCorrect`, from `Typed`, which adds that what is listed belongs to the worker's run and
  that the event under way is listed no more;
* with workers that have no record in common (`~Overlap`): `StoresAgree`, `DrainedHolds`,
  `SucceededForever`, `NothingReplayed`. The invariant `Sound` says of every record what its
  unsettled events allow: Chroma and the index state differ only while an event of the record is
  pending, failed or in a worker's hands, and a worker past `apply` has written what it is about
  to record. `~Overlap` is needed: see `VectorSync` in section 2.

`AgentRunStreamProofs`, for any number of responses, invocations (`MaxTasks` at least 1, as a run is
started once), disconnects and places:

* `TypeCorrect` and `ClosedByOne`, which counts the terminal events against the invocations;
* `NothingLost`: the queue of a subscriber and what is being put there partition what follows
  its last event. It rests on the order of the puts that wait (each notice is later than
  all that is queued) and on their being distinct;
* `OpenIsWorkedOn`: until the first disconnect, a put is cancelled only after the terminal event,
  since only who closes a run leaves (`Calm`, `CalmOnce`);
* `ReplayableLog`: the refinement of `ReplayLog`, in which queues and notices do not exist.

`PipelineProofs`, for all limits, all finite sets of evidence, all sizes of texts and any number of
turns and of calls in a turn:

* `TypeCorrect`, from `Typed`;
* `BooksBalance`: `Books` says that a budget has its types, that its counters balance and that its records
  add up to them tool by tool, and a lemma per operation of `RunBudget` that the operation keeps this
  (`ReserveBooks`, `CloseBooks`, `RecordBooks`, `FailAllBooks`). `Accounts` adds to `Books` that the reservations in flight are, tool by tool, those
  that the calls of the batch hold. It is what makes the cancellation of siblings exact: when a call
  raises, what its siblings hold is all that is active, so `FailAllBooks` applies and every record is closed;
* `TextIsCharged`: `ContextFits` is inductive beside these two. The tokens charged stay below the
  size of the longest texts of what was charged, as a selection is charged for what is new in it
  (`ChargeBounds`, from `SizeGrows`: disjoint parts add up);
* `DocumentsFirst`: from `InTurn`, which adds that under a question about the web no candidate is a
  document; that no such search is even in flight follows from the records (`NoDocuments`);
* `RoundsAreSound`, over the other pipeline, for any number of rounds and whatever is answered in them.
  `OutcomeThere` says what the channels may hold at each node: an outcome stands for what this
  round did, or a failure whose answer is gone. `NothingLeft` is what freshness rests on: as long as no round
  was cut short, those before this one ended with a question, which is asked before
  anything is selected, so a round begins without selection, pages and answer. `ResultKept` ties the last result to the
  channels, which stay as they are between rounds. A strategy policy that fails does not end the
  round at once, since its edge is unconditional: the failure shows only at `select_evidence`.
* `TracesAreSound`, for any calls, named by numbers. What the handlers keep of a call goes with its phase
  (`CallKept`), what Langfuse has open is open here (`RemoteKept`). `ToldOfCall` tells the story of a call by its kind:
  a tool that ended has both of its events, unless the stream closed before, because a stream that
  listens has listened all along; text of an answer comes after the announcement, because the first
  public model makes it for all (`ToldOfRun`);
* `EvidenceIsExact`, over `RetrievalSpec`, for any stored paragraphs, rankings, selections and answers.
  Each part of `EvidenceExact` is about one stage, and `RetrievalInv` adds what the stage before hands over: hits are distinct,
  what is found is what is stored about them, and what is selected is within that (`Selection`). The work is in the
  operators: the product of all denominators is divided exactly by each, so that a better place in a ranking
  earns more (`ProductDivides`); a set sorted by ranks has all its members, each behind those
  before it (`RankTaken`); rows of two interleaved lists put a place of either no further
  than twice down (`FlattenPairs`); and merged choices still stand where a paragraph stands.

`IngestionProofs`, for all versions (numbers), any number of chunks at least one, all results, processes
and sweep limits at least one:

* `TypeCorrect` without further assumptions; the synchroniser's part is that of `VectorSyncProofs`,
  shown again for the steps that `Ingestion` composes with its own (`SyncTyped`);
* with versions in order (`~Returns`): `NeverUnreadable`, `DeletionOnItsWay`, `NothingLeftBehind` and
  `ReportsAreTrue`, which are the four properties of the run `ingestion`, and `PublishedForward`, that a
  published version is replaced by a newer one only. The invariant `IInv` joins four parts.
  `Order` says how the calls lie among the versions: one version is at work at most, nobody has got past it,
  the published one is the newest that became ready, and what a call may clean up is
  older and was ready. `Stores` relates the outbox, Chroma, the index state, the rows and the
  ledger, without looking at calls: a deletion is for a chunk of a version that was
  published, by one that is whole or published itself; a version that is ready
  has no work left and, since every chunk of it is in the ledger, a rerun of it finds
  its events in the outbox already. `Work` says of every synchroniser that what it has listed is
  still due and what it is about to record is written; no other call can settle
  it, since an event belongs to its version's call. `Calls` says what a call relies on
  between its awaits: the chunks behind it are in the ledger as it has them, with
  their events succeeded; from `Plan` on it holds every other chunk that the index state
  knows of, which stays so because only the version at work adds to the index state. The
  proof goes by who acts: `ActStores` for the stores, `OwnCall` and `OwnWorks` for the
  process that acts, `OtherCalls` and `OtherWorks` for the rest, `OutsideIInv` for what no call does.
  `~Returns` is needed: `ingestion_return` shows what an older version does.

`DocumentsProofs`, for the other parts of the suite `documents`, each under its own specification:

* `FilesAreSound`, for any writers, processes, bytes and tags. A put that writes has looked when nothing was
  there and has the lock of its process since (`LockSound`), so that what is there by then comes
  from another process, from one of its `rivals` (`Rivals`, `PutSound`). A catalog that was read
  is still what is there, and nobody else has it in hand, unless the add is `crossed` (`AddSound`);
* `CatalogIsSound`, for any documents, versions, concepts and counts. `CountedInv` says of each document which
  version is counted at each stage of its run, `PendingInv` that events wait for the run that has
  committed them, and `VectorsInv` that without crossing runs one at a time is between
  replacing and publishing, whose events are what the vectors lack. Of sums nothing is used
  but that equal observations have equal ones.
* `TaggingIsSound`, for any concepts, candidates and number of labels. `TaggingInv` says of each stage what the next
  one reads (`Tagged`, `Committed`, `Catalogued`) and that a paragraph's tags are those that its
  resolutions name (`TagsResolved`).
* `CallsAreSound`, for any requests and probes at once and all settings. `CircuitInv` makes `CircuitHonest`
  inductive: the failures the circuit counts are the last outcomes, so that what the order of answers was
  does not matter. `MetricsInv` says that what was told of a request goes with its phase, and that of
  requests, of which there may be infinitely many, only finitely many have begun: the gauge is
  their number (`WaitingIs`). `HealthInv` is `PollBounded` with the types of the times it compares;
* `ProcessIsSound`, for any environment and overrides. Services depend on settings and
  overrides only (`ServicesAre`, `OffersStay`), so that the last answer is still right when the process
  stops; `DueIs` says whose turn it is, and `ClosingsInv` that what is closed had its turn;
* `PreparationIsExact`, for any number of lines of any kinds, any rows of blocks of tokens and any limits with
  `SplitTarget + SuffixCost <= TokenLimit` (`PreparationAssumption`; in topic_input_vl.py:28-29 the limits are 7600 and
  8000, and a suffix of 400 tokens would take a number of parts of hundreds of digits). The stages are computed
  in one step each, so the state invariant is what each has handed over (`Prepared`, `RowIs`); the work is in the
  folds, where an invariant of the loop goes along the lines. `ReadSo`, of `build_source_chunks`: the
  sections that are closed are those of the headings so far with content, each with all of it and within its pages, and the open one
  has the lines its heading owns so far. `ParsedSo`, of `_blocks`: the blocks that are closed, the open one and
  the images that wait for one have every line and image read, in order; no block begins between an image that waits
  and the line it will be given to. `Covers` and `FitsTarget`, of `_split_content`: the parts and the
  blocks that are open have the content of the row so far, but for replaced halves of characters (`Blurs`), and
  everything fits the target. The properties define sections, owners and pages from the lines alone, and
  that their sorted sets are what the folds leave rests on `SortedIs`: an increasing sequence with the elements of
  a set is the only one. Names are unique because a paragraph's number counts equal texts in the whole chunk
  (`NamesApart`), and only a section without text is refused (`RefusalsHold`);
* `TextsAreSound` joins `PreparationIsExact`, `TaggingIsSound` and `CatalogIsSound` under the specification of
  the suite, whose property `TextsSound` is.

`SequenceFacts` is what the theorems about data rest on. The library states induction with an operator
for a parameter, which no prover here can instantiate, so it is replaced by sets: a set of numbers that has 0
and with each number below n the next one has all of 0..n, as the least one it lacks
would have a predecessor in it (`UpTo`). A fold is then a chain of values, one for each
element read (`FoldSolution`, `FoldAlong`), and what holds along the chain holds of the fold.
`SelectSeq` and `SortSeq` have no definition that a proof could open, and where
something is proved the models use the operators of `Lists` in their place.
The rest is about sequences over any elements: how parts, concatenations, selections and flattened sequences
lie in one another.

Only model-checked: liveness (`ClaimsEnd`, `RunsEnd`, `WorkIsDone`, `StreamsEnd`, `ReactEnds`), which is out
of the prover's reach, as is ENABLED. Every other property of a passing run has a theorem. Without `~Overlap` and `~Shared` the theorems that
assume them are false, as section 2 says.

## 5. Plan

Done: the ingestion side (`ContentLedger`, `IngestionRuns`, `VectorSync`, `Ingestion`), the
streams, and since then the budget and both pipelines, retrieval and citations,
tracing, layout jobs, files, model clients and health, preparation, tagging, the
concept catalog, the index, and the composition of the process; and the proofs of section 4.

Next: `Overlap = TRUE` in `VectorSync`, together with the events of `ConceptCatalog`.

## 6. Not modelled, and why

* The export of an ingestion's results, the command line and the readers of its
  input: files in and out without control state.
* The plain workflow of use_cases.py that commits a whole document at once: covered
  as far as the ledger goes (`ContentLedger`), since the application is always wired with checkpoints.
* `InMemoryCandidateSetRepository`, `RemoteChunkTagger` and `SqliteTaggingRepository`:
  nothing in the application composes them.
* The legacy answer of `chat/service.py`: only overrides of tests compose it.
* The database browser, Chroma's client, HTTP payloads and their validation, the
  translation of messages for LangChain and the web client: reads and formats without state.
* Prices, redaction and the wording of logs; the contents of texts, tags, vectors and
  prompts, which are members of small sets throughout.
* Overlapping drains of documents that share concepts (`Overlap` is FALSE in the runs
  of `VectorSync`), and which of two results of a chunk its vector carries after a crash.
* What a disconnecting response may still write into a resumed run (`api.py:597`): an
  event carries nothing that tells the invocations apart.
* Cancellation of a Chroma call whose thread goes on is covered as a write that
  happened before the worker stopped, which is the order a single process
  enforces: its executor is joined before it ends.
