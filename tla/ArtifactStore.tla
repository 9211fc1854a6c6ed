------------------------------ MODULE ArtifactStore ------------------------------
(***************************************************************************)
(* Files that several threads and processes write: artifacts, which never  *)
(* change (platform/artifacts.py, LocalArtifactRepository), the outputs of *)
(* an extraction (workflows/process_document.py, extraction/), and the tag *)
(* catalog beside the sidecars of tagged paragraphs (tagging/persistence.py*)
(* and use_cases.py). Bytes are members of a small set; identities do not  *)
(* interfere, so there is one of each kind, and three state machines that  *)
(* share nothing. Checks of paths and symbolic links are left out.         *)
(***************************************************************************)
EXTENDS Naturals, FiniteSets

CONSTANTS Writers,    \* the puts of the artifact
          Processes,  \* the processes they come from
          Payloads,   \* what its bytes may be
          Taggers,    \* the paragraphs that are tagged
          Tags        \* the tags they may get

VARIABLES stored,     \* the bytes under the identity
          puts,       \* what each put is doing
          putLock,    \* _write_lock of each process
          outputs,    \* outputs of the extraction in the repository
          document,   \* a run of ProcessAndPersistDocument
          catalog,    \* the tags in the catalog file
          sidecars,   \* the tags in the sidecar of each paragraph
          adds,       \* what each tagging is doing
          crossed     \* taggings whose add ran at the same time as another

putVars == <<stored, puts, putLock>>
documentVars == <<outputs, document>>
catalogVars == <<catalog, sidecars, adds, crossed>>
filesVars == <<putVars, documentVars, catalogVars>>

Absent == "absent"
Free == "free"
OutputNames == {"markdown", "layout", "manifest"}

ASSUME PayloadsAssumption == Absent \notin Payloads
ASSUME WritersAssumption == Free \notin Writers

FilesInit ==
    /\ stored = Absent
    /\ puts = [w \in Writers |-> [at |-> "idle", bytes |-> Absent, process |-> Free, temp |-> FALSE, rivals |-> {}, failed |-> FALSE]]
    /\ putLock = [p \in Processes |-> Free]
    /\ outputs = {} /\ document = [at |-> "idle", fetched |-> {}, kept |-> {}]
    /\ catalog = {} /\ sidecars = [t \in Taggers |-> {}]
    /\ adds = [t \in Taggers |-> [at |-> "idle", listed |-> {}, tags |-> {}, read |-> {}]] /\ crossed = {}

-----------------------------------------------------------------------------
(***************************************************************************)
(* LocalArtifactRepository                                                 *)
(***************************************************************************)
PutEnded(w) == puts[w].at \in {"idle", "kept", "refused", "killed"}
Runs(w) == ~PutEnded(w)

\* _write_artifact: bytes that do not belong to the reference never get here.
BeginPut(w, p, bytes) ==
    LET rivals == {v \in Writers : Runs(v) /\ puts[v].process # p} IN
    /\ puts[w].at = "idle"
    /\ puts' = [v \in Writers |->
          IF v = w THEN [at |-> "lock", bytes |-> bytes, process |-> p, temp |-> FALSE,
                             rivals |-> rivals, failed |-> FALSE]
          ELSE IF v \in rivals THEN [puts[v] EXCEPT !.rivals = @ \cup {w}] ELSE puts[v]]
    /\ UNCHANGED <<stored, putLock>>

\* A thread of the process waits for its turn and looks at what is there.
Looks(w) ==
    CASE stored = Absent        -> "write"
      [] stored = puts[w].bytes -> "kept"
      [] OTHER                  -> "refused"

LockPut(w) ==
    /\ puts[w].at = "lock"
    /\ putLock[puts[w].process] = Free
    /\ puts' = [puts EXCEPT ![w].at = Looks(w), ![w].temp = (Looks(w) = "write")]
    /\ putLock' = IF Looks(w) = "write" THEN [putLock EXCEPT ![puts[w].process] = w] ELSE putLock
    /\ UNCHANGED stored

\* Fault: the temporary file is moved over what is there.
PublishedOver(w) == puts[w].bytes

\* os.link fails when the name is taken.
Published(w) == IF stored = Absent THEN puts[w].bytes ELSE stored

\* The temporary file is removed whether or not the link was made.
LinkPut(w) ==
    /\ puts[w].at = "write"
    /\ stored' = Published(w)
    /\ puts' = [puts EXCEPT ![w].temp = FALSE, ![w].at = IF stored = Absent THEN "kept" ELSE "refused"]
    /\ putLock' = [putLock EXCEPT ![puts[w].process] = Free]

\* A disk that is full: no name, no temporary file.
WriteFails(w) ==
    /\ puts[w].at = "write"
    /\ puts' = [puts EXCEPT ![w].temp = FALSE, ![w].at = "refused", ![w].failed = TRUE]
    /\ putLock' = [putLock EXCEPT ![puts[w].process] = Free]
    /\ UNCHANGED stored

\* A process dies with its threads; temporary files stay.
ProcessDies(p) ==
    /\ \E w \in Writers : puts[w].process = p /\ Runs(w)
    /\ puts' = [w \in Writers |-> IF puts[w].process = p /\ Runs(w) THEN [puts[w] EXCEPT !.at = "killed"] ELSE puts[w]]
    /\ putLock' = [putLock EXCEPT ![p] = Free]
    /\ UNCHANGED stored

-----------------------------------------------------------------------------
(***************************************************************************)
(* An extraction whose outputs a remote service has put there              *)
(***************************************************************************)
\* The source is checked, the service puts some of the outputs it names, and its answer
\* belongs to the request or is refused.
Extract ==
    /\ document.at = "idle"
    /\ outputs' \in SUBSET OutputNames
    /\ document' \in {[document EXCEPT !.at = "extracted"], [document EXCEPT !.at = "refused"]}

\* The three are read one after the other, and put back where they are.
FetchOutput(name) ==
    /\ document.at = "extracted" /\ name \notin document.fetched
    /\ document' = IF name \in outputs THEN [document EXCEPT !.fetched = @ \cup {name}] ELSE [document EXCEPT !.at = "refused"]
    /\ UNCHANGED outputs

PersistOutput(name) ==
    /\ document.at = "extracted" /\ document.fetched = OutputNames /\ name \notin document.kept
    /\ outputs' = outputs \cup {name}
    /\ document' = [document EXCEPT !.kept = @ \cup {name},
                                    !.at = IF document.kept \cup {name} = OutputNames THEN "processed" ELSE @]

-----------------------------------------------------------------------------
(***************************************************************************)
(* Tagged paragraphs and the catalog of their tags                         *)
(***************************************************************************)
\* The tags that exist when the paragraph is tagged.
ListTags(t) ==
    /\ adds[t].at = "idle"
    /\ adds' = [adds EXCEPT ![t].at = "listed", ![t].listed = catalog]
    /\ UNCHANGED <<catalog, sidecars, crossed>>

\* Each generated tag is kept or becomes an existing one.
TagAndUpsert(t) ==
    /\ adds[t].at = "listed"
    /\ \E generated \in (SUBSET Tags) \ {{}} :
       \E resolved \in [generated -> generated \cup adds[t].listed] :
          /\ \A tag \in generated : resolved[tag] \in {tag} \cup adds[t].listed
          /\ LET tags == {resolved[tag] : tag \in generated} IN
             /\ adds' = [adds EXCEPT ![t].at = "upserted", ![t].tags = tags]
             /\ sidecars' = [sidecars EXCEPT ![t] = tags]
    /\ UNCHANGED <<catalog, crossed>>

\* _add reads the catalog and replaces it, in a worker thread and without a lock.
ReadCatalog(t) ==
    LET others == {u \in Taggers : adds[u].at = "read"} IN
    /\ adds[t].at = "upserted"
    /\ adds' = [adds EXCEPT ![t].at = "read", ![t].read = catalog]
    /\ crossed' = IF others = {} THEN crossed ELSE crossed \cup others \cup {t}
    /\ UNCHANGED <<catalog, sidecars>>

CatalogWith(t) == adds[t].read \cup adds[t].tags

ReplaceCatalog(t) ==
    /\ adds[t].at = "read"
    /\ catalog' = CatalogWith(t)
    /\ adds' = [adds EXCEPT ![t].at = "added"]
    /\ UNCHANGED <<sidecars, crossed>>

PutsNext ==
    \/ \E w \in Writers, p \in Processes, bytes \in Payloads : BeginPut(w, p, bytes)
    \/ \E w \in Writers : LockPut(w) \/ LinkPut(w) \/ WriteFails(w)
    \/ \E p \in Processes : ProcessDies(p)
DocumentNext == Extract \/ \E name \in OutputNames : FetchOutput(name) \/ PersistOutput(name)
CatalogNext == \E t \in Taggers : ListTags(t) \/ TagAndUpsert(t) \/ ReadCatalog(t) \/ ReplaceCatalog(t)

\* The three together, step by step.
FilesNext ==
    \/ PutsNext /\ UNCHANGED <<documentVars, catalogVars>>
    \/ DocumentNext /\ UNCHANGED <<putVars, catalogVars>>
    \/ CatalogNext /\ UNCHANGED <<putVars, documentVars>>

FilesSpec == FilesInit /\ [][FilesNext]_filesVars

-----------------------------------------------------------------------------
(***************************************************************************)
(* Properties                                                              *)
(***************************************************************************)
\* What a put has kept is there for good, whoever else puts or dies, and nothing but
\* bytes that were put is; equal bytes are refused only on a failing disk or when
\* another process was writing them at the same time.
ArtifactsKept ==
    /\ \A w \in Writers : puts[w].at = "kept" => stored = puts[w].bytes
    /\ stored # Absent => \E w \in Writers : puts[w].bytes = stored
    /\ \A w \in Writers : puts[w].at = "refused" /\ stored = puts[w].bytes => puts[w].rivals # {} \/ puts[w].failed
    /\ \A w \in Writers : puts[w].temp => puts[w].at \in {"write", "killed"}
    /\ \A p \in Processes : putLock[p] # Free => Runs(putLock[p])

\* A document that was processed has its three outputs.
OutputsKept == document.at = "processed" => outputs = OutputNames

\* The catalog has the tags of every paragraph that was tagged, except of those whose
\* adds crossed.
CatalogComplete == \A t \in Taggers \ crossed : adds[t].at = "added" => sidecars[t] \subseteq catalog

\* The three files together.
FilesSound == ArtifactsKept /\ OutputsKept /\ CatalogComplete
================================================================================
