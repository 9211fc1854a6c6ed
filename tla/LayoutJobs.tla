------------------------------- MODULE LayoutJobs -------------------------------
(***************************************************************************)
(* Extraction of uploaded PDFs (workflows/pdf_layout_jobs.py,              *)
(* workflows/pdf_layout_extraction.py, interfaces/pdf_layout_web.py,       *)
(* extraction/paddle_vllm.py). The state of a job is a file that requests  *)
(* and worker threads read, change and write: through job.tmp, which they  *)
(* share, and without a lock. A post becomes the thread it launches. One   *)
(* lock admits one extraction at a time; the server may stop at any moment *)
(* and start again. Times, names, devices and error texts are left out.    *)
(***************************************************************************)
EXTENDS Integers, FiniteSets

CONSTANTS Jobs,       \* identifiers of jobs
          Posts,      \* the posts to /extract that are tried, and their threads
          Pages       \* how many pages a PDF has

ASSUME JobsAssumption == Jobs # {}
ASSUME PagesAssumption == Pages \in Nat \ {0}

VARIABLES jobFile,    \* job.json of each job
          jobTmp,     \* job.tmp of each job
          known,      \* jobs whose identifier a client has been given
          layoutPages,\* pages with a readable layout file
          pageImages, \* the page images are rendered
          posts,      \* what each post and its thread is doing
          ocrLock,    \* the holder of EXTRACTION_LOCK
          overlapped, \* jobs queued by two posts at once
          abandoned,  \* jobs whose thread a stop of the server killed
          viewed      \* the pages the viewer was shown last, per job

layoutVars == <<jobFile, jobTmp, known, layoutPages, pageImages, posts, ocrLock, overlapped, abandoned, viewed>>

NoFile == [status |-> "no file"]
Garbled == [status |-> "garbled"]    \* a file that is empty or is not there yet
Nobody == "nobody"
ASSUME PostsAssumption == Nobody \notin Posts

AllPages == 1..Pages
Idle == [at |-> "idle", job |-> CHOOSE j \in Jobs : TRUE, doing |-> "queue", mine |-> NoFile, handle |-> "none", page |-> 0]

LayoutInit ==
    /\ jobFile = [j \in Jobs |-> NoFile] /\ jobTmp = [j \in Jobs |-> NoFile]
    /\ known = {} /\ overlapped = {} /\ abandoned = {}
    /\ layoutPages = [j \in Jobs |-> {}] /\ pageImages = [j \in Jobs |-> FALSE]
    /\ posts = [p \in Posts |-> Idle] /\ ocrLock = Nobody
    /\ viewed = [j \in Jobs |-> {}]

-----------------------------------------------------------------------------
(***************************************************************************)
(* Uploads                                                                 *)
(***************************************************************************)
\* create_uploaded_job writes the state before the PDF is there; nobody knows its name.
CreateJob(j) ==
    /\ jobFile[j] = NoFile
    /\ jobFile' = [jobFile EXCEPT ![j] = [status |-> "uploaded", phase |-> "uploaded", done |-> 0]]
    /\ UNCHANGED <<jobTmp, known, layoutPages, pageImages, posts, ocrLock, overlapped, abandoned, viewed>>

SaveUpload(j) ==
    /\ jobFile[j] # NoFile /\ j \notin known
    /\ known' = known \cup {j}
    /\ UNCHANGED <<jobFile, jobTmp, layoutPages, pageImages, posts, ocrLock, overlapped, abandoned, viewed>>

\* A PDF that is empty, too large or cannot be saved: the job is removed.
DiscardUpload(j) ==
    /\ jobFile[j] # NoFile /\ j \notin known
    /\ jobFile' = [jobFile EXCEPT ![j] = NoFile]
    /\ UNCHANGED <<jobTmp, known, layoutPages, pageImages, posts, ocrLock, overlapped, abandoned, viewed>>

-----------------------------------------------------------------------------
(***************************************************************************)
(* One update of a state: read, patch, write job.tmp, rename it            *)
(***************************************************************************)
Readable(file) == file.status \notin {"no file", "garbled"}

\* Fault: a job that runs can be queued again.
QueueableAgain(status) == status \in {"uploaded", "failed", "running"}

\* Fault: a completed job can be extracted again.
QueueableDone(status) == status \in {"uploaded", "failed", "completed"}

Queueable(status) == status \in {"uploaded", "failed"}

Patched(state, p) ==
    CASE p.doing = "queue"      -> [status |-> "queued", phase |-> "queued", done |-> 0]
      [] p.doing = "start"      -> [status |-> "running", phase |-> "initializing", done |-> 0]
      [] p.doing = "extracting" -> [state EXCEPT !.phase = "extracting"]
      [] p.doing = "page"       -> [state EXCEPT !.phase = "extracting", !.done = p.page]
      [] p.doing = "rendering"  -> [state EXCEPT !.phase = "rendering"]
      [] p.doing = "complete"   -> [status |-> "completed", phase |-> "completed", done |-> Pages]
      [] p.doing = "fail"       -> [state EXCEPT !.status = "failed", !.phase = "failed"]

\* Where the post or its thread is once an update is written.
After(p) ==
    CASE p.doing = "queue"              -> [p EXCEPT !.doing = "start", !.at = "read"]
      [] p.doing = "start"              -> [p EXCEPT !.at = "lock"]
      [] p.doing \in {"extracting", "page"} -> [p EXCEPT !.at = "predict"]
      [] p.doing = "rendering"          -> [p EXCEPT !.at = "render"]
      [] OTHER                          -> [p EXCEPT !.at = "done"]

\* An exception: the request fails, a thread that is not inside try dies, and any other
\* leaves the lock and writes that the job has failed.
Raised(p) ==
    IF p.doing \in {"queue", "start", "fail"} THEN [p EXCEPT !.at = "raised"]
    ELSE [p EXCEPT !.doing = "fail", !.at = "read"]

Raise(a) ==
    /\ posts' = [posts EXCEPT ![a] = Raised(@)]
    /\ ocrLock' = IF ocrLock = a THEN Nobody ELSE ocrLock

Live(p) == p.at \notin {"idle", "done", "refused", "raised", "killed"}
Queueing(p) == p.doing = "queue" /\ p.at \in {"open", "fill", "replace"}

PostExtract(a, j) ==
    /\ posts[a].at = "idle"
    /\ j \in known
    /\ posts' = [posts EXCEPT ![a] = [Idle EXCEPT !.at = "read", !.job = j]]
    /\ UNCHANGED <<jobFile, jobTmp, known, layoutPages, pageImages, ocrLock, overlapped, abandoned, viewed>>

ReadState(a) ==
    LET p == posts[a]
        seen == jobFile[p.job]
        refused == p.doing = "queue" /\ Readable(seen) /\ ~Queueable(seen.status)
    IN
    /\ p.at = "read"
    /\ CASE ~Readable(seen) -> Raise(a)
         [] refused         -> posts' = [posts EXCEPT ![a].at = "refused"] /\ UNCHANGED ocrLock
         [] OTHER           -> /\ posts' = [posts EXCEPT ![a].at = "open", ![a].mine = Patched(seen, p)]
                               /\ UNCHANGED ocrLock
    /\ overlapped' = IF /\ p.doing = "queue" /\ ~refused
                        /\ \E b \in Posts \ {a} : posts[b].job = p.job /\ Queueing(posts[b])
                     THEN overlapped \cup {p.job} ELSE overlapped
    /\ UNCHANGED <<jobFile, jobTmp, known, layoutPages, pageImages, abandoned, viewed>>

\* Opening empties the file; all who have it open write to the same one.
OpenTmp(a) ==
    /\ posts[a].at = "open"
    /\ jobTmp' = [jobTmp EXCEPT ![posts[a].job] = Garbled]
    /\ posts' = [posts EXCEPT ![a].at = "fill", ![a].handle = "tmp"]
    /\ UNCHANGED <<jobFile, known, layoutPages, pageImages, ocrLock, overlapped, abandoned, viewed>>

FillTmp(a) ==
    LET p == posts[a] IN
    /\ p.at = "fill"
    /\ jobTmp' = IF p.handle = "tmp" THEN [jobTmp EXCEPT ![p.job] = p.mine] ELSE jobTmp
    /\ jobFile' = IF p.handle = "file" THEN [jobFile EXCEPT ![p.job] = p.mine] ELSE jobFile
    /\ posts' = [posts EXCEPT ![a].at = "replace", ![a].handle = "none"]
    /\ UNCHANGED <<known, layoutPages, pageImages, ocrLock, overlapped, abandoned, viewed>>

\* Whoever has job.tmp open has job.json open afterwards, and a file without a name next.
Moved(handle) == CASE handle = "tmp" -> "file" [] OTHER -> "none"

ReplaceFile(a) ==
    LET j == posts[a].job IN
    /\ posts[a].at = "replace"
    /\ IF jobTmp[j] = NoFile THEN Raise(a) /\ UNCHANGED <<jobFile, jobTmp>>
       ELSE /\ jobFile' = [jobFile EXCEPT ![j] = jobTmp[j]]
            /\ jobTmp' = [jobTmp EXCEPT ![j] = NoFile]
            /\ posts' = [b \in Posts |->
                  IF b = a THEN After(posts[a])
                  ELSE IF posts[b].job = j THEN [posts[b] EXCEPT !.handle = Moved(@)] ELSE posts[b]]
            /\ UNCHANGED ocrLock
    /\ UNCHANGED <<known, layoutPages, pageImages, overlapped, abandoned, viewed>>

-----------------------------------------------------------------------------
(***************************************************************************)
(* The thread of an extraction                                             *)
(***************************************************************************)
Goes(a, p) == posts' = [posts EXCEPT ![a] = p]

LockFree == ocrLock = Nobody

TakeLock(a) ==
    /\ posts[a].at = "lock"
    /\ LockFree
    /\ ocrLock' = a
    /\ Goes(a, [posts[a] EXCEPT !.doing = "extracting", !.at = "read"])
    /\ UNCHANGED <<jobFile, jobTmp, known, layoutPages, pageImages, overlapped, abandoned, viewed>>

\* A page of PaddleOCR-VL is saved over the one of an earlier extraction.
SavePage(a) ==
    LET p == posts[a] IN
    /\ p.at = "predict" /\ p.page < Pages
    /\ layoutPages' = [layoutPages EXCEPT ![p.job] = @ \ {p.page + 1}]
    /\ Goes(a, [p EXCEPT !.at = "saving", !.page = @ + 1])
    /\ UNCHANGED <<jobFile, jobTmp, known, pageImages, ocrLock, overlapped, abandoned, viewed>>

ReportPage(a) ==
    LET p == posts[a] IN
    /\ p.at = "saving"
    /\ layoutPages' = [layoutPages EXCEPT ![p.job] = @ \cup {p.page}]
    /\ Goes(a, [p EXCEPT !.doing = "page", !.at = "read"])
    /\ UNCHANGED <<jobFile, jobTmp, known, pageImages, ocrLock, overlapped, abandoned, viewed>>

PagesEnd(a) ==
    /\ posts[a].at = "predict" /\ posts[a].page = Pages
    /\ Goes(a, [posts[a] EXCEPT !.doing = "rendering", !.at = "read"])
    /\ UNCHANGED <<jobFile, jobTmp, known, layoutPages, pageImages, ocrLock, overlapped, abandoned, viewed>>

RenderPages(a) ==
    /\ posts[a].at = "render"
    /\ pageImages' = [pageImages EXCEPT ![posts[a].job] = TRUE]
    /\ ocrLock' = IF ocrLock = a THEN Nobody ELSE ocrLock
    /\ Goes(a, [posts[a] EXCEPT !.doing = "complete", !.at = "read"])
    /\ UNCHANGED <<jobFile, jobTmp, known, layoutPages, overlapped, abandoned, viewed>>

\* No server is configured, the service fails, returns no page, or Poppler fails.
ExtractionFails(a) ==
    /\ posts[a].at \in {"lock", "predict", "saving", "render"}
    /\ posts' = [posts EXCEPT ![a] = [@ EXCEPT !.doing = "fail", !.at = "read"]]
    /\ ocrLock' = IF ocrLock = a THEN Nobody ELSE ocrLock
    /\ UNCHANGED <<jobFile, jobTmp, known, layoutPages, pageImages, overlapped, abandoned, viewed>>

\* The server stops: its threads are gone, the files stay.
ServerStops ==
    /\ \E a \in Posts : Live(posts[a])
    /\ abandoned' = abandoned \cup {posts[a].job : a \in {b \in Posts : Live(posts[b])}}
    /\ posts' = [a \in Posts |-> IF Live(posts[a]) THEN [posts[a] EXCEPT !.at = "killed"] ELSE posts[a]]
    /\ ocrLock' = Nobody
    /\ UNCHANGED <<jobFile, jobTmp, known, layoutPages, pageImages, overlapped, viewed>>

-----------------------------------------------------------------------------
\* load_completed_state and read_layout_pages, which leaves out what it cannot read.
ShowLayout(j) ==
    /\ j \in known
    /\ jobFile[j].status = "completed"
    /\ viewed' = [viewed EXCEPT ![j] = layoutPages[j]]
    /\ UNCHANGED <<jobFile, jobTmp, known, layoutPages, pageImages, posts, ocrLock, overlapped, abandoned>>

LayoutNext ==
    \/ \E j \in Jobs : CreateJob(j) \/ SaveUpload(j) \/ DiscardUpload(j) \/ ShowLayout(j)
    \/ \E a \in Posts, j \in Jobs : PostExtract(a, j)
    \/ \E a \in Posts :
          \/ ReadState(a) \/ OpenTmp(a) \/ FillTmp(a) \/ ReplaceFile(a)
          \/ TakeLock(a) \/ SavePage(a) \/ ReportPage(a) \/ PagesEnd(a) \/ RenderPages(a)
          \/ ExtractionFails(a)
    \/ ServerStops

LayoutSpec == LayoutInit /\ [][LayoutNext]_layoutVars

-----------------------------------------------------------------------------
(***************************************************************************)
(* Properties                                                              *)
(***************************************************************************)
Extracts(p) == p.at \in {"predict", "saving", "render"}

\* Whatever is posted, one extraction at a time writes pages.
OneExtracts == \A a, b \in Posts : Extracts(posts[a]) /\ Extracts(posts[b]) => a = b

Apart(j) == j \notin overlapped
Works(j) == \E a \in Posts : posts[a].job = j /\ Live(posts[a])

\* Unless two posts queue a job at once, its threads are alone with its file: none is
\* refused its own write, and what the file says is so. Only a stop of the server
\* leaves a job that nobody works on and that cannot be queued.
FileTells ==
    \A j \in known : Apart(j) =>
        /\ Readable(jobFile[j])
        /\ \A a \in Posts : posts[a].job = j => posts[a].at # "raised"
        /\ jobFile[j].status \in {"queued", "running"} => Works(j) \/ j \in abandoned
        /\ jobFile[j].status # "running" => jobFile[j].phase = jobFile[j].status

\* A completed job has all its pages, and the viewer is shown all of them.
CompletedIsWhole ==
    \A j \in known : Apart(j) =>
        /\ jobFile[j].status = "completed" => layoutPages[j] = AllPages /\ pageImages[j]
        /\ viewed[j] \in {{}, AllPages}

\* A completed job stays so, and keeps its pages: a post that comes late is refused, and no
\* update of an earlier thread is still under way.
CompletedStays ==
    [][\A j \in known : Apart(j)' /\ jobFile[j].status = "completed" =>
          jobFile'[j].status = "completed" /\ layoutPages'[j] = layoutPages[j]]_layoutVars

\* Uploads and extractions together.
JobsSound == OneExtracts /\ FileTells /\ CompletedIsWhole
================================================================================
